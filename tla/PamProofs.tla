------------------------------ MODULE PamProofs ------------------------------
(***************************************************************************)
(* Proofs about PamIdentify, for any number of retries, and about PamFiles, *)
(* for every installation, set of users, administrator's line and bound.    *)
(*  - PamIdentify: each property is a conjunct of IInv, which every step    *)
(*    preserves.                                                            *)
(*  - PamFiles: what the operators of PamText return, WalletInv for the     *)
(*    drop-in of the automatic login, LockInv for the lock screen, RollInv  *)
(*    for the rollback of a failed enable.                                  *)
(***************************************************************************)
EXTENDS PamIdentify, PamFiles, WellFoundedInduction, FiniteSetTheorems, TLAPS

\* The flags stay Boolean
LEMMA FlagStep ==
  ASSUME IInv, [Next]_vars
  PROVE  FlagsOK'
<1> USE DEF IInv, TypeOK, FlagsOK, call_vars, main_vars, verify_vars, pass_vars
<1>1. CASE ReadForm
  BY <1>1, Zenon DEF ReadForm, GoTo, Return
<1>2. CASE NotEnabled
  BY <1>2, Zenon DEF NotEnabled, GoTo, Return
<1>3. CASE NothingToConfirmWith
  BY <1>3, Zenon DEF NothingToConfirmWith, GoTo, Return
<1>4. CASE UnknownRequester
  BY <1>4, Zenon DEF UnknownRequester, GoTo, Return
<1>5. CASE VerifyConfirmed
  BY <1>5, Zenon DEF VerifyConfirmed, GoTo, Return
<1>6. CASE ConfirmedAnswer
  BY <1>6, Zenon DEF ConfirmedAnswer, GoTo, Return, ConfirmedCode,
       linux_hello_status, linux_hello_error
<1>7. CASE StartTasks
  BY <1>7, Zenon DEF StartTasks, GoTo, Return
<1>8. CASE PasswordWins
  BY <1>8, Zenon DEF PasswordWins, GoTo, Return
<1>9. CASE Dropped
  BY <1>9, Zenon DEF Dropped, GoTo, Return, PassResult
<1>10. CASE FaceWins
  BY <1>10, Zenon DEF FaceWins, GoTo, Return
<1>11. CASE WaitForPassword
  BY <1>11, Zenon DEF WaitForPassword, GoTo, Return
<1>12. CASE PasswordDecides
  BY <1>12, Zenon DEF PasswordDecides, GoTo, Return, linux_hello_status,
       linux_hello_error
<1>13. CASE FaceAlone
  BY <1>13, Zenon DEF FaceAlone, GoTo, Return, linux_hello_status,
       linux_hello_error
<1>14. CASE KillPrompt
  BY <1>14, Zenon DEF KillPrompt, GoTo, Return
<1>15. CASE NoEnterDevice
  BY <1>15, Zenon DEF NoEnterDevice, GoTo, Return
<1>16. CASE FirstEnter
  BY <1>16, Zenon DEF FirstEnter, SendEnter
<1>17. CASE EnterAgain
  BY <1>17, Zenon DEF EnterAgain, SendEnter
<1>18. CASE EnoughPresses
  BY <1>18, Zenon DEF EnoughPresses, GoTo, Return
<1>19. CASE PromptOver
  BY <1>19, Zenon DEF PromptOver, GoTo, Return, linux_hello_status,
       linux_hello_error
<1>20. CASE ServiceAnswers
  BY <1>20, Zenon DEF ServiceAnswers
<1>21. CASE RunFails
  BY <1>21, Zenon DEF RunFails
<1>22. CASE RunCancelled
  BY <1>22, Zenon DEF RunCancelled
<1>23. CASE VerifyTaskEnds
  BY <1>23, Zenon DEF VerifyTaskEnds, TakeDecision
<1>24. CASE PasswordEntered
  BY <1>24, Zenon DEF PasswordEntered
<1>25. CASE PromptFails
  BY <1>25, Zenon DEF PromptFails
<1>26. CASE PassTaskEnds
  BY <1>26, Zenon DEF PassTaskEnds, TakeDecision
<1>27. CASE PassTaskKilled
  BY <1>27, Zenon DEF PassTaskKilled
<1>28. CASE UNCHANGED vars
  BY <1>28, Zenon DEF vars
<1>29. QED
  BY <1>1, <1>2, <1>3, <1>4, <1>5, <1>6, <1>7, <1>8, <1>9, <1>10, <1>11, <1>12,
       <1>13, <1>14, <1>15, <1>16, <1>17, <1>18, <1>19, <1>20, <1>21, <1>22,
       <1>23, <1>24, <1>25, <1>26, <1>27, <1>28
     DEF Next, Main, VerifyTask, Prompt, PassTask

\* Types are preserved by every step
LEMMA TypeStep ==
  ASSUME IInv, [Next]_vars
  PROVE  TypeOK'
<1> USE RetriesAssumption DEF IInv, TypeOK, PlaceInv, Stack, Workaround,
     Status, CompareResult, PamCode, call_vars, main_vars, verify_vars,
     pass_vars
<1> FlagsOK'
  BY FlagStep
<1>1. CASE ReadForm
  BY <1>1 DEF ReadForm, GoTo, Return
<1>2. CASE NotEnabled
  BY <1>2 DEF NotEnabled, GoTo, Return
<1>3. CASE NothingToConfirmWith
  BY <1>3 DEF NothingToConfirmWith, GoTo, Return
<1>4. CASE UnknownRequester
  BY <1>4 DEF UnknownRequester, GoTo, Return
<1>5. CASE VerifyConfirmed
  BY <1>5 DEF VerifyConfirmed, GoTo, Return
<1>6. CASE ConfirmedAnswer
  BY <1>6 DEF ConfirmedAnswer, GoTo, Return, ConfirmedCode, linux_hello_status,
       linux_hello_error
<1>7. CASE StartTasks
  BY <1>7 DEF StartTasks, GoTo, Return
<1>8. CASE PasswordWins
  BY <1>8 DEF PasswordWins, GoTo, Return
<1>9. CASE Dropped
  BY <1>9 DEF Dropped, GoTo, Return, PassResult
<1>10. CASE FaceWins
  BY <1>10 DEF FaceWins, GoTo, Return
<1>11. CASE WaitForPassword
  BY <1>11 DEF WaitForPassword, GoTo, Return
<1>12. CASE PasswordDecides
  BY <1>12 DEF PasswordDecides, GoTo, Return, linux_hello_status,
       linux_hello_error
<1>13. CASE FaceAlone
  BY <1>13 DEF FaceAlone, GoTo, Return, linux_hello_status, linux_hello_error
<1>14. CASE KillPrompt
  BY <1>14 DEF KillPrompt, GoTo, Return
<1>15. CASE NoEnterDevice
  BY <1>15 DEF NoEnterDevice, GoTo, Return
<1>16. CASE FirstEnter
  BY <1>16 DEF FirstEnter, SendEnter
<1>17. CASE EnterAgain
  BY <1>17 DEF EnterAgain, SendEnter
<1>18. CASE EnoughPresses
  BY <1>18 DEF EnoughPresses, GoTo, Return
<1>19. CASE PromptOver
  BY <1>19 DEF PromptOver, GoTo, Return, linux_hello_status, linux_hello_error
<1>20. CASE ServiceAnswers
  BY <1>20 DEF ServiceAnswers
<1>21. CASE RunFails
  BY <1>21 DEF RunFails
<1>22. CASE RunCancelled
  BY <1>22 DEF RunCancelled
<1>23. CASE VerifyTaskEnds
  BY <1>23 DEF VerifyTaskEnds, TakeDecision
<1>24. CASE PasswordEntered
  BY <1>24 DEF PasswordEntered
<1>25. CASE PromptFails
  BY <1>25 DEF PromptFails
<1>26. CASE PassTaskEnds
  BY <1>26 DEF PassTaskEnds, TakeDecision
<1>27. CASE PassTaskKilled
  BY <1>27 DEF PassTaskKilled
<1>28. CASE UNCHANGED vars
  BY <1>28 DEF vars
<1>29. QED
  BY <1>1, <1>2, <1>3, <1>4, <1>5, <1>6, <1>7, <1>8, <1>9, <1>10, <1>11, <1>12,
       <1>13, <1>14, <1>15, <1>16, <1>17, <1>18, <1>19, <1>20, <1>21, <1>22,
       <1>23, <1>24, <1>25, <1>26, <1>27, <1>28
     DEF Next, Main, VerifyTask, Prompt, PassTask

\* Where the main thread is goes on telling which threads there are
LEMMA PlaceStep ==
  ASSUME IInv, [Next]_vars
  PROVE  PlaceInv'
<1> USE RetriesAssumption DEF IInv, TypeOK, PlaceInv, AnswerInv, TypedInv,
     Racing, no_password, password_first, needs_confirmation, ask_pass,
     call_vars, main_vars, verify_vars, pass_vars, ResultOfStatus,
     NoThreadLeft, Over
<1>1. CASE ReadForm
  BY <1>1 DEF ReadForm, GoTo, Return
<1>2. CASE NotEnabled
  BY <1>2 DEF NotEnabled, GoTo, Return
<1>3. CASE NothingToConfirmWith
  BY <1>3 DEF NothingToConfirmWith, GoTo, Return
<1>4. CASE UnknownRequester
  BY <1>4 DEF UnknownRequester, GoTo, Return
<1>5. CASE VerifyConfirmed
  BY <1>5 DEF VerifyConfirmed, GoTo, Return
<1>6. CASE ConfirmedAnswer
  BY <1>6 DEF ConfirmedAnswer, GoTo, Return, ConfirmedCode, linux_hello_status,
       linux_hello_error
<1>7. CASE StartTasks
  BY <1>7 DEF StartTasks, GoTo, Return
<1>8. CASE PasswordWins
  BY <1>8 DEF PasswordWins, GoTo, Return
<1>9. CASE Dropped
  BY <1>9 DEF Dropped, GoTo, Return, PassResult
<1>10. CASE FaceWins
  BY <1>10 DEF FaceWins, GoTo, Return
<1>11. CASE WaitForPassword
  BY <1>11 DEF WaitForPassword, GoTo, Return
<1>12. CASE PasswordDecides
  BY <1>12 DEF PasswordDecides, GoTo, Return, linux_hello_status,
       linux_hello_error
<1>13. CASE FaceAlone
  BY <1>13 DEF FaceAlone, GoTo, Return, linux_hello_status, linux_hello_error
<1>14. CASE KillPrompt
  BY <1>14 DEF KillPrompt, GoTo, Return
<1>15. CASE NoEnterDevice
  BY <1>15 DEF NoEnterDevice, GoTo, Return
<1>16. CASE FirstEnter
  BY <1>16 DEF FirstEnter, SendEnter
<1>17. CASE EnterAgain
  BY <1>17 DEF EnterAgain, SendEnter
<1>18. CASE EnoughPresses
  BY <1>18 DEF EnoughPresses, GoTo, Return
<1>19. CASE PromptOver
  BY <1>19 DEF PromptOver, GoTo, Return, linux_hello_status, linux_hello_error
<1>20. CASE ServiceAnswers
  BY <1>20 DEF ServiceAnswers
<1>21. CASE RunFails
  BY <1>21 DEF RunFails
<1>22. CASE RunCancelled
  BY <1>22 DEF RunCancelled
<1>23. CASE VerifyTaskEnds
  BY <1>23 DEF VerifyTaskEnds, TakeDecision
<1>24. CASE PasswordEntered
  BY <1>24 DEF PasswordEntered
<1>25. CASE PromptFails
  BY <1>25 DEF PromptFails
<1>26. CASE PassTaskEnds
  BY <1>26 DEF PassTaskEnds, TakeDecision
<1>27. CASE PassTaskKilled
  BY <1>27 DEF PassTaskKilled
<1>28. CASE UNCHANGED vars
  BY <1>28 DEF vars
<1>29. QED
  BY <1>1, <1>2, <1>3, <1>4, <1>5, <1>6, <1>7, <1>8, <1>9, <1>10, <1>11, <1>12,
       <1>13, <1>14, <1>15, <1>16, <1>17, <1>18, <1>19, <1>20, <1>21, <1>22,
       <1>23, <1>24, <1>25, <1>26, <1>27, <1>28
     DEF Next, Main, VerifyTask, Prompt, PassTask

\* A result of 0 goes on being the service's own
LEMMA AnswerStep ==
  ASSUME IInv, [Next]_vars
  PROVE  AnswerInv'
<1> USE RetriesAssumption DEF IInv, TypeOK, PlaceInv, AnswerInv, NoThreadLeft,
     Over, ResultOfStatus, Stack, Workaround, Status, CompareResult, PamCode,
     call_vars, main_vars, verify_vars, pass_vars
<1>1. CASE ReadForm
  BY <1>1 DEF ReadForm, GoTo, Return
<1>2. CASE NotEnabled
  BY <1>2 DEF NotEnabled, GoTo, Return
<1>3. CASE NothingToConfirmWith
  BY <1>3 DEF NothingToConfirmWith, GoTo, Return
<1>4. CASE UnknownRequester
  BY <1>4 DEF UnknownRequester, GoTo, Return
<1>5. CASE VerifyConfirmed
  BY <1>5 DEF VerifyConfirmed, GoTo, Return
<1>6. CASE ConfirmedAnswer
  BY <1>6 DEF ConfirmedAnswer, GoTo, Return, ConfirmedCode, linux_hello_status,
       linux_hello_error
<1>7. CASE StartTasks
  BY <1>7 DEF StartTasks, GoTo, Return
<1>8. CASE PasswordWins
  BY <1>8 DEF PasswordWins, GoTo, Return
<1>9. CASE Dropped
  BY <1>9 DEF Dropped, GoTo, Return, PassResult
<1>10. CASE FaceWins
  BY <1>10 DEF FaceWins, GoTo, Return
<1>11. CASE WaitForPassword
  BY <1>11 DEF WaitForPassword, GoTo, Return
<1>12. CASE PasswordDecides
  BY <1>12 DEF PasswordDecides, GoTo, Return, linux_hello_status,
       linux_hello_error
<1>13. CASE FaceAlone
  BY <1>13 DEF FaceAlone, GoTo, Return, linux_hello_status, linux_hello_error
<1>14. CASE KillPrompt
  BY <1>14 DEF KillPrompt, GoTo, Return
<1>15. CASE NoEnterDevice
  BY <1>15 DEF NoEnterDevice, GoTo, Return
<1>16. CASE FirstEnter
  BY <1>16 DEF FirstEnter, SendEnter
<1>17. CASE EnterAgain
  BY <1>17 DEF EnterAgain, SendEnter
<1>18. CASE EnoughPresses
  BY <1>18 DEF EnoughPresses, GoTo, Return
<1>19. CASE PromptOver
  BY <1>19 DEF PromptOver, GoTo, Return, linux_hello_status, linux_hello_error
<1>20. CASE ServiceAnswers
  BY <1>20 DEF ServiceAnswers
<1>21. CASE RunFails
  BY <1>21 DEF RunFails
<1>22. CASE RunCancelled
  BY <1>22 DEF RunCancelled
<1>23. CASE VerifyTaskEnds
  BY <1>23 DEF VerifyTaskEnds, TakeDecision
<1>24. CASE PasswordEntered
  BY <1>24 DEF PasswordEntered
<1>25. CASE PromptFails
  BY <1>25 DEF PromptFails
<1>26. CASE PassTaskEnds
  BY <1>26 DEF PassTaskEnds, TakeDecision
<1>27. CASE PassTaskKilled
  BY <1>27 DEF PassTaskKilled
<1>28. CASE UNCHANGED vars
  BY <1>28 DEF vars
<1>29. QED
  BY <1>1, <1>2, <1>3, <1>4, <1>5, <1>6, <1>7, <1>8, <1>9, <1>10, <1>11, <1>12,
       <1>13, <1>14, <1>15, <1>16, <1>17, <1>18, <1>19, <1>20, <1>21, <1>22,
       <1>23, <1>24, <1>25, <1>26, <1>27, <1>28
     DEF Next, Main, VerifyTask, Prompt, PassTask

\* A typed password goes on being what pam_get_authtok returned
LEMMA TypedStep ==
  ASSUME IInv, [Next]_vars
  PROVE  TypedInv'
<1> USE RetriesAssumption DEF IInv, TypeOK, PlaceInv, TypedInv, NoThreadLeft,
     Over, call_vars, main_vars, verify_vars, pass_vars
<1>1. CASE ReadForm
  BY <1>1 DEF ReadForm, GoTo, Return
<1>2. CASE NotEnabled
  BY <1>2 DEF NotEnabled, GoTo, Return
<1>3. CASE NothingToConfirmWith
  BY <1>3 DEF NothingToConfirmWith, GoTo, Return
<1>4. CASE UnknownRequester
  BY <1>4 DEF UnknownRequester, GoTo, Return
<1>5. CASE VerifyConfirmed
  BY <1>5 DEF VerifyConfirmed, GoTo, Return
<1>6. CASE ConfirmedAnswer
  BY <1>6 DEF ConfirmedAnswer, GoTo, Return, ConfirmedCode, linux_hello_status,
       linux_hello_error
<1>7. CASE StartTasks
  BY <1>7 DEF StartTasks, GoTo, Return
<1>8. CASE PasswordWins
  BY <1>8 DEF PasswordWins, GoTo, Return
<1>9. CASE Dropped
  BY <1>9 DEF Dropped, GoTo, Return, PassResult
<1>10. CASE FaceWins
  BY <1>10 DEF FaceWins, GoTo, Return
<1>11. CASE WaitForPassword
  BY <1>11 DEF WaitForPassword, GoTo, Return
<1>12. CASE PasswordDecides
  BY <1>12 DEF PasswordDecides, GoTo, Return, linux_hello_status,
       linux_hello_error
<1>13. CASE FaceAlone
  BY <1>13 DEF FaceAlone, GoTo, Return, linux_hello_status, linux_hello_error
<1>14. CASE KillPrompt
  BY <1>14 DEF KillPrompt, GoTo, Return
<1>15. CASE NoEnterDevice
  BY <1>15 DEF NoEnterDevice, GoTo, Return
<1>16. CASE FirstEnter
  BY <1>16 DEF FirstEnter, SendEnter
<1>17. CASE EnterAgain
  BY <1>17 DEF EnterAgain, SendEnter
<1>18. CASE EnoughPresses
  BY <1>18 DEF EnoughPresses, GoTo, Return
<1>19. CASE PromptOver
  BY <1>19 DEF PromptOver, GoTo, Return, linux_hello_status, linux_hello_error
<1>20. CASE ServiceAnswers
  BY <1>20 DEF ServiceAnswers
<1>21. CASE RunFails
  BY <1>21 DEF RunFails
<1>22. CASE RunCancelled
  BY <1>22 DEF RunCancelled
<1>23. CASE VerifyTaskEnds
  BY <1>23 DEF VerifyTaskEnds, TakeDecision
<1>24. CASE PasswordEntered
  BY <1>24 DEF PasswordEntered
<1>25. CASE PromptFails
  BY <1>25 DEF PromptFails
<1>26. CASE PassTaskEnds
  BY <1>26 DEF PassTaskEnds, TakeDecision
<1>27. CASE PassTaskKilled
  BY <1>27 DEF PassTaskKilled
<1>28. CASE UNCHANGED vars
  BY <1>28 DEF vars
<1>29. QED
  BY <1>1, <1>2, <1>3, <1>4, <1>5, <1>6, <1>7, <1>8, <1>9, <1>10, <1>11, <1>12,
       <1>13, <1>14, <1>15, <1>16, <1>17, <1>18, <1>19, <1>20, <1>21, <1>22,
       <1>23, <1>24, <1>25, <1>26, <1>27, <1>28
     DEF Next, Main, VerifyTask, Prompt, PassTask

\* No step returns while a thread is left, and none is started afterwards
LEMMA ThreadStep ==
  ASSUME IInv, [Next]_vars
  PROVE  NoThreadLeft'
<1> USE RetriesAssumption DEF IInv, TypeOK, PlaceInv, NoThreadLeft, Over,
     Racing, no_password, password_first, needs_confirmation, ask_pass,
     call_vars, main_vars, verify_vars, pass_vars
<1>1. CASE ReadForm
  BY <1>1 DEF ReadForm, GoTo, Return
<1>2. CASE NotEnabled
  BY <1>2 DEF NotEnabled, GoTo, Return
<1>3. CASE NothingToConfirmWith
  BY <1>3 DEF NothingToConfirmWith, GoTo, Return
<1>4. CASE UnknownRequester
  BY <1>4 DEF UnknownRequester, GoTo, Return
<1>5. CASE VerifyConfirmed
  BY <1>5 DEF VerifyConfirmed, GoTo, Return
<1>6. CASE ConfirmedAnswer
  BY <1>6 DEF ConfirmedAnswer, GoTo, Return, ConfirmedCode, linux_hello_status,
       linux_hello_error
<1>7. CASE StartTasks
  BY <1>7 DEF StartTasks, GoTo, Return
<1>8. CASE PasswordWins
  BY <1>8 DEF PasswordWins, GoTo, Return
<1>9. CASE Dropped
  BY <1>9 DEF Dropped, GoTo, Return, PassResult
<1>10. CASE FaceWins
  BY <1>10 DEF FaceWins, GoTo, Return
<1>11. CASE WaitForPassword
  BY <1>11 DEF WaitForPassword, GoTo, Return
<1>12. CASE PasswordDecides
  BY <1>12 DEF PasswordDecides, GoTo, Return, linux_hello_status,
       linux_hello_error
<1>13. CASE FaceAlone
  BY <1>13 DEF FaceAlone, GoTo, Return, linux_hello_status, linux_hello_error
<1>14. CASE KillPrompt
  BY <1>14 DEF KillPrompt, GoTo, Return
<1>15. CASE NoEnterDevice
  BY <1>15 DEF NoEnterDevice, GoTo, Return
<1>16. CASE FirstEnter
  BY <1>16 DEF FirstEnter, SendEnter
<1>17. CASE EnterAgain
  BY <1>17 DEF EnterAgain, SendEnter
<1>18. CASE EnoughPresses
  BY <1>18 DEF EnoughPresses, GoTo, Return
<1>19. CASE PromptOver
  BY <1>19 DEF PromptOver, GoTo, Return, linux_hello_status, linux_hello_error
<1>20. CASE ServiceAnswers
  BY <1>20 DEF ServiceAnswers
<1>21. CASE RunFails
  BY <1>21 DEF RunFails
<1>22. CASE RunCancelled
  BY <1>22 DEF RunCancelled
<1>23. CASE VerifyTaskEnds
  BY <1>23 DEF VerifyTaskEnds, TakeDecision
<1>24. CASE PasswordEntered
  BY <1>24 DEF PasswordEntered
<1>25. CASE PromptFails
  BY <1>25 DEF PromptFails
<1>26. CASE PassTaskEnds
  BY <1>26 DEF PassTaskEnds, TakeDecision
<1>27. CASE PassTaskKilled
  BY <1>27 DEF PassTaskKilled
<1>28. CASE UNCHANGED vars
  BY <1>28 DEF vars
<1>29. QED
  BY <1>1, <1>2, <1>3, <1>4, <1>5, <1>6, <1>7, <1>8, <1>9, <1>10, <1>11, <1>12,
       <1>13, <1>14, <1>15, <1>16, <1>17, <1>18, <1>19, <1>20, <1>21, <1>22,
       <1>23, <1>24, <1>25, <1>26, <1>27, <1>28
     DEF Next, Main, VerifyTask, Prompt, PassTask

\* No step returns PAM_SUCCESS without the service's answer
LEMMA GrantStep ==
  ASSUME IInv, [Next]_vars
  PROVE  FaceBehindGrant'
<1> USE RetriesAssumption DEF IInv, TypeOK, PlaceInv, AnswerInv, NoThreadLeft,
     FaceBehindGrant, Over, StackDoes, ResultOfStatus, Racing, PamCode,
     no_password, password_first, needs_confirmation, ask_pass, call_vars,
     main_vars, verify_vars, pass_vars
<1>1. CASE ReadForm
  BY <1>1 DEF ReadForm, GoTo, Return
<1>2. CASE NotEnabled
  BY <1>2 DEF NotEnabled, GoTo, Return
<1>3. CASE NothingToConfirmWith
  BY <1>3 DEF NothingToConfirmWith, GoTo, Return
<1>4. CASE UnknownRequester
  BY <1>4 DEF UnknownRequester, GoTo, Return
<1>5. CASE VerifyConfirmed
  BY <1>5 DEF VerifyConfirmed, GoTo, Return
<1>6. CASE ConfirmedAnswer
  BY <1>6 DEF ConfirmedAnswer, GoTo, Return, ConfirmedCode, linux_hello_status,
       linux_hello_error
<1>7. CASE StartTasks
  BY <1>7 DEF StartTasks, GoTo, Return
<1>8. CASE PasswordWins
  BY <1>8 DEF PasswordWins, GoTo, Return
<1>9. CASE Dropped
  BY <1>9 DEF Dropped, GoTo, Return, PassResult
<1>10. CASE FaceWins
  BY <1>10 DEF FaceWins, GoTo, Return
<1>11. CASE WaitForPassword
  BY <1>11 DEF WaitForPassword, GoTo, Return
<1>12. CASE PasswordDecides
  BY <1>12 DEF PasswordDecides, GoTo, Return, linux_hello_status,
       linux_hello_error
<1>13. CASE FaceAlone
  BY <1>13 DEF FaceAlone, GoTo, Return, linux_hello_status, linux_hello_error
<1>14. CASE KillPrompt
  BY <1>14 DEF KillPrompt, GoTo, Return
<1>15. CASE NoEnterDevice
  BY <1>15 DEF NoEnterDevice, GoTo, Return
<1>16. CASE FirstEnter
  BY <1>16 DEF FirstEnter, SendEnter
<1>17. CASE EnterAgain
  BY <1>17 DEF EnterAgain, SendEnter
<1>18. CASE EnoughPresses
  BY <1>18 DEF EnoughPresses, GoTo, Return
<1>19. CASE PromptOver
  BY <1>19 DEF PromptOver, GoTo, Return, linux_hello_status, linux_hello_error
<1>20. CASE ServiceAnswers
  BY <1>20 DEF ServiceAnswers
<1>21. CASE RunFails
  BY <1>21 DEF RunFails
<1>22. CASE RunCancelled
  BY <1>22 DEF RunCancelled
<1>23. CASE VerifyTaskEnds
  BY <1>23 DEF VerifyTaskEnds, TakeDecision
<1>24. CASE PasswordEntered
  BY <1>24 DEF PasswordEntered
<1>25. CASE PromptFails
  BY <1>25 DEF PromptFails
<1>26. CASE PassTaskEnds
  BY <1>26 DEF PassTaskEnds, TakeDecision
<1>27. CASE PassTaskKilled
  BY <1>27 DEF PassTaskKilled
<1>28. CASE UNCHANGED vars
  BY <1>28 DEF vars
<1>29. QED
  BY <1>1, <1>2, <1>3, <1>4, <1>5, <1>6, <1>7, <1>8, <1>9, <1>10, <1>11, <1>12,
       <1>13, <1>14, <1>15, <1>16, <1>17, <1>18, <1>19, <1>20, <1>21, <1>22,
       <1>23, <1>24, <1>25, <1>26, <1>27, <1>28
     DEF Next, Main, VerifyTask, Prompt, PassTask

\* No step returns anything but PAM_IGNORE for a typed password without it
LEMMA PasswordStep ==
  ASSUME IInv, [Next]_vars
  PROVE  PasswordGoesOn'
<1> USE RetriesAssumption DEF IInv, TypeOK, PlaceInv, AnswerInv, TypedInv,
     NoThreadLeft, PasswordGoesOn, Over, StackDoes, ResultOfStatus, Racing,
     no_password, password_first, needs_confirmation, ask_pass, call_vars,
     main_vars, verify_vars, pass_vars
<1>1. CASE ReadForm
  BY <1>1 DEF ReadForm, GoTo, Return
<1>2. CASE NotEnabled
  BY <1>2 DEF NotEnabled, GoTo, Return
<1>3. CASE NothingToConfirmWith
  BY <1>3 DEF NothingToConfirmWith, GoTo, Return
<1>4. CASE UnknownRequester
  BY <1>4 DEF UnknownRequester, GoTo, Return
<1>5. CASE VerifyConfirmed
  BY <1>5 DEF VerifyConfirmed, GoTo, Return
<1>6. CASE ConfirmedAnswer
  BY <1>6 DEF ConfirmedAnswer, GoTo, Return, ConfirmedCode, linux_hello_status,
       linux_hello_error
<1>7. CASE StartTasks
  BY <1>7 DEF StartTasks, GoTo, Return
<1>8. CASE PasswordWins
  BY <1>8 DEF PasswordWins, GoTo, Return
<1>9. CASE Dropped
  BY <1>9 DEF Dropped, GoTo, Return, PassResult
<1>10. CASE FaceWins
  BY <1>10 DEF FaceWins, GoTo, Return
<1>11. CASE WaitForPassword
  BY <1>11 DEF WaitForPassword, GoTo, Return
<1>12. CASE PasswordDecides
  BY <1>12 DEF PasswordDecides, GoTo, Return, linux_hello_status,
       linux_hello_error
<1>13. CASE FaceAlone
  BY <1>13 DEF FaceAlone, GoTo, Return, linux_hello_status, linux_hello_error
<1>14. CASE KillPrompt
  BY <1>14 DEF KillPrompt, GoTo, Return
<1>15. CASE NoEnterDevice
  BY <1>15 DEF NoEnterDevice, GoTo, Return
<1>16. CASE FirstEnter
  BY <1>16 DEF FirstEnter, SendEnter
<1>17. CASE EnterAgain
  BY <1>17 DEF EnterAgain, SendEnter
<1>18. CASE EnoughPresses
  BY <1>18 DEF EnoughPresses, GoTo, Return
<1>19. CASE PromptOver
  BY <1>19 DEF PromptOver, GoTo, Return, linux_hello_status, linux_hello_error
<1>20. CASE ServiceAnswers
  BY <1>20 DEF ServiceAnswers
<1>21. CASE RunFails
  BY <1>21 DEF RunFails
<1>22. CASE RunCancelled
  BY <1>22 DEF RunCancelled
<1>23. CASE VerifyTaskEnds
  BY <1>23 DEF VerifyTaskEnds, TakeDecision
<1>24. CASE PasswordEntered
  BY <1>24 DEF PasswordEntered
<1>25. CASE PromptFails
  BY <1>25 DEF PromptFails
<1>26. CASE PassTaskEnds
  BY <1>26 DEF PassTaskEnds, TakeDecision
<1>27. CASE PassTaskKilled
  BY <1>27 DEF PassTaskKilled
<1>28. CASE UNCHANGED vars
  BY <1>28 DEF vars
<1>29. QED
  BY <1>1, <1>2, <1>3, <1>4, <1>5, <1>6, <1>7, <1>8, <1>9, <1>10, <1>11, <1>12,
       <1>13, <1>14, <1>15, <1>16, <1>17, <1>18, <1>19, <1>20, <1>21, <1>22,
       <1>23, <1>24, <1>25, <1>26, <1>27, <1>28
     DEF Next, Main, VerifyTask, Prompt, PassTask

\* IInv holds in every reachable state of the module
LEMMA Invariance == Spec => []IInv
<1>1. Init => IInv
  <2> SUFFICES ASSUME Init PROVE IInv
    OBVIOUS
  <2> USE RetriesAssumption DEF Init
  <2>1. FlagsOK
    BY Zenon DEF FlagsOK
  <2>2. TypeOK
    BY <2>1 DEF TypeOK, Stack, Workaround, Status, CompareResult, PamCode
  <2>3. PlaceInv
    BY DEF PlaceInv, Racing, no_password, password_first, needs_confirmation,
           ask_pass
  <2>4. AnswerInv /\ TypedInv
    BY DEF AnswerInv, TypedInv, ResultOfStatus
  <2>5. NoThreadLeft /\ FaceBehindGrant /\ PasswordGoesOn
    BY DEF NoThreadLeft, FaceBehindGrant, PasswordGoesOn, Over
  <2> QED
    BY <2>2, <2>3, <2>4, <2>5 DEF IInv
<1>2. IInv /\ [Next]_vars => IInv'
  <2> SUFFICES ASSUME IInv, [Next]_vars PROVE IInv'
    OBVIOUS
  <2>1. TypeOK' /\ PlaceInv' /\ AnswerInv' /\ TypedInv'
    BY TypeStep, PlaceStep, AnswerStep, TypedStep
  <2>2. NoThreadLeft' /\ FaceBehindGrant' /\ PasswordGoesOn'
    BY ThreadStep, GrantStep, PasswordStep
  <2> QED
    BY <2>1, <2>2 DEF IInv
<1> QED
  BY <1>1, <1>2, PTL DEF Spec

-----------------------------------------------------------------------------
\* identify() grants only what the service verified, through VerifyConfirmed
\* where the stack elevates: FaceBehindGrant, for every number of retries
THEOREM GrantNeedsFace == Spec => []FaceBehindGrant
<1>1. IInv => FaceBehindGrant
  BY DEF IInv
<1> QED
  BY Invariance, <1>1, PTL

\* A typed password is always left to the lines behind the module's:
\* PasswordGoesOn, for every number of retries
THEOREM PasswordKeepsWorking == Spec => []PasswordGoesOn
<1>1. IInv => PasswordGoesOn
  BY DEF IInv
<1> QED
  BY Invariance, <1>1, PTL

\* identify() joins what it started before it returns: NoThreadLeft, for every
\* number of retries
THEOREM ThreadsAreJoined == Spec => []NoThreadLeft
<1>1. IInv => NoThreadLeft
  BY DEF IInv
<1> QED
  BY Invariance, <1>1, PTL

\* The variables of identify() and of its threads have their types, which
\* bounds the Enter presses by MAX_RETRIES + 1
THEOREM TypeCorrect == Spec => []TypeOK
<1>1. IInv => TypeOK
  BY DEF IInv
<1> QED
  BY Invariance, <1>1, PTL

------------------------------------------------------------------------------
\* A set of numbers that is not empty has a least one.
LEMMA LeastOf ==
  ASSUME NEW T \in SUBSET Nat, T # {}
  PROVE  \E x \in T : \A y \in T : x <= y
<1>1. \E x \in T : \A y \in T : ~(<<y, x>> \in OpToRel(<, Nat))
  BY WFMin, NatLessThanWellFounded
<1>2. \A x, y \in Nat : ~(<<y, x>> \in OpToRel(<, Nat)) => x <= y
  BY DEF OpToRel
<1> QED
  BY <1>1, <1>2

\* Induction up to n: the set of the numbers for which a claim holds.
LEMMA UpTo ==
  ASSUME NEW n \in Nat, NEW T, 0 \in T, \A i \in 1..n : i - 1 \in T => i \in T
  PROVE  \A i \in 0..n : i \in T
<1> DEFINE U == {i \in 0..n : i \notin T}
<1> SUFFICES ASSUME U # {} PROVE FALSE
  OBVIOUS
<1>0. U \in SUBSET Nat
  OBVIOUS
<1>1. PICK k \in U : \A y \in U : k <= y
  <2> HIDE DEF U
  <2> QED
    BY <1>0, LeastOf
<1>2. k # 0 /\ k \in 1..n /\ k - 1 \in 0..n /\ ~(k <= k - 1)
  OBVIOUS
<1>3. k - 1 \in T
  BY <1>1, <1>2
<1> QED
  BY <1>2, <1>3

\* Min and Max, of which FiniteSetsExt says only what they choose.
LEMMA MinIs ==
  ASSUME NEW S \in SUBSET Nat, S # {}
  PROVE  Min(S) \in S /\ \A y \in S : Min(S) <= y
<1>1. \E x \in S : \A y \in S : x <= y
  BY LeastOf
<1> QED
  BY <1>1 DEF Min

\* A bounded set has its Max.
LEMMA MaxIs ==
  ASSUME NEW n \in Nat, NEW S \in SUBSET (1..n), S # {}
  PROVE  Max(S) \in S /\ \A y \in S : y <= Max(S)
<1> DEFINE T == {n - x : x \in S}
<1>1. T \in SUBSET Nat /\ T # {}
  <2>1. \A x \in S : n - x \in Nat
    OBVIOUS
  <2>2. \E x \in S : n - x \in T
    OBVIOUS
  <2> QED
    BY <2>1, <2>2
<1>2. PICK z \in T : \A y \in T : z <= y
  BY <1>1, LeastOf
<1>3. PICK x \in S : z = n - x
  OBVIOUS
<1>4. \A y \in S : y <= x
  <2> TAKE y \in S
  <2>1. n - y \in T
    OBVIOUS
  <2> QED
    BY <1>2, <1>3, <2>1
<1> QED
  BY <1>4 DEF Max

\* A fold exists: base, then one step per position.
Foldable(n, S, base, step) == n \in Nat /\ base \in S /\ step \in [1..n -> [S -> S]]

\* What the recursion has computed after each of its n steps.
Folded(n, S, base, step) ==
  \E f \in [0..n -> S] : f[0] = base /\ \A i \in 1..n : f[i] = step[i][f[i - 1]]

\* A recursion over 1..n is a function of the steps, as TLA+ has it.
LEMMA FoldExists ==
  ASSUME NEW n, NEW S, NEW base, NEW step, Foldable(n, S, base, step)
  PROVE  Folded(n, S, base, step)
<1> USE DEF Foldable
<1> DEFINE Ok(f, k) == f[0] = base /\ \A i \in 1..k : f[i] = step[i][f[i - 1]]
           T == {k \in 0..n : \E f \in [0..n -> S] : Ok(f, k)}
<1>1. 0 \in T
  <2>1. [i \in 0..n |-> base] \in [0..n -> S] /\ Ok([i \in 0..n |-> base], 0)
    OBVIOUS
  <2>2. \E f \in [0..n -> S] : Ok(f, 0)
    <3> HIDE DEF Ok
    <3> QED
      BY <2>1
  <2>3. 0 \in 0..n
    OBVIOUS
  <2> QED
    BY <2>2, <2>3
<1>2. ASSUME NEW k \in 1..n, k - 1 \in T PROVE k \in T
  <2>1. PICK f \in [0..n -> S] : Ok(f, k - 1)
    BY <1>2
  <2> DEFINE g == [f EXCEPT ![k] = step[k][f[k - 1]]]
  <2>2. k - 1 \in 0..n /\ f[k - 1] \in S /\ step[k][f[k - 1]] \in S
    OBVIOUS
  <2>3. g \in [0..n -> S]
    BY <2>2
  <2>4. g[0] = base
    BY <2>1
  <2>5. ASSUME NEW i \in 1..k PROVE g[i] = step[i][g[i - 1]]
    <3>1. CASE i = k
      BY <2>2, <3>1
    <3>2. CASE i # k
      <4>1. i \in 1..(k - 1) /\ i \in 0..n /\ i - 1 \in 0..n /\ i - 1 # k
        BY <3>2
      <4>2. g[i] = f[i] /\ g[i - 1] = f[i - 1]
        BY <4>1, <3>2
      <4> QED
        BY <2>1, <4>1, <4>2
    <3> QED
      BY <3>1, <3>2
  <2>6. Ok(g, k)
    BY <2>4, <2>5
  <2>7. k \in 0..n
    OBVIOUS
  <2>8. \E h \in [0..n -> S] : Ok(h, k)
    <3> HIDE DEF Ok, g
    <3> QED
      BY <2>3, <2>6
  <2> QED
    <3> HIDE DEF Ok
    <3> QED
      BY <2>7, <2>8
<1>3. n \in T
  <2> HIDE DEF T
  <2>1. \A i \in 0..n : i \in T
    BY <1>1, <1>2, UpTo
  <2> QED
    BY <2>1
<1> QED
  BY <1>3 DEF Folded

\* A recursion whose steps stay in S stays in S.
LEMMA FoldTyped ==
  ASSUME NEW n \in Nat, NEW S, NEW r, r = [i \in 0..n |-> r[i]], r[0] \in S,
         \A i \in 1..n : r[i - 1] \in S => r[i] \in S
  PROVE  r \in [0..n -> S]
<1> DEFINE T == {i \in 0..n : r[i] \in S}
<1>1. 0 \in T
  OBVIOUS
<1>2. \A i \in 1..n : i - 1 \in T => i \in T
  OBVIOUS
<1>3. \A i \in 0..n : i \in T
  <2> HIDE DEF T
  <2> QED
    BY <1>1, <1>2, UpTo
<1> QED
  BY <1>3

-----------------------------------------------------------------------------
(* Texts *)

\* What remove_block has of a text so far.
REM == [open : BOOLEAN, block : Seq(LINE), out : Seq(LINE)]

\* strip() changes nothing but the line's end.
LEMMA StrippedIs ==
  ASSUME NEW l \in LINE
  PROVE  /\ Stripped(l) \in LINE
         /\ Stripped(l).type = l.type /\ Stripped(l).ctl = l.ctl
         /\ Stripped(l).mod = l.mod /\ Stripped(l).arg = l.arg
         /\ Stripped(l).nl = TRUE
BY DEF Stripped, LINE

\* A line of remove_block's loop keeps the type of what it has.
LEMMA RemoveStepType ==
  ASSUME NEW B, NEW a \in REM, NEW l \in LINE
  PROVE  RemoveStep(B, a, l) \in REM
<1>1. CASE ~a.open /\ Stripped(l) \in B
  BY <1>1 DEF RemoveStep, REM
<1>2. CASE ~a.open /\ Stripped(l) \notin B
  <2>1. Append(a.out, l) \in Seq(LINE)
    BY DEF REM
  <2> QED
    BY <1>2, <2>1 DEF RemoveStep, REM
<1>3. CASE a.open /\ Stripped(l) = END
  <2>1. RemoveStep(B, a, l) = [a EXCEPT !.open = FALSE, !.block = <<>>]
    BY <1>3 DEF RemoveStep
  <2>2. <<>> \in Seq(LINE)
    OBVIOUS
  <2> QED
    BY <2>1, <2>2 DEF REM
<1>4. CASE a.open /\ Stripped(l) # END /\ ours(l)
  BY <1>4 DEF RemoveStep, REM
<1>5. CASE a.open /\ Stripped(l) # END /\ ~ours(l)
  <2>1. Append(a.block, l) \in Seq(LINE)
    BY DEF REM
  <2> QED
    BY <1>5, <2>1 DEF RemoveStep, REM
<1> QED
  BY <1>1, <1>2, <1>3, <1>4, <1>5

\* The loop of remove_block, one line after the other.
LEMMA RemovalIs ==
  ASSUME NEW t \in Seq(LINE), NEW B
  PROVE  /\ Removal(t, B) \in [0..Len(t) -> REM]
         /\ Removal(t, B)[0] = [open |-> FALSE, block |-> <<>>, out |-> <<>>]
         /\ \A i \in 1..Len(t) : Removal(t, B)[i] = RemoveStep(B, Removal(t, B)[i - 1], t[i])
<1> DEFINE n == Len(t)
           base == [open |-> FALSE, block |-> <<>>, out |-> <<>>]
           step == [i \in 1..n |-> [a \in REM |-> RemoveStep(B, a, t[i])]]
           F(f) == [i \in 0..n |-> IF i = 0 THEN base ELSE RemoveStep(B, f[i - 1], t[i])]
<1>1. n \in Nat /\ base \in REM
  BY DEF REM
<1>2. step \in [1..n -> [REM -> REM]]
  BY RemoveStepType
<1>3. PICK f \in [0..n -> REM] : f[0] = base /\ \A i \in 1..n : f[i] = step[i][f[i - 1]]
  <2> HIDE DEF n, base, step
  <2>1. Folded(n, REM, base, step)
    BY <1>1, <1>2, FoldExists DEF Foldable
  <2> QED
    BY <2>1 DEF Folded
<1>4. \A i \in 1..n : f[i] = RemoveStep(B, f[i - 1], t[i])
  <2> TAKE i \in 1..n
  <2>1. i - 1 \in 0..n /\ f[i - 1] \in REM
    OBVIOUS
  <2> QED
    BY <1>3, <2>1
<1>5. f = F(f)
  <2> HIDE DEF base
  <2> QED
    BY <1>3, <1>4
<1> DEFINE r == Removal(t, B)
<1>6. r = F(r)
  <2>1. \E g : g = F(g)
    <3> HIDE DEF F
    <3> QED
      BY <1>5
  <2> QED
    BY <2>1 DEF Removal
<1> HIDE DEF r
<1>7. r = [i \in 0..n |-> r[i]] /\ r[0] = base
  <2> HIDE DEF base
  <2> QED
    BY <1>1, <1>6
<1>8. \A i \in 1..n : r[i] = RemoveStep(B, r[i - 1], t[i])
  <2>1. \A i \in 1..n : i \in 0..n /\ i # 0
    OBVIOUS
  <2> HIDE DEF base
  <2> QED
    BY <1>1, <1>6, <2>1
<1>9. r \in [0..n -> REM]
  <2>1. \A i \in 1..n : r[i - 1] \in REM => r[i] \in REM
    BY <1>8, RemoveStepType
  <2> HIDE DEF base, n
  <2> QED
    BY <1>1, <1>7, <2>1, FoldTyped
<1> QED
  BY <1>7, <1>8, <1>9 DEF r

\* A line of words is a line.
LEMMA LineIs ==
  ASSUME NEW a \in WORD, NEW b \in WORD, NEW c \in WORD, NEW d \in WORD
  PROVE  Line(a, b, c, d) \in LINE /\ Line(a, b, c, d).type = a
BY DEF Line, LINE

\* One position of Pick.
PickStep(kept, q, i, x) == IF i \in kept THEN Append(q, x) ELSE q

\* A position of Pick adds only an element it keeps.
LEMMA PickStepType ==
  ASSUME NEW s, NEW kept, NEW i \in DOMAIN s, NEW q \in Seq({s[j] : j \in kept \cap DOMAIN s})
  PROVE  PickStep(kept, q, i, s[i]) \in Seq({s[j] : j \in kept \cap DOMAIN s})
<1> DEFINE A == {s[j] : j \in kept \cap DOMAIN s}
<1>1. CASE i \in kept
  <2>1. s[i] \in A
    BY <1>1
  <2> HIDE DEF A
  <2>2. Append(q, s[i]) \in Seq(A)
    BY <2>1 DEF A
  <2> QED
    BY <1>1, <2>2 DEF PickStep, A
<1>2. CASE i \notin kept
  BY <1>2 DEF PickStep
<1> QED
  BY <1>1, <1>2

\* Pick takes one element after the other.
LEMMA PickIs ==
  ASSUME NEW A, NEW s \in Seq(A), NEW kept
  PROVE  \E r \in [0..Len(s) -> Seq({s[j] : j \in kept \cap DOMAIN s})] :
           /\ r[0] = <<>>
           /\ \A i \in 1..Len(s) : r[i] = PickStep(kept, r[i - 1], i, s[i])
           /\ Pick(s, kept) = r[Len(s)]
<1> DEFINE n == Len(s)
           Z == Seq({s[j] : j \in kept \cap DOMAIN s})
           base == <<>>
           step == [i \in 1..n |-> [a \in Z |-> PickStep(kept, a, i, s[i])]]
           F(f) == [i \in 0..n |-> IF i = 0 THEN base ELSE PickStep(kept, f[i - 1], i, s[i])]
<1>1. n \in Nat /\ base \in Z
  OBVIOUS
<1>0. \A i \in 1..n, a \in Z : PickStep(kept, a, i, s[i]) \in Z
  <2> TAKE i \in 1..n, a \in Z
  <2> QED
    BY PickStepType
<1>2. step \in [1..n -> [Z -> Z]]
  <2> HIDE DEF Z
  <2> QED
    BY <1>0
<1>3. PICK f \in [0..n -> Z] : f[0] = base /\ \A i \in 1..n : f[i] = step[i][f[i - 1]]
  <2> HIDE DEF n, Z, base, step
  <2>1. Folded(n, Z, base, step)
    BY <1>1, <1>2, FoldExists DEF Foldable
  <2> QED
    BY <2>1 DEF Folded
<1>4. \A i \in 1..n : f[i] = PickStep(kept, f[i - 1], i, s[i])
  <2> HIDE DEF Z
  <2> TAKE i \in 1..n
  <2>1. i - 1 \in 0..n /\ f[i - 1] \in Z
    OBVIOUS
  <2> QED
    BY <1>3, <2>1
<1>5. f = F(f)
  <2> HIDE DEF base, Z
  <2> QED
    BY <1>3, <1>4
<1> DEFINE r == CHOOSE g : g = F(g)
<1>6. r = F(r)
  <2>1. \E g : g = F(g)
    <3> HIDE DEF F
    <3> QED
      BY <1>5
  <2> QED
    BY <2>1
<1>7. Pick(s, kept) = r[n]
  BY DEF Pick, PickStep
<1> HIDE DEF r
<1>8. r = [i \in 0..n |-> r[i]] /\ r[0] = base
  <2> HIDE DEF base
  <2> QED
    BY <1>1, <1>6
<1>9. \A i \in 1..n : r[i] = PickStep(kept, r[i - 1], i, s[i])
  <2>1. \A i \in 1..n : i \in 0..n /\ i # 0
    OBVIOUS
  <2> HIDE DEF base
  <2> QED
    BY <1>1, <1>6, <2>1
<1>10. r \in [0..n -> Z]
  <2>1. \A i \in 1..n : r[i - 1] \in Z => r[i] \in Z
    BY <1>0, <1>9
  <2> HIDE DEF base, n, Z
  <2> QED
    BY <1>1, <1>8, <2>1, FoldTyped
<1> QED
  BY <1>7, <1>8, <1>9, <1>10

\* Pick has only elements of the positions it keeps.
LEMMA PickType ==
  ASSUME NEW A, NEW s \in Seq(A), NEW kept
  PROVE  Pick(s, kept) \in Seq({s[j] : j \in kept \cap DOMAIN s})
<1> DEFINE B == {s[j] : j \in kept \cap DOMAIN s}
<1>1. \E r \in [0..Len(s) -> Seq(B)] : Pick(s, kept) = r[Len(s)]
  BY PickIs
<1>2. Len(s) \in 0..Len(s)
  OBVIOUS
<1> HIDE DEF B
<1>3. Pick(s, kept) \in Seq(B)
  BY <1>1, <1>2
<1> QED
  BY <1>3 DEF B

\* Copies of checks, all of them optional lines for auth.
GATE == {l \in LINE : l.type = "-auth"}

\* The copy of a check is a line of its own kind.
LEMMA GateStepType ==
  ASSUME NEW a \in Seq(GATE), NEW l \in LINE
  PROVE  GateStep(a, l) \in Seq(GATE)
<1>1. gate_line(l) \in GATE
  <2>1. "-auth" \in WORD
    BY WordAssumption DEF OUR_WORDS
  <2>2. l.ctl \in WORD /\ l.mod \in WORD /\ l.arg \in WORD
    BY DEF LINE
  <2> QED
    BY <2>1, <2>2, LineIs DEF gate_line, GATE
<1>2. Append(a, gate_line(l)) \in Seq(GATE)
  BY <1>1
<1> QED
  BY <1>2 DEF GateStep

\* GateCopies goes through the lines.
LEMMA GateCopiesType ==
  ASSUME NEW t \in Seq(LINE)
  PROVE  GateCopies(t) \in Seq(GATE)
<1> DEFINE n == Len(t)
           Z == Seq(GATE)
           base == <<>>
           step == [i \in 1..n |-> [a \in Z |-> GateStep(a, t[i])]]
           F(f) == [i \in 0..n |-> IF i = 0 THEN base ELSE GateStep(f[i - 1], t[i])]
<1>1. n \in Nat /\ base \in Z
  OBVIOUS
<1>0. \A i \in 1..n, a \in Z : GateStep(a, t[i]) \in Z
  <2> TAKE i \in 1..n, a \in Z
  <2> QED
    BY GateStepType
<1>2. step \in [1..n -> [Z -> Z]]
  <2> HIDE DEF Z
  <2> QED
    BY <1>0
<1>3. PICK f \in [0..n -> Z] : f[0] = base /\ \A i \in 1..n : f[i] = step[i][f[i - 1]]
  <2> HIDE DEF n, Z, base, step
  <2>1. Folded(n, Z, base, step)
    BY <1>1, <1>2, FoldExists DEF Foldable
  <2> QED
    BY <2>1 DEF Folded
<1>4. \A i \in 1..n : f[i] = GateStep(f[i - 1], t[i])
  <2> HIDE DEF Z
  <2> TAKE i \in 1..n
  <2>1. i - 1 \in 0..n /\ f[i - 1] \in Z
    OBVIOUS
  <2> QED
    BY <1>3, <2>1
<1>5. f = F(f)
  <2> HIDE DEF base, Z
  <2> QED
    BY <1>3, <1>4
<1> DEFINE r == CHOOSE g : g = F(g)
<1>6. r = F(r)
  <2>1. \E g : g = F(g)
    <3> HIDE DEF F
    <3> QED
      BY <1>5
  <2> QED
    BY <2>1
<1>7. GateCopies(t) = r[n]
  BY DEF GateCopies
<1> HIDE DEF r
<1>8. r = [i \in 0..n |-> r[i]] /\ r[0] = base
  <2> HIDE DEF base
  <2> QED
    BY <1>1, <1>6
<1>9. \A i \in 1..n : r[i] = GateStep(r[i - 1], t[i])
  <2>1. \A i \in 1..n : i \in 0..n /\ i # 0
    OBVIOUS
  <2> HIDE DEF base
  <2> QED
    BY <1>1, <1>6, <2>1
<1>10. r \in [0..n -> Z]
  <2>1. \A i \in 1..n : r[i - 1] \in Z => r[i] \in Z
    BY <1>0, <1>9
  <2> HIDE DEF base, n, Z
  <2> QED
    BY <1>1, <1>8, <2>1, FoldTyped
<1>11. n \in 0..n
  BY <1>1
<1> QED
  BY <1>7, <1>10, <1>11

\* What build_own_stack has so far.
OWNACC == [body : Seq(LINE), placed : BOOLEAN]

\* A line of build_own_stack keeps the type of what it has.
LEMMA OwnStepType ==
  ASSUME NEW finger, NEW a \in OWNACC, NEW l \in LINE
  PROVE  OwnStep(finger, a, l) \in OWNACC
<1>1. OWN_STACK_LINE \in LINE /\ Stripped(l) \in LINE
  BY StrippedIs, LineIs, WordAssumption DEF OWN_STACK_LINE, MODULE_SO, OUR_WORDS
<1>2. Append(a.body, Stripped(l)) \in Seq(LINE) /\ Append(a.body, OWN_STACK_LINE) \in Seq(LINE)
  BY <1>1 DEF OWNACC
<1> QED
  BY <1>2 DEF OwnStep, OWNACC

\* OwnBody goes through the lines of its source.
LEMMA OwnBodyType ==
  ASSUME NEW t \in Seq(LINE), NEW finger
  PROVE  OwnBody(t, finger) \in OWNACC
<1> DEFINE n == Len(t)
           Z == OWNACC
           base == [body |-> <<>>, placed |-> FALSE]
           step == [i \in 1..n |-> [a \in Z |-> OwnStep(finger, a, t[i])]]
           F(f) == [i \in 0..n |-> IF i = 0 THEN base ELSE OwnStep(finger, f[i - 1], t[i])]
<1>1. n \in Nat /\ base \in Z
  BY DEF OWNACC
<1>0. \A i \in 1..n, a \in Z : OwnStep(finger, a, t[i]) \in Z
  <2> TAKE i \in 1..n, a \in Z
  <2> QED
    BY OwnStepType
<1>2. step \in [1..n -> [Z -> Z]]
  <2> HIDE DEF Z
  <2> QED
    BY <1>0
<1>3. PICK f \in [0..n -> Z] : f[0] = base /\ \A i \in 1..n : f[i] = step[i][f[i - 1]]
  <2> HIDE DEF n, Z, base, step
  <2>1. Folded(n, Z, base, step)
    BY <1>1, <1>2, FoldExists DEF Foldable
  <2> QED
    BY <2>1 DEF Folded
<1>4. \A i \in 1..n : f[i] = OwnStep(finger, f[i - 1], t[i])
  <2> HIDE DEF Z
  <2> TAKE i \in 1..n
  <2>1. i - 1 \in 0..n /\ f[i - 1] \in Z
    OBVIOUS
  <2> QED
    BY <1>3, <2>1
<1>5. f = F(f)
  <2> HIDE DEF base, Z
  <2> QED
    BY <1>3, <1>4
<1> DEFINE r == CHOOSE g : g = F(g)
<1>6. r = F(r)
  <2>1. \E g : g = F(g)
    <3> HIDE DEF F
    <3> QED
      BY <1>5
  <2> QED
    BY <2>1
<1>7. OwnBody(t, finger) = r[n]
  BY DEF OwnBody
<1> HIDE DEF r
<1>8. r = [i \in 0..n |-> r[i]] /\ r[0] = base
  <2> HIDE DEF base
  <2> QED
    BY <1>1, <1>6
<1>9. \A i \in 1..n : r[i] = OwnStep(finger, r[i - 1], t[i])
  <2>1. \A i \in 1..n : i \in 0..n /\ i # 0
    OBVIOUS
  <2> HIDE DEF base
  <2> QED
    BY <1>1, <1>6, <2>1
<1>10. r \in [0..n -> Z]
  <2>1. \A i \in 1..n : r[i - 1] \in Z => r[i] \in Z
    BY <1>0, <1>9
  <2> HIDE DEF base, n, Z
  <2> QED
    BY <1>1, <1>8, <2>1, FoldTyped
<1>11. n \in 0..n
  BY <1>1
<1> QED
  BY <1>7, <1>10, <1>11

\* A walk over a text from what was collected before it.
WALKER == [Seq(LINE) -> [WALK -> WALK]]

\* Files that hold lines.
FILES(files) == \A n \in DOMAIN files : files[n] \in Seq(LINE)

\* A line of the walk keeps the type of what it has.
LEMMA WalkLineType ==
  ASSUME NEW files, FILES(files), NEW d \in Nat, NEW deeper, d > 0 => deeper \in WALKER,
         NEW a \in WALK, NEW l \in LINE
  PROVE  WalkLine(files, d, deeper, a, l) \in WALK
<1> DEFINE name == included(l)
<1>1. CASE d > 0 /\ Enters(files, a, l)
  <2>1. name \in DOMAIN files /\ files[name] \in Seq(LINE) /\ name \in WORD
    BY <1>1, WordAssumption DEF Enters, FILES, included, LINE, OUR_WORDS
  <2> HIDE DEF name
  <2>2. [a EXCEPT !.seen = @ \cup {name}] \in WALK
    BY <2>1 DEF WALK
  <2>3. deeper[files[name]] \in [WALK -> WALK]
    BY <1>1, <2>1 DEF WALKER
  <2>4. WalkLine(files, d, deeper, a, l) = deeper[files[name]][[a EXCEPT !.seen = @ \cup {name}]]
    BY <1>1 DEF WalkLine, name
  <2> QED
    BY <2>2, <2>3, <2>4
<1>2. CASE ~(d > 0 /\ Enters(files, a, l))
  <2>1. Append(a.lines, l) \in Seq(LINE)
    BY DEF WALK
  <2>2. [a EXCEPT !.lines = Append(@, l)] \in WALK
    BY <2>1 DEF WALK
  <2> QED
    BY <1>2, <2>2 DEF WalkLine
<1> QED
  BY <1>1, <1>2

\* WalkText goes through the lines of a text.
LEMMA WalkTextType ==
  ASSUME NEW files, FILES(files), NEW d \in Nat, NEW deeper, d > 0 => deeper \in WALKER,
         NEW t \in Seq(LINE), NEW start \in WALK
  PROVE  WalkText(files, d, deeper, t, start) \in WALK
<1> DEFINE n == Len(t)
           Z == WALK
           base == start
           step == [i \in 1..n |-> [a \in Z |-> WalkLine(files, d, deeper, a, t[i])]]
           F(f) == [i \in 0..n |-> IF i = 0 THEN base ELSE WalkLine(files, d, deeper, f[i - 1], t[i])]
<1>1. n \in Nat /\ base \in Z
  OBVIOUS
<1>0. \A i \in 1..n, a \in Z : WalkLine(files, d, deeper, a, t[i]) \in Z
  <2> TAKE i \in 1..n, a \in Z
  <2> QED
    BY WalkLineType
<1>2. step \in [1..n -> [Z -> Z]]
  <2> HIDE DEF Z
  <2> QED
    BY <1>0
<1>3. PICK f \in [0..n -> Z] : f[0] = base /\ \A i \in 1..n : f[i] = step[i][f[i - 1]]
  <2> HIDE DEF n, Z, base, step
  <2>1. Folded(n, Z, base, step)
    BY <1>1, <1>2, FoldExists DEF Foldable
  <2> QED
    BY <2>1 DEF Folded
<1>4. \A i \in 1..n : f[i] = WalkLine(files, d, deeper, f[i - 1], t[i])
  <2> HIDE DEF Z
  <2> TAKE i \in 1..n
  <2>1. i - 1 \in 0..n /\ f[i - 1] \in Z
    OBVIOUS
  <2> QED
    BY <1>3, <2>1
<1>5. f = F(f)
  <2> HIDE DEF base, Z
  <2> QED
    BY <1>3, <1>4
<1> DEFINE r == CHOOSE g : g = F(g)
<1>6. r = F(r)
  <2>1. \E g : g = F(g)
    <3> HIDE DEF F
    <3> QED
      BY <1>5
  <2> QED
    BY <2>1
<1>7. WalkText(files, d, deeper, t, start) = r[n]
  BY DEF WalkText
<1> HIDE DEF r
<1>8. r = [i \in 0..n |-> r[i]] /\ r[0] = base
  <2> HIDE DEF base
  <2> QED
    BY <1>1, <1>6
<1>9. \A i \in 1..n : r[i] = WalkLine(files, d, deeper, r[i - 1], t[i])
  <2>1. \A i \in 1..n : i \in 0..n /\ i # 0
    OBVIOUS
  <2> HIDE DEF base
  <2> QED
    BY <1>1, <1>6, <2>1
<1>10. r \in [0..n -> Z]
  <2>1. \A i \in 1..n : r[i - 1] \in Z => r[i] \in Z
    BY <1>0, <1>9
  <2> HIDE DEF base, n, Z
  <2> QED
    BY <1>1, <1>8, <2>1, FoldTyped
<1>11. n \in 0..n
  BY <1>1
<1> QED
  BY <1>7, <1>10, <1>11

\* The walk at a depth, if the one below it is a walk.
LEMMA WalkType ==
  ASSUME NEW files, FILES(files), NEW d \in Nat, NEW deeper, d > 0 => deeper \in WALKER
  PROVE  Walk(files, d, deeper) \in WALKER
<1>1. ASSUME NEW t \in Seq(LINE), NEW start \in WALK
      PROVE  WalkText(files, d, deeper, t, start) \in WALK
  BY WalkTextType
<1> QED
  BY <1>1 DEF Walk, WALKER

\* The walks of all depths exist and give lines and names.
LEMMA WalksType ==
  ASSUME NEW files, FILES(files)
  PROVE  Walks(files) \in [0..MAX_INCLUDE_DEPTH -> WALKER]
<1> DEFINE n == MAX_INCLUDE_DEPTH
           base == Walk(files, 0, <<>>)
           step == [i \in 1..n |-> [a \in WALKER |-> Walk(files, i, a)]]
           F(f) == [d \in 0..n |-> Walk(files, d, IF d = 0 THEN <<>> ELSE f[d - 1])]
<1>1. n \in Nat /\ base \in WALKER
  BY WalkType, MaxIncludeDepthAssumption
<1>2. step \in [1..n -> [WALKER -> WALKER]]
  <2>1. \A i \in 1..n, a \in WALKER : Walk(files, i, a) \in WALKER
    BY <1>1, WalkType
  <2> HIDE DEF n
  <2> QED
    BY <2>1
<1>3. PICK f \in [0..n -> WALKER] : f[0] = base /\ \A i \in 1..n : f[i] = step[i][f[i - 1]]
  <2> HIDE DEF n, base, step
  <2>1. Folded(n, WALKER, base, step)
    BY <1>1, <1>2, FoldExists DEF Foldable
  <2> QED
    BY <2>1 DEF Folded
<1> HIDE DEF n
<1>4. ASSUME NEW d \in 0..n PROVE f[d] = Walk(files, d, IF d = 0 THEN <<>> ELSE f[d - 1])
  <2>1. CASE d = 0
    BY <1>3, <2>1
  <2>2. CASE d # 0
    <3>1. d \in 1..n /\ d - 1 \in 0..n /\ f[d - 1] \in WALKER
      BY <1>1, <2>2
    <3> QED
      BY <1>3, <2>2, <3>1
  <2> QED
    BY <2>1, <2>2
<1>5. f = F(f)
  BY <1>4
<1> DEFINE r == Walks(files)
<1>6. r = F(r)
  <2>1. \E g : g = F(g)
    <3> HIDE DEF F
    <3> QED
      BY <1>5
  <2> QED
    BY <2>1 DEF Walks, n
<1> HIDE DEF r
<1>7. r = [i \in 0..n |-> r[i]] /\ r[0] = base
  BY <1>1, <1>6
<1>8. \A i \in 1..n : r[i] = Walk(files, i, r[i - 1])
  <2>1. \A i \in 1..n : i \in 0..n /\ i # 0
    BY <1>1
  <2> QED
    BY <1>6, <2>1
<1>9. \A i \in 1..n : r[i - 1] \in WALKER => r[i] \in WALKER
  BY <1>1, <1>8, WalkType
<1>10. r \in [0..n -> WALKER]
  <2> HIDE DEF base
  <2> QED
    BY <1>1, <1>7, <1>9, FoldTyped
<1> QED
  BY <1>10 DEF r, n

\* remove_block yields lines.
LEMMA RemoveType ==
  ASSUME NEW t \in Seq(LINE), NEW B
  PROVE  remove_block(t, B) \in Seq(LINE)
<1>1. Removal(t, B)[Len(t)] \in REM
  <2>1. Len(t) \in 0..Len(t)
    OBVIOUS
  <2> QED
    BY <2>1, RemovalIs
<1> QED
  BY <1>1 DEF remove_block, REM

\* What is copied ahead of our line are optional lines for auth.
LEMMA GatesType ==
  ASSUME NEW files, FILES(files), NEW t \in Seq(LINE)
  PROVE  gates(files, t) \in Seq(GATE)
<1> DEFINE u == remove_block(t, BEGINS)
           start == [lines |-> <<>>, seen |-> {}]
           w == Walks(files)[MAX_INCLUDE_DEPTH]
<1>1. u \in Seq(LINE) /\ start \in WALK
  BY RemoveType DEF WALK
<1>2. w \in WALKER
  <2>1. MAX_INCLUDE_DEPTH \in 0..MAX_INCLUDE_DEPTH
    BY MaxIncludeDepthAssumption
  <2> QED
    BY <2>1, WalksType
<1>3. auth_lines(files, u) = w[u][start].lines
  BY DEF auth_lines
<1> HIDE DEF u, w, start
<1>4. w[u][start] \in WALK
  BY <1>1, <1>2 DEF WALKER
<1>5. auth_lines(files, u) \in Seq(LINE)
  BY <1>3, <1>4 DEF WALK
<1> QED
  BY <1>5, GateCopiesType DEF gates, u

\* kde-face holds lines.
LEMMA OwnStackType ==
  ASSUME NEW t \in Seq(LINE), NEW finger
  PROVE  build_own_stack(t, finger) \in Seq(LINE)
<1>3. OwnBody(t, finger).body \in Seq(LINE)
  BY OwnBodyType DEF OWNACC
<1>4. OWN_HEADER \in LINE
  BY WordAssumption, LineIs DEF OWN_HEADER, OUR_WORDS
<1> QED
  BY <1>3, <1>4 DEF build_own_stack

\* The block that begins at i ends before another one begins.
Closed(t, i) ==
  \E k \in DOMAIN t : /\ k > i /\ Stripped(t[k]) = END
                      /\ \A m \in (i + 1)..(k - 1) : Stripped(t[m]) \notin BEGINS \cup {END}

\* No block that begins before a is still open there.
Outside(t, a) ==
  \A i \in DOMAIN t : i < a /\ Stripped(t[i]) \in BEGINS =>
    \E k \in (i + 1)..(a - 1) : Stripped(t[k]) = END

\* An auth line that is in none of our blocks.
Free(t, a) == a \in DOMAIN t /\ is_auth_line(t[a]) /\ Outside(t, a)

\* Every block of ours has its end.
Blocks(t) == \A i \in DOMAIN t : Stripped(t[i]) \in BEGINS => Closed(t, i)

\* The layout of plasmalogin: its blocks are closed, face unlock's has an auth
\* line of the file behind it and KWallet's have one ahead of them.  So the one
\* is always inserted outside of the others, and no removal takes a part of them.
Laid(t) ==
  /\ t \in Seq(LINE)
  /\ Blocks(t)
  /\ \A i \in DOMAIN t : Stripped(t[i]) = BEGIN => \E a \in DOMAIN t : Free(t, a) /\ a > i
  /\ \A i \in DOMAIN t : Stripped(t[i]) = WALLET_BEGIN => \E a \in DOMAIN t : Free(t, a) /\ a < i
  /\ \A i \in DOMAIN t : Stripped(t[i]) # OWN_HEADER

\* remove_block is inside a block after line j.
OpenAt(t, B, j) ==
  \E i \in 1..j : Stripped(t[i]) \in B /\ \A k \in (i + 1)..j : Stripped(t[k]) # END

\* The lines remove_block leaves in a text whose blocks are closed.
Kept(t, B) == {i \in DOMAIN t : ~OpenAt(t, B, i - 1) /\ Stripped(t[i]) \notin B}

\* The markers are lines, and differ.
LEMMA Marks ==
  /\ BEGINS = {BEGIN, WALLET_BEGIN} /\ BEGIN # WALLET_BEGIN /\ END \notin BEGINS
  /\ BEGIN \in LINE /\ WALLET_BEGIN \in LINE /\ END \in LINE
  /\ Stripped(BEGIN) = BEGIN /\ Stripped(WALLET_BEGIN) = WALLET_BEGIN /\ Stripped(END) = END
<1>1. BEGIN.mod = "BEGIN" /\ WALLET_BEGIN.mod = "WALLET_BEGIN" /\ END.mod = "END"
  BY DEF BEGIN, WALLET_BEGIN, END, Line
<1>2. {"", "#", "BEGIN", "WALLET_BEGIN", "END"} \subseteq WORD
  BY WordAssumption DEF OUR_WORDS
<1>3. BEGIN \in LINE /\ WALLET_BEGIN \in LINE /\ END \in LINE
  BY <1>2, LineIs DEF BEGIN, WALLET_BEGIN, END
<1>4. Stripped(BEGIN) = BEGIN /\ Stripped(WALLET_BEGIN) = WALLET_BEGIN /\ Stripped(END) = END
  <2>1. ASSUME NEW l \in LINE, l.nl = TRUE PROVE Stripped(l) = l
    BY <2>1 DEF Stripped, LINE
  <2>2. BEGIN.nl = TRUE /\ WALLET_BEGIN.nl = TRUE /\ END.nl = TRUE
    BY DEF BEGIN, WALLET_BEGIN, END, Line
  <2> QED
    BY <1>3, <2>1, <2>2
<1> QED
  BY <1>1, <1>3, <1>4 DEF BEGINS

\* A line for auth is no marker.
LEMMA AuthNoMark ==
  ASSUME NEW l \in LINE, is_auth_line(l)
  PROVE  Stripped(l) \notin BEGINS \cup {END}
<1>1. Stripped(l).type = l.type
  BY StrippedIs
<1>2. l.type # "#"
  BY DEF is_auth_line, Kind
<1>3. BEGIN.type = "#" /\ WALLET_BEGIN.type = "#" /\ END.type = "#"
  BY DEF BEGIN, WALLET_BEGIN, END, Line
<1> QED
  BY <1>1, <1>2, <1>3 DEF BEGINS

\* Where the loop is inside a block, and that `block' is empty elsewhere.
LEMMA OpenIs ==
  ASSUME NEW t \in Seq(LINE), NEW B \in SUBSET BEGINS
  PROVE  \A j \in 0..Len(t) : LET r == Removal(t, B)[j]
                              IN  /\ (r.open <=> OpenAt(t, B, j))
                                  /\ ~r.open => r.block = <<>>
<1> DEFINE n == Len(t)
           r == Removal(t, B)
           T == {j \in 0..n : (r[j].open <=> OpenAt(t, B, j)) /\ (~r[j].open => r[j].block = <<>>)}
<1>0. n \in Nat /\ r \in [0..n -> REM]
  BY RemovalIs
<1>1. r[0] = [open |-> FALSE, block |-> <<>>, out |-> <<>>]
  BY RemovalIs
<1>2. \A i \in 1..n : r[i] = RemoveStep(B, r[i - 1], t[i])
  BY RemovalIs
<1> HIDE DEF r, n
<1>3. 0 \in T
  <2>1. OpenAt(t, B, 0) = FALSE
    BY DEF OpenAt
  <2> QED
    BY <1>0, <1>1, <2>1
<1>4. ASSUME NEW i \in 1..n, i - 1 \in T PROVE i \in T
  <2>1. r[i - 1] \in REM /\ r[i] = RemoveStep(B, r[i - 1], t[i]) /\ i \in Nat /\ i - 1 \in Nat
        /\ i \in 0..n
    BY <1>0, <1>2
  <2>2. (r[i - 1].open <=> OpenAt(t, B, i - 1)) /\ (~r[i - 1].open => r[i - 1].block = <<>>)
    BY <1>4
  <2>3. r[i - 1].open \in BOOLEAN /\ OpenAt(t, B, i) \in BOOLEAN
    BY <2>1 DEF REM, OpenAt
  <2>4. END \notin B
    BY Marks
  <2>5. CASE ~r[i - 1].open /\ Stripped(t[i]) \in B
    <3>1. r[i].open = TRUE
      BY <2>1, <2>5 DEF RemoveStep, REM
    <3>2. OpenAt(t, B, i)
      <4>1. i \in 1..i /\ \A k \in (i + 1)..i : Stripped(t[k]) # END
        BY <2>1
      <4> QED
        BY <2>5, <4>1 DEF OpenAt
    <3> QED
      BY <2>1, <3>1, <3>2
  <2>6. CASE ~r[i - 1].open /\ Stripped(t[i]) \notin B
    <3>1. r[i].open = FALSE /\ r[i].block = r[i - 1].block
      BY <2>1, <2>6 DEF RemoveStep, REM
    <3>2. ~OpenAt(t, B, i)
      <4> SUFFICES ASSUME NEW k \in 1..i, Stripped(t[k]) \in B,
                          \A m \in (k + 1)..i : Stripped(t[m]) # END
                   PROVE  FALSE
        BY DEF OpenAt
      <4>1. k \in 1..(i - 1) /\ \A m \in (k + 1)..(i - 1) : m \in (k + 1)..i
        BY <2>1, <2>6
      <4> QED
        BY <2>2, <2>6, <4>1 DEF OpenAt
    <3> QED
      BY <2>1, <2>2, <2>6, <3>1, <3>2
  <2>7. CASE r[i - 1].open /\ Stripped(t[i]) = END
    <3>1. r[i].open = FALSE /\ r[i].block = <<>>
      BY <2>1, <2>7 DEF RemoveStep, REM
    <3>2. ~OpenAt(t, B, i)
      <4> SUFFICES ASSUME NEW k \in 1..i, Stripped(t[k]) \in B,
                          \A m \in (k + 1)..i : Stripped(t[m]) # END
                   PROVE  FALSE
        BY DEF OpenAt
      <4>1. k # i
        BY <2>4, <2>7
      <4>2. i \in (k + 1)..i
        BY <2>1, <4>1
      <4> QED
        BY <2>7, <4>2
    <3> QED
      BY <2>1, <3>1, <3>2
  <2>8. CASE r[i - 1].open /\ Stripped(t[i]) # END
    <3>1. r[i].open = TRUE
      BY <2>1, <2>8 DEF RemoveStep, REM
    <3>2. OpenAt(t, B, i)
      <4>1. PICK k \in 1..(i - 1) : Stripped(t[k]) \in B
                                    /\ \A m \in (k + 1)..(i - 1) : Stripped(t[m]) # END
        BY <2>2, <2>8 DEF OpenAt
      <4>2. k \in 1..i /\ \A m \in (k + 1)..i : m = i \/ m \in (k + 1)..(i - 1)
        BY <2>1
      <4> QED
        BY <2>8, <4>1, <4>2 DEF OpenAt
    <3> QED
      BY <2>1, <3>1, <3>2
  <2> QED
    BY <2>3, <2>5, <2>6, <2>7, <2>8
<1>5. \A j \in 0..n : j \in T
  <2> HIDE DEF T
  <2> QED
    BY <1>0, <1>3, <1>4, UpTo
<1> QED
  BY <1>5 DEF r, n

\* q holds the elements of t at the positions in K up to j, in their order: f
\* gives their positions.
ByMap(q, t, K, j, f) ==
  /\ \A x \in 1..Len(q) : f[x] \in K /\ f[x] \in 1..j /\ q[x] = t[f[x]]
  /\ \A x, y \in 1..Len(q) : x < y => f[x] < f[y]
  /\ \A i \in K : i \in 1..j => \E x \in 1..Len(q) : f[x] = i

\* q lists the lines of t up to j whose positions are in K, in their order.
Enumerates(q, t, K, j) == \E f : ByMap(q, t, K, j, f)

\* A line that is kept is listed next.
LEMMA EnumNext ==
  ASSUME NEW A, NEW q \in Seq(A), NEW t, NEW K, NEW j \in Nat, j > 0, t[j] \in A,
         Enumerates(q, t, K, j - 1), j \in K
  PROVE  Enumerates(Append(q, t[j]), t, K, j)
<1>1. PICK f : ByMap(q, t, K, j - 1, f)
  BY DEF Enumerates
<1> DEFINE p == Append(q, t[j])
           n == Len(q)
           g == [x \in 1..(n + 1) |-> IF x = n + 1 THEN j ELSE f[x]]
<1>2. n \in Nat /\ Len(p) = n + 1 /\ p[n + 1] = t[j] /\ \A x \in 1..n : p[x] = q[x]
  OBVIOUS
<1>3. g[n + 1] = j /\ \A x \in 1..n : g[x] = f[x] /\ f[x] \in 1..(j - 1) /\ f[x] \in K
  BY <1>1, <1>2 DEF ByMap
<1>7. \A x \in 1..n : q[x] = t[f[x]]
  BY <1>1 DEF ByMap
<1>8. \A x, y \in 1..n : x < y => f[x] < f[y]
  BY <1>1 DEF ByMap
<1>9. \A i \in K : i \in 1..(j - 1) => \E x \in 1..n : f[x] = i
  BY <1>1 DEF ByMap
<1>10. \A x \in 1..(n + 1) : x = n + 1 \/ x \in 1..n
  BY <1>2
<1>0. n + 1 \in 1..(n + 1) /\ \A x \in 1..n : x \in 1..(n + 1)
  BY <1>2
<1> HIDE DEF g, p, n
<1>4. \A x \in 1..(n + 1) : g[x] \in K /\ g[x] \in 1..j /\ p[x] = t[g[x]]
  <2> TAKE x \in 1..(n + 1)
  <2>1. CASE x = n + 1
    BY <2>1, <1>2, <1>3
  <2>2. CASE x \in 1..n
    BY <2>2, <1>2, <1>3, <1>7
  <2> QED
    BY <2>1, <2>2, <1>10
<1>5. \A x, y \in 1..(n + 1) : x < y => g[x] < g[y]
  <2> TAKE x, y \in 1..(n + 1)
  <2> HAVE x < y
  <2>1. x \in 1..n
    BY <1>2
  <2>2. CASE y = n + 1
    BY <2>1, <2>2, <1>2, <1>3
  <2>3. CASE y \in 1..n
    BY <2>1, <2>3, <1>3, <1>8
  <2> QED
    BY <2>2, <2>3, <1>10
<1>6. \A i \in K : i \in 1..j => \E x \in 1..(n + 1) : g[x] = i
  <2> TAKE i \in K
  <2> HAVE i \in 1..j
  <2>1. CASE i = j
    BY <2>1, <1>0, <1>3
  <2>2. CASE i # j
    <3>1. i \in 1..(j - 1)
      BY <2>2
    <3> QED
      BY <3>1, <1>0, <1>3, <1>9
  <2> QED
    BY <2>1, <2>2
<1> QED
  BY <1>2, <1>4, <1>5, <1>6 DEF Enumerates, ByMap, p

\* A line that is not kept is skipped.
LEMMA EnumSkip ==
  ASSUME NEW q, NEW t, NEW K, NEW j \in Nat, j > 0,
         Enumerates(q, t, K, j - 1), j \notin K
  PROVE  Enumerates(q, t, K, j)
<1>1. PICK f : ByMap(q, t, K, j - 1, f)
  BY DEF Enumerates
<1>2. \A i \in Nat : i \in 1..j => i = j \/ i \in 1..(j - 1)
  OBVIOUS
<1>3. \A i : i \in 1..(j - 1) => i \in 1..j
  OBVIOUS
<1>4. ByMap(q, t, K, j, f)
  BY <1>1, <1>2, <1>3 DEF ByMap
<1> QED
  BY <1>4 DEF Enumerates

\* Nothing is listed at first.
LEMMA EnumNone ==
  ASSUME NEW t, NEW K
  PROVE  Enumerates(<<>>, t, K, 0)
<1>1. ByMap(<<>>, t, K, 0, <<>>)
  BY DEF ByMap
<1> QED
  BY <1>1 DEF Enumerates

\* Outside the blocks, remove_block keeps every line, in order.
LEMMA OutIs ==
  ASSUME NEW t \in Seq(LINE), NEW B \in SUBSET BEGINS
  PROVE  \A j \in 0..Len(t) : Enumerates(Removal(t, B)[j].out, t, Kept(t, B), j)
<1> DEFINE n == Len(t)
           r == Removal(t, B)
           K == Kept(t, B)
           T == {j \in 0..n : Enumerates(r[j].out, t, K, j)}
<1>0. n \in Nat /\ r \in [0..n -> REM]
  BY RemovalIs
<1>1. r[0] = [open |-> FALSE, block |-> <<>>, out |-> <<>>]
  BY RemovalIs
<1>2. \A i \in 1..n : r[i] = RemoveStep(B, r[i - 1], t[i])
  BY RemovalIs
<1>3. \A i \in 0..n : r[i].open <=> OpenAt(t, B, i)
  BY OpenIs
<1>4. \A i \in 1..n : i \in K <=> ~OpenAt(t, B, i - 1) /\ Stripped(t[i]) \notin B
  BY DEF Kept
<1>5. \A i \in 1..n : t[i] \in LINE
  OBVIOUS
<1> HIDE DEF r, n, K
<1>6. 0 \in T
  <2>1. r[0].out = <<>>
    BY <1>1
  <2> QED
    BY <1>0, <2>1, EnumNone
<1>7. ASSUME NEW i \in 1..n, i - 1 \in T PROVE i \in T
  <2>1. r[i - 1] \in REM /\ r[i] = RemoveStep(B, r[i - 1], t[i]) /\ i \in Nat /\ i - 1 \in 0..n
        /\ i \in 0..n /\ i > 0
    BY <1>0, <1>2
  <2>2. Enumerates(r[i - 1].out, t, K, i - 1)
    BY <1>7
  <2>3. r[i - 1].open <=> OpenAt(t, B, i - 1)
    BY <1>3, <2>1
  <2>4. r[i - 1].out \in Seq(LINE)
    BY <2>1 DEF REM
  <2>5. CASE i \in K
    <3>1. ~r[i - 1].open /\ Stripped(t[i]) \notin B
      BY <1>4, <2>3, <2>5
    <3>2. r[i].out = Append(r[i - 1].out, t[i])
      BY <2>1, <3>1 DEF RemoveStep, REM
    <3>3. Enumerates(Append(r[i - 1].out, t[i]), t, K, i)
      BY <1>5, <2>1, <2>2, <2>4, <2>5, EnumNext
    <3> QED
      BY <2>1, <3>2, <3>3
  <2>6. CASE i \notin K
    <3>1. r[i - 1].open \/ Stripped(t[i]) \in B
      BY <1>4, <2>3, <2>6
    <3>2. r[i].out = r[i - 1].out
      <4>1. CASE r[i - 1].open
        BY <2>1, <4>1 DEF RemoveStep, REM
      <4>2. CASE ~r[i - 1].open
        BY <2>1, <3>1, <4>2 DEF RemoveStep, REM
      <4> QED
        BY <4>1, <4>2
    <3>3. Enumerates(r[i - 1].out, t, K, i)
      BY <2>1, <2>2, <2>6, EnumSkip
    <3> QED
      BY <2>1, <3>2, <3>3
  <2> QED
    BY <2>5, <2>6
<1>8. \A j \in 0..n : j \in T
  <2> HIDE DEF T
  <2> QED
    BY <1>0, <1>6, <1>7, UpTo
<1> QED
  BY <1>8 DEF r, n, K

\* Where every block has its end, remove_block(t, B) is the lines it keeps.
LEMMA RemoveIs ==
  ASSUME NEW t \in Seq(LINE), NEW B \in SUBSET BEGINS, Blocks(t)
  PROVE  Enumerates(remove_block(t, B), t, Kept(t, B), Len(t))
<1> DEFINE n == Len(t)
           r == Removal(t, B)[n]
<1>1. n \in Nat /\ n \in 0..n
  OBVIOUS
<1>2. ~OpenAt(t, B, n)
  <2> SUFFICES ASSUME NEW i \in 1..n, Stripped(t[i]) \in B,
                      \A k \in (i + 1)..n : Stripped(t[k]) # END
               PROVE  FALSE
    BY DEF OpenAt
  <2>1. Closed(t, i)
    BY DEF Blocks
  <2>2. PICK k \in 1..n : k > i /\ Stripped(t[k]) = END
    BY <2>1 DEF Closed
  <2> QED
    BY <2>2
<1>3. r.block = <<>>
  BY <1>1, <1>2, OpenIs
<1>4. r.out \in Seq(LINE)
  BY <1>1, RemovalIs DEF REM
<1>5. remove_block(t, B) = r.out
  BY <1>3, <1>4 DEF remove_block
<1> QED
  BY <1>1, <1>5, OutIs

\* A block that is not of the kind to go stays, with all of its lines.
LEMMA KeptBlock ==
  ASSUME NEW t \in Seq(LINE), NEW B \in SUBSET BEGINS, Blocks(t),
         NEW i \in DOMAIN t, Stripped(t[i]) \in BEGINS, Stripped(t[i]) \notin B
  PROVE  \E k \in DOMAIN t : /\ k > i /\ Stripped(t[k]) = END
                             /\ \A m \in (i + 1)..(k - 1) : Stripped(t[m]) \notin BEGINS \cup {END}
                             /\ \A m \in i..k : m \in Kept(t, B)
<1>1. Closed(t, i)
  BY DEF Blocks
<1>2. PICK k \in DOMAIN t : /\ k > i /\ Stripped(t[k]) = END
                            /\ \A m \in (i + 1)..(k - 1) : Stripped(t[m]) \notin BEGINS \cup {END}
  BY <1>1 DEF Closed
<1>3. DOMAIN t = 1..Len(t) /\ Len(t) \in Nat /\ END \notin BEGINS
  BY Marks
<1>4. ASSUME NEW m \in i..k PROVE m \in Kept(t, B)
  <2>1. m \in DOMAIN t /\ m \in Nat /\ m >= 1
    BY <1>3
  <2>2. Stripped(t[m]) \notin B
    <3>1. m = i \/ m = k \/ m \in (i + 1)..(k - 1)
      BY <1>3
    <3> QED
      BY <1>2, <1>3, <3>1
  <2>3. ~OpenAt(t, B, m - 1)
    <3> SUFFICES ASSUME NEW j \in 1..(m - 1), Stripped(t[j]) \in B,
                        \A x \in (j + 1)..(m - 1) : Stripped(t[x]) # END
                 PROVE  FALSE
      BY DEF OpenAt
    <3>1. j \in DOMAIN t
      BY <1>3, <2>1
    <3>2. j # i
      OBVIOUS
    <3>3. CASE j > i
      <4>1. j \in (i + 1)..(k - 1)
        BY <1>3, <3>1, <3>3
      <4> QED
        BY <1>2, <4>1
    <3>4. CASE j < i
      <4>1. PICK e \in DOMAIN t : /\ e > j /\ Stripped(t[e]) = END
                                  /\ \A x \in (j + 1)..(e - 1) : Stripped(t[x]) \notin BEGINS \cup {END}
        <5>1. Closed(t, j)
          BY <3>1 DEF Blocks
        <5> QED
          BY <5>1 DEF Closed
      <4>2. e \notin (j + 1)..(m - 1)
        BY <4>1
      <4>3. e # i
        BY <1>3, <4>1
      <4>4. i \in (j + 1)..(e - 1)
        BY <1>3, <3>1, <3>4, <4>1, <4>2, <4>3
      <4> QED
        BY <4>1, <4>4
    <3> QED
      BY <1>3, <3>1, <3>2, <3>3, <3>4
  <2> QED
    BY <2>1, <2>2, <2>3 DEF Kept
<1> QED
  BY <1>2, <1>4

\* So does a line that is in no block.
LEMMA KeptOutside ==
  ASSUME NEW t \in Seq(LINE), NEW B \in SUBSET BEGINS,
         NEW a \in DOMAIN t, Outside(t, a), Stripped(t[a]) \notin BEGINS
  PROVE  a \in Kept(t, B)
<1>1. DOMAIN t = 1..Len(t) /\ Len(t) \in Nat
  OBVIOUS
<1>2. ~OpenAt(t, B, a - 1)
  <2> SUFFICES ASSUME NEW j \in 1..(a - 1), Stripped(t[j]) \in B,
                      \A x \in (j + 1)..(a - 1) : Stripped(t[x]) # END
               PROVE  FALSE
    BY DEF OpenAt
  <2>1. j \in DOMAIN t /\ j < a /\ Stripped(t[j]) \in BEGINS
    BY <1>1
  <2> QED
    BY <2>1 DEF Outside
<1> QED
  BY <1>2 DEF Kept

\* What remove_block leaves is laid out as before, without the blocks that had
\* to go and with all the others.
LEMMA RemoveLaid ==
  ASSUME NEW t, Laid(t), NEW B \in SUBSET BEGINS
  PROVE  LET u == remove_block(t, B)
         IN  /\ Laid(u)
             /\ \A x \in DOMAIN u : Stripped(u[x]) \notin B
             /\ \A w \in BEGINS \ B : has_block(t, w) => has_block(u, w)
<1> DEFINE u == remove_block(t, B)
           K == Kept(t, B)
<1>0. t \in Seq(LINE) /\ Blocks(t) /\ DOMAIN t = 1..Len(t) /\ Len(t) \in Nat
  BY DEF Laid
<1>1. u \in Seq(LINE) /\ DOMAIN u = 1..Len(u) /\ Len(u) \in Nat
  BY <1>0, RemoveType
<1>2. PICK f : ByMap(u, t, K, Len(t), f)
  BY <1>0, RemoveIs DEF Enumerates
<1> HIDE DEF u
<1>3. \A x \in DOMAIN u : f[x] \in K /\ f[x] \in DOMAIN t /\ u[x] = t[f[x]]
  BY <1>0, <1>1, <1>2 DEF ByMap
<1>4. \A x, y \in DOMAIN u : x < y <=> f[x] < f[y]
  <2>1. \A x, y \in DOMAIN u : x < y => f[x] < f[y]
    BY <1>1, <1>2 DEF ByMap
  <2> TAKE x, y \in DOMAIN u
  <2>2. f[x] \in Nat /\ f[y] \in Nat /\ x \in Nat /\ y \in Nat
    BY <1>0, <1>1, <1>3
  <2>3. y < x => f[y] < f[x]
    BY <2>1
  <2>4. x < y => f[x] < f[y]
    BY <2>1
  <2> QED
    BY <2>2, <2>3, <2>4
<1>5. \A i \in K : \E x \in DOMAIN u : f[x] = i
  <2>1. K \subseteq 1..Len(t)
    BY <1>0 DEF Kept
  <2> QED
    BY <1>1, <1>2, <2>1 DEF ByMap
<1>6. \A x \in DOMAIN u : Stripped(u[x]) \notin B
  BY <1>3 DEF Kept
<1> HIDE DEF K
<1>7. Blocks(u)
  <2> SUFFICES ASSUME NEW x \in DOMAIN u, Stripped(u[x]) \in BEGINS PROVE Closed(u, x)
    BY DEF Blocks
  <2>1. f[x] \in DOMAIN t /\ Stripped(t[f[x]]) \in BEGINS /\ Stripped(t[f[x]]) \notin B
    BY <1>3, <1>6
  <2>2. PICK k \in DOMAIN t : /\ k > f[x] /\ Stripped(t[k]) = END
                              /\ \A m \in (f[x] + 1)..(k - 1) : Stripped(t[m]) \notin BEGINS \cup {END}
                              /\ \A m \in f[x]..k : m \in K
    BY <1>0, <2>1, KeptBlock DEF K
  <2>3. k \in K
    BY <1>0, <2>1, <2>2
  <2>4. PICK y \in DOMAIN u : f[y] = k
    BY <1>5, <2>3
  <2>5. y > x /\ Stripped(u[y]) = END
    BY <1>0, <1>1, <1>3, <1>4, <2>1, <2>2, <2>4
  <2>6. ASSUME NEW z \in (x + 1)..(y - 1) PROVE Stripped(u[z]) \notin BEGINS \cup {END}
    <3>1. z \in DOMAIN u /\ x < z /\ z < y
      BY <1>1
    <3>2. f[x] < f[z] /\ f[z] < k /\ f[z] \in DOMAIN t
      BY <1>3, <1>4, <2>4, <3>1
    <3>3. f[z] \in (f[x] + 1)..(k - 1)
      BY <1>0, <2>1, <3>2
    <3> QED
      BY <1>3, <2>2, <3>1, <3>3
  <2> QED
    BY <2>5, <2>6 DEF Closed
<1>8. ASSUME NEW a, Free(t, a) PROVE \E x : f[x] = a /\ Free(u, x)
  <2>1. a \in DOMAIN t /\ is_auth_line(t[a]) /\ Outside(t, a) /\ t[a] \in LINE
    BY <1>0, <1>8 DEF Free
  <2>2. Stripped(t[a]) \notin BEGINS
    BY <2>1, AuthNoMark
  <2>3. a \in K
    BY <1>0, <2>1, <2>2, KeptOutside DEF K
  <2>4. PICK x \in DOMAIN u : f[x] = a
    BY <1>5, <2>3
  <2>5. ASSUME NEW i \in DOMAIN u, i < x, Stripped(u[i]) \in BEGINS
        PROVE  \E k \in (i + 1)..(x - 1) : Stripped(u[k]) = END
    <3>1. f[i] \in DOMAIN t /\ f[i] < a /\ Stripped(t[f[i]]) \in BEGINS /\ Stripped(t[f[i]]) \notin B
      BY <1>3, <1>4, <1>6, <2>4, <2>5
    <3>2. PICK e \in (f[i] + 1)..(a - 1) : Stripped(t[e]) = END
      BY <2>1, <3>1 DEF Outside
    <3>3. PICK k \in DOMAIN t : /\ k > f[i] /\ Stripped(t[k]) = END
                                /\ \A m \in (f[i] + 1)..(k - 1) : Stripped(t[m]) \notin BEGINS \cup {END}
                                /\ \A m \in f[i]..k : m \in K
      BY <1>0, <3>1, KeptBlock DEF K
    <3>4. e \notin (f[i] + 1)..(k - 1)
      BY <3>2, <3>3
    <3>5. k <= e /\ k < a /\ k \in K
      BY <1>0, <2>1, <3>1, <3>2, <3>3, <3>4
    <3>6. PICK y \in DOMAIN u : f[y] = k
      BY <1>5, <3>5
    <3>7. i < y /\ y < x
      BY <1>4, <2>4, <3>3, <3>5, <3>6
    <3>8. y \in (i + 1)..(x - 1) /\ Stripped(u[y]) = END
      BY <1>1, <1>3, <3>3, <3>6, <3>7
    <3> QED
      BY <3>8
  <2>6. Outside(u, x)
    BY <2>5 DEF Outside
  <2> QED
    BY <1>3, <2>1, <2>4, <2>6 DEF Free
<1>9. ASSUME NEW x \in DOMAIN u, Stripped(u[x]) = BEGIN PROVE \E a \in DOMAIN u : Free(u, a) /\ a > x
  <2>1. f[x] \in DOMAIN t /\ Stripped(t[f[x]]) = BEGIN
    BY <1>3, <1>9
  <2>2. PICK a \in DOMAIN t : Free(t, a) /\ a > f[x]
    BY <2>1 DEF Laid
  <2>3. PICK y : f[y] = a /\ Free(u, y)
    BY <1>8, <2>2
  <2>4. y \in DOMAIN u
    BY <2>3 DEF Free
  <2>5. f[x] < f[y] /\ x \in Nat /\ y \in Nat
    BY <1>0, <1>1, <1>3, <2>2, <2>3, <2>4
  <2> QED
    BY <1>4, <2>3, <2>4, <2>5
<1>10. ASSUME NEW x \in DOMAIN u, Stripped(u[x]) = WALLET_BEGIN PROVE \E a \in DOMAIN u : Free(u, a) /\ a < x
  <2>1. f[x] \in DOMAIN t /\ Stripped(t[f[x]]) = WALLET_BEGIN
    BY <1>3, <1>10
  <2>2. PICK a \in DOMAIN t : Free(t, a) /\ a < f[x]
    BY <2>1 DEF Laid
  <2>3. PICK y : f[y] = a /\ Free(u, y)
    BY <1>8, <2>2
  <2>4. y \in DOMAIN u
    BY <2>3 DEF Free
  <2> QED
    BY <1>4, <2>2, <2>3, <2>4
<1>11. ASSUME NEW w \in BEGINS \ B, has_block(t, w) PROVE has_block(u, w)
  <2>1. PICK i \in DOMAIN t : Stripped(t[i]) = w
    BY <1>11 DEF has_block
  <2>2. PICK k \in DOMAIN t : k > i /\ \A m \in i..k : m \in K
    BY <1>0, <2>1, KeptBlock DEF K
  <2>3. i \in K
    BY <1>0, <2>2
  <2>4. PICK x \in DOMAIN u : f[x] = i
    BY <1>5, <2>3
  <2> QED
    BY <1>3, <2>1, <2>4 DEF has_block
<1>12. Laid(u)
  <2>1. \A x \in DOMAIN u : Stripped(u[x]) # OWN_HEADER
    BY <1>3 DEF Laid
  <2> QED
    BY <1>1, <1>7, <1>9, <1>10, <2>1 DEF Laid
<1> QED
  BY <1>6, <1>11, <1>12 DEF u

\* Where the lines of the text and of the block are after Splice.
LEMMA SpliceIs ==
  ASSUME NEW t \in Seq(LINE), NEW b \in Seq(LINE), NEW m \in 1..(Len(t) + 1)
  PROVE  LET s == Splice(t, m, b)
         IN  /\ s \in Seq(LINE) /\ Len(s) = Len(t) + Len(b)
             /\ \A i \in 1..(m - 1) : s[i] = t[i]
             /\ \A i \in 1..Len(b) : s[m - 1 + i] = b[i]
             /\ \A i \in m..Len(t) : s[i + Len(b)] = t[i]
<1> DEFINE p == SubSeq(t, 1, m - 1)
           q == SubSeq(t, m, Len(t))
<1>1. p \in Seq(LINE) /\ Len(p) = m - 1 /\ \A i \in 1..(m - 1) : p[i] = t[i]
  OBVIOUS
<1>2. q \in Seq(LINE) /\ Len(q) = Len(t) - m + 1 /\ \A i \in 1..(Len(t) - m + 1) : q[i] = t[m + i - 1]
  OBVIOUS
<1>3. Splice(t, m, b) = (p \o b) \o q
  BY DEF Splice
<1> HIDE DEF p, q
<1> DEFINE c == p \o b
<1>4. c \in Seq(LINE) /\ Len(c) = m - 1 + Len(b)
      /\ (\A i \in 1..(m - 1) : c[i] = p[i]) /\ \A i \in 1..Len(b) : c[m - 1 + i] = b[i]
  <2>1. p \in Seq(LINE) /\ b \in Seq(LINE)
    BY <1>1
  <2>2. c \in Seq(LINE) /\ Len(c) = Len(p) + Len(b)
        /\ (\A i \in 1..Len(p) : c[i] = p[i]) /\ \A i \in 1..Len(b) : c[Len(p) + i] = b[i]
    BY <2>1
  <2> HIDE DEF c
  <2> QED
    BY <1>1, <2>2
<1> HIDE DEF c
<1> DEFINE s == c \o q
<1>5. s \in Seq(LINE) /\ Len(s) = Len(c) + Len(q)
      /\ (\A i \in 1..Len(c) : s[i] = c[i]) /\ \A i \in 1..Len(q) : s[Len(c) + i] = q[i]
  <2>1. c \in Seq(LINE) /\ q \in Seq(LINE)
    BY <1>2, <1>4
  <2> QED
    BY <2>1
<1> HIDE DEF s
<1>6. Len(s) = Len(t) + Len(b)
  BY <1>2, <1>4, <1>5
<1>7. \A i \in 1..(m - 1) : s[i] = t[i]
  BY <1>1, <1>4, <1>5
<1>8. \A i \in 1..Len(b) : s[m - 1 + i] = b[i]
  BY <1>4, <1>5
<1>9. ASSUME NEW i \in m..Len(t) PROVE s[i + Len(b)] = t[i]
  <2>1. i - m + 1 \in 1..Len(q) /\ i - m + 1 \in 1..(Len(t) - m + 1)
        /\ Len(c) + (i - m + 1) = i + Len(b) /\ m + (i - m + 1) - 1 = i
    BY <1>2, <1>4
  <2>2. s[Len(c) + (i - m + 1)] = q[i - m + 1]
    BY <1>5, <2>1
  <2>3. q[i - m + 1] = t[m + (i - m + 1) - 1]
    BY <1>2, <2>1
  <2> QED
    BY <2>1, <2>2, <2>3
<1> QED
  BY <1>3, <1>5, <1>6, <1>7, <1>8, <1>9 DEF s, c

\* A block of ours: a begin marker, lines that are no markers, the end.
Solid(b, w) ==
  /\ b \in Seq(LINE) /\ Len(b) >= 2 /\ w \in BEGINS
  /\ Stripped(b[1]) = w /\ Stripped(b[Len(b)]) = END
  /\ \A i \in 2..(Len(b) - 1) : Stripped(b[i]) \notin BEGINS \cup {END}
  /\ \A i \in 1..Len(b) : Stripped(b[i]) # OWN_HEADER

\* Where the line at a is once d lines were put in at m.
Shift(a, m, d) == IF a < m THEN a ELSE a + d

\* What becomes of the lines of t when the block b goes in at m.
Spliced(t, m, b, w, s) ==
  /\ s \in Seq(LINE) /\ Blocks(s)
  /\ m \in DOMAIN s /\ Stripped(s[m]) = w
  /\ \A i \in DOMAIN s : Stripped(s[i]) \in BEGINS =>
       \/ i = m
       \/ \E j \in DOMAIN t : i = Shift(j, m, Len(b)) /\ Stripped(t[j]) = Stripped(s[i])
  /\ \A a : Free(t, a) => Free(s, Shift(a, m, Len(b)))
  /\ \A j \in DOMAIN t : /\ Shift(j, m, Len(b)) \in DOMAIN s
                         /\ s[Shift(j, m, Len(b))] = t[j]
  /\ (\A j \in DOMAIN t : Stripped(t[j]) # OWN_HEADER)
     => \A i \in DOMAIN s : Stripped(s[i]) # OWN_HEADER

\* A block of ours put where no block is open leaves the others whole.
LEMMA SpliceBlocks ==
  ASSUME NEW t \in Seq(LINE), NEW b, NEW w, Solid(b, w), NEW m \in 1..(Len(t) + 1),
         Blocks(t), Outside(t, m)
  PROVE  Spliced(t, m, b, w, Splice(t, m, b))
<1> DEFINE s == Splice(t, m, b)
           d == Len(b)
           n == Len(t)
           sh(a) == Shift(a, m, d)
<1>0. n \in Nat /\ d \in Nat /\ d >= 2 /\ DOMAIN t = 1..n /\ m \in 1..(n + 1) /\ b \in Seq(LINE)
      /\ END \notin BEGINS
  BY Marks DEF Solid
<1>1. /\ s \in Seq(LINE) /\ Len(s) = n + d /\ DOMAIN s = 1..(n + d)
      /\ \A i \in 1..(m - 1) : s[i] = t[i]
      /\ \A i \in 1..d : s[m - 1 + i] = b[i]
      /\ \A i \in m..n : s[i + d] = t[i]
  <2>1. /\ s \in Seq(LINE) /\ Len(s) = n + d
        /\ \A i \in 1..(m - 1) : s[i] = t[i]
        /\ \A i \in 1..d : s[m - 1 + i] = b[i]
        /\ \A i \in m..n : s[i + d] = t[i]
    BY <1>0, SpliceIs
  <2>2. DOMAIN s = 1..Len(s)
    BY <2>1
  <2> HIDE DEF s, n, d
  <2> QED
    BY <2>1, <2>2
<1> HIDE DEF s, d, n
<1>2. Stripped(b[1]) = w /\ w \in BEGINS /\ Stripped(b[d]) = END
      /\ \A i \in 2..(d - 1) : Stripped(b[i]) \notin BEGINS \cup {END}
  BY DEF Solid, d
<1>3. s[m] = b[1] /\ s[m - 1 + d] = b[d] /\ m \in DOMAIN s /\ m - 1 + d \in DOMAIN s
  <2>1. 1 \in 1..d /\ d \in 1..d /\ m - 1 + 1 = m
    BY <1>0
  <2>2. s[m - 1 + 1] = b[1] /\ s[m - 1 + d] = b[d]
    BY <1>1, <2>1
  <2>3. m \in DOMAIN s /\ m - 1 + d \in DOMAIN s
    BY <1>0, <1>1
  <2> QED
    BY <2>1, <2>2, <2>3
<1>4. \A j \in DOMAIN t : sh(j) \in DOMAIN s /\ s[sh(j)] = t[j] /\ sh(j) \in Nat
  BY <1>0, <1>1 DEF Shift
<1>5. \A j, k \in Nat : j < k => sh(j) < sh(k)
  BY <1>0 DEF Shift
<1>6. \A i \in DOMAIN s : \/ i \in m..(m - 1 + d)
                          \/ \E j \in DOMAIN t : i = sh(j)
  <2> TAKE i \in DOMAIN s
  <2>1. CASE i < m
    <3>1. i \in DOMAIN t /\ sh(i) = i
      BY <1>0, <1>1, <2>1 DEF Shift
    <3> QED
      BY <3>1
  <2>2. CASE i >= m + d
    <3>1. i - d \in DOMAIN t /\ sh(i - d) = i
      BY <1>0, <1>1, <2>2 DEF Shift
    <3> QED
      BY <3>1
  <2>3. CASE i >= m /\ i < m + d
    BY <1>0, <1>1, <2>3
  <2> QED
    BY <1>0, <1>1, <2>1, <2>2, <2>3
<1>7. \A i \in (m + 1)..(m + d - 2) : Stripped(s[i]) \notin BEGINS \cup {END}
  <2> TAKE i \in (m + 1)..(m + d - 2)
  <2>1. i - m + 1 \in 2..(d - 1) /\ i - m + 1 \in 1..d /\ m - 1 + (i - m + 1) = i
    BY <1>0
  <2>2. s[m - 1 + (i - m + 1)] = b[i - m + 1]
    BY <1>1, <2>1
  <2> QED
    BY <1>2, <2>1, <2>2
<1>8. \A i \in DOMAIN s : Stripped(s[i]) \in BEGINS =>
         i = m \/ \E j \in DOMAIN t : i = sh(j) /\ Stripped(t[j]) = Stripped(s[i])
  <2> TAKE i \in DOMAIN s
  <2> HAVE Stripped(s[i]) \in BEGINS
  <2>1. CASE i \in m..(m - 1 + d)
    <3>1. i = m \/ i = m - 1 + d \/ i \in (m + 1)..(m + d - 2)
      BY <1>0, <2>1
    <3>2. i # m - 1 + d
      BY <1>0, <1>2, <1>3
    <3> QED
      BY <1>7, <3>1, <3>2
  <2>2. CASE \E j \in DOMAIN t : i = sh(j)
    BY <1>4, <2>2
  <2> QED
    BY <1>6, <2>1, <2>2
<1>12. ASSUME \A j \in DOMAIN t : Stripped(t[j]) # OWN_HEADER, NEW i \in DOMAIN s
       PROVE  Stripped(s[i]) # OWN_HEADER
  <2>1. CASE i \in m..(m - 1 + d)
    <3>1. i - m + 1 \in 1..d /\ m - 1 + (i - m + 1) = i
      BY <1>0, <2>1
    <3>2. s[m - 1 + (i - m + 1)] = b[i - m + 1]
      BY <1>1, <3>1
    <3> QED
      BY <3>1, <3>2 DEF Solid, d
  <2>2. CASE \E j \in DOMAIN t : i = sh(j)
    BY <1>4, <1>12, <2>2
  <2> QED
    BY <1>6, <2>1, <2>2
<1>13. \A j \in DOMAIN t : Shift(j, m, d) \in DOMAIN s /\ s[Shift(j, m, d)] = t[j]
  BY <1>4
<1> HIDE DEF sh
<1>9. Blocks(s)
  <2> SUFFICES ASSUME NEW i \in DOMAIN s, Stripped(s[i]) \in BEGINS PROVE Closed(s, i)
    BY DEF Blocks
  <2>1. CASE i = m
    <3>1. m - 1 + d > m /\ (m - 1 + d) - 1 = m + d - 2
      BY <1>0
    <3> QED
      BY <1>2, <1>3, <1>7, <2>1, <3>1 DEF Closed
  <2>2. CASE i # m
    <3>1. PICK j \in DOMAIN t : i = sh(j) /\ Stripped(t[j]) \in BEGINS
      BY <1>8, <2>2
    <3>2. PICK k \in DOMAIN t : /\ k > j /\ Stripped(t[k]) = END
                                /\ \A x \in (j + 1)..(k - 1) : Stripped(t[x]) \notin BEGINS \cup {END}
      <4>1. Closed(t, j)
        BY <3>1 DEF Blocks
      <4> QED
        BY <4>1 DEF Closed
    <3>3. sh(k) \in DOMAIN s /\ sh(k) > i /\ Stripped(s[sh(k)]) = END
      BY <1>0, <1>4, <1>5, <3>1, <3>2
    <3>4. k < m \/ j >= m
      <4> SUFFICES ASSUME ~(k < m), ~(j >= m) PROVE FALSE
        OBVIOUS
      <4>1. j < m
        BY <1>0
      <4>2. PICK e \in (j + 1)..(m - 1) : Stripped(t[e]) = END
        BY <3>1, <4>1 DEF Outside
      <4>3. e \in (j + 1)..(k - 1)
        BY <1>0, <4>2
      <4> QED
        BY <3>2, <4>2, <4>3
    <3>5. ASSUME NEW x \in (i + 1)..(sh(k) - 1) PROVE Stripped(s[x]) \notin BEGINS \cup {END}
      <4>1. CASE k < m
        <5>1. sh(k) = k /\ i = j
          BY <1>0, <3>1, <3>2, <4>1 DEF sh, Shift
        <5>2. x \in (j + 1)..(k - 1) /\ x \in 1..(m - 1)
          BY <1>0, <4>1, <5>1
        <5> QED
          BY <1>1, <3>2, <5>2
      <4>2. CASE j >= m
        <5>1. sh(k) = k + d /\ i = j + d
          BY <1>0, <3>1, <3>2, <4>2 DEF sh, Shift
        <5>2. x - d \in (j + 1)..(k - 1) /\ x - d \in m..n /\ (x - d) + d = x
          BY <1>0, <4>2, <5>1
        <5>3. s[(x - d) + d] = t[x - d]
          BY <1>1, <5>2
        <5> QED
          BY <3>2, <5>2, <5>3
      <4> QED
        BY <3>4, <4>1, <4>2
    <3> QED
      BY <3>3, <3>5 DEF Closed
  <2> QED
    BY <2>1, <2>2
<1>10. ASSUME NEW a, Free(t, a) PROVE Free(s, sh(a))
  <2>1. a \in DOMAIN t /\ is_auth_line(t[a]) /\ Outside(t, a)
    BY <1>10 DEF Free
  <2>2. sh(a) \in DOMAIN s /\ is_auth_line(s[sh(a)])
    BY <1>4, <2>1
  <2>3. ASSUME NEW i \in DOMAIN s, i < sh(a), Stripped(s[i]) \in BEGINS
        PROVE  \E k \in (i + 1)..(sh(a) - 1) : Stripped(s[k]) = END
    <3>1. CASE i = m
      <4>1. m - 1 + d \in (i + 1)..(sh(a) - 1)
        BY <1>0, <2>1, <2>3, <3>1 DEF sh, Shift
      <4> QED
        BY <1>2, <1>3, <4>1
    <3>2. CASE i # m
      <4>1. PICK j \in DOMAIN t : i = sh(j) /\ Stripped(t[j]) \in BEGINS
        BY <1>8, <2>3, <3>2
      <4>2. j < a
        <5>1. a < j => sh(a) < sh(j)
          BY <1>0, <1>5, <2>1
        <5> QED
          BY <1>0, <1>4, <2>1, <2>3, <4>1, <5>1
      <4>3. PICK k \in (j + 1)..(a - 1) : Stripped(t[k]) = END
        BY <2>1, <4>1, <4>2 DEF Outside
      <4>4. k \in DOMAIN t /\ j < k /\ k < a
        BY <1>0, <2>1, <4>3
      <4>5. sh(k) \in (i + 1)..(sh(a) - 1)
        <5>1. sh(j) < sh(k) /\ sh(k) < sh(a) /\ sh(j) \in Nat /\ sh(k) \in Nat /\ sh(a) \in Nat
          BY <1>0, <1>4, <1>5, <2>1, <4>4
        <5> QED
          BY <4>1, <5>1
      <4> QED
        BY <1>4, <4>3, <4>4, <4>5
    <3> QED
      BY <3>1, <3>2
  <2>4. Outside(s, sh(a))
    BY <2>3 DEF Outside
  <2> QED
    BY <2>2, <2>4 DEF Free
<1>11. Stripped(s[m]) = w
  BY <1>2, <1>3
<1> QED
  BY <1>1, <1>3, <1>8, <1>9, <1>10, <1>11, <1>12, <1>13 DEF s, sh, d, Spliced

\* A line that neither opens nor closes a block and is not kde-face's header.
Unmarked == {l \in LINE : Stripped(l) \notin BEGINS \cup {END, OWN_HEADER}}

\* A line that is no comment is no marker.
LEMMA TypeUnmarked ==
  ASSUME NEW l \in LINE, l.type # "#"
  PROVE  l \in Unmarked
<1>1. Stripped(l).type = l.type
  BY StrippedIs
<1>2. BEGIN.type = "#" /\ WALLET_BEGIN.type = "#" /\ END.type = "#" /\ OWN_HEADER.type = "#"
  BY DEF BEGIN, WALLET_BEGIN, END, OWN_HEADER, Line
<1> QED
  BY <1>1, <1>2 DEF BEGINS, Unmarked

\* kde-face's header is no marker.
LEMMA HeaderIs ==
  /\ OWN_HEADER \in LINE
  /\ OWN_HEADER \notin BEGINS /\ OWN_HEADER # END
  /\ Stripped(OWN_HEADER) = OWN_HEADER
<1>1. {"", "#", "OWN_HEADER"} \subseteq WORD
  BY WordAssumption DEF OUR_WORDS
<1>2. OWN_HEADER \in LINE
  BY <1>1, LineIs DEF OWN_HEADER
<1>3. OWN_HEADER.mod = "OWN_HEADER" /\ OWN_HEADER.nl = TRUE
  BY DEF OWN_HEADER, Line
<1>4. BEGIN.mod = "BEGIN" /\ WALLET_BEGIN.mod = "WALLET_BEGIN" /\ END.mod = "END"
  BY DEF BEGIN, WALLET_BEGIN, END, Line
<1>5. Stripped(OWN_HEADER) = OWN_HEADER
  BY <1>2, <1>3 DEF Stripped, LINE
<1> QED
  BY <1>2, <1>3, <1>4, <1>5 DEF BEGINS

\* The lines we insert are no markers.
LEMMA OurLines ==
  /\ INSERT_LINE \in Unmarked /\ LOGIN_INSERT_LINE \in Unmarked
  /\ WALLET_HOLD_LINE \in Unmarked /\ WALLET_REMEMBER_LINE \in Unmarked
  /\ WALLET_RELEASE_LINE \in Unmarked
  /\ GATE \subseteq Unmarked
<1>1. OUR_WORDS \subseteq WORD
  BY WordAssumption
<1>2. /\ "auth" \in WORD /\ "-auth" \in WORD /\ "-session" \in WORD /\ "optional" \in WORD
      /\ "success=done" \in WORD /\ "success=done auth_err=die" \in WORD
      /\ MODULE_SO \in WORD /\ "" \in WORD /\ "remember_password" \in WORD /\ "kwallet" \in WORD
  BY <1>1 DEF OUR_WORDS, MODULE_SO
<1>3. INSERT_LINE \in LINE /\ INSERT_LINE.type = "auth"
  BY <1>2 DEF INSERT_LINE, MODULE_SO, Line, LINE
<1>4. LOGIN_INSERT_LINE \in LINE /\ LOGIN_INSERT_LINE.type = "auth"
  BY <1>2 DEF LOGIN_INSERT_LINE, MODULE_SO, Line, LINE
<1>5. WALLET_HOLD_LINE \in LINE /\ WALLET_HOLD_LINE.type = "-auth"
  BY <1>2 DEF WALLET_HOLD_LINE, MODULE_SO, Line, LINE
<1>6. WALLET_REMEMBER_LINE \in LINE /\ WALLET_REMEMBER_LINE.type = "-session"
  BY <1>2 DEF WALLET_REMEMBER_LINE, MODULE_SO, Line, LINE
<1>7. WALLET_RELEASE_LINE \in LINE /\ WALLET_RELEASE_LINE.type = "-auth"
  BY <1>2 DEF WALLET_RELEASE_LINE, MODULE_SO, Line, LINE
<1>8. GATE \subseteq Unmarked
  BY TypeUnmarked DEF GATE
<1> QED
  BY <1>3, <1>4, <1>5, <1>6, <1>7, <1>8, TypeUnmarked

\* A block of such lines is closed in itself.
LEMMA BlockSolid ==
  ASSUME NEW w \in BEGINS, NEW q \in Seq(Unmarked)
  PROVE  Solid(Block(w, q), w)
<1>1. q \in Seq(LINE) /\ Len(q) \in Nat /\ \A i \in 1..Len(q) : q[i] \in Unmarked
  BY DEF Unmarked
<1>2. w \in LINE /\ END \in LINE /\ Stripped(w) = w /\ Stripped(END) = END /\ w # END
  BY Marks
<1> DEFINE c == <<w>> \o q
           b == c \o <<END>>
           n == Len(q)
<1>3. c \in Seq(LINE) /\ Len(c) = n + 1 /\ c[1] = w /\ \A i \in 2..(n + 1) : c[i] = q[i - 1]
  BY <1>1, <1>2
<1> HIDE DEF c
<1>4. b \in Seq(LINE) /\ Len(b) = Len(c) + 1 /\ b[Len(c) + 1] = END
      /\ \A i \in 1..Len(c) : b[i] = c[i]
  <2>1. c \in Seq(LINE) /\ END \in LINE
    BY <1>2, <1>3
  <2> QED
    BY <2>1
<1> HIDE DEF b
<1>5. n \in Nat /\ Len(b) = n + 2 /\ b[n + 2] = END /\ b[1] = w
  BY <1>1, <1>3, <1>4
<1>6. \A i \in 2..(n + 1) : b[i] \in Unmarked
  <2> TAKE i \in 2..(n + 1)
  <2>1. i - 1 \in 1..n /\ i \in 1..Len(c)
    BY <1>1, <1>3
  <2>2. b[i] = q[i - 1]
    BY <1>3, <1>4, <2>1
  <2> QED
    BY <1>1, <2>1, <2>2
<1>7. \A i \in 1..Len(b) : Stripped(b[i]) # OWN_HEADER
  <2> TAKE i \in 1..Len(b)
  <2>1. i = 1 \/ i = n + 2 \/ i \in 2..(n + 1)
    BY <1>5
  <2>2. w # OWN_HEADER /\ END # OWN_HEADER
    BY HeaderIs
  <2> QED
    BY <1>2, <1>5, <1>6, <2>1, <2>2 DEF Unmarked
<1>8. \A i \in 2..(Len(b) - 1) : Stripped(b[i]) \notin BEGINS \cup {END}
  <2> TAKE i \in 2..(Len(b) - 1)
  <2>1. i \in 2..(n + 1)
    BY <1>5
  <2> QED
    BY <1>6, <2>1 DEF Unmarked
<1>9. Len(b) >= 2 /\ Stripped(b[1]) = w /\ Stripped(b[Len(b)]) = END
  BY <1>2, <1>5
<1>10. Solid(b, w)
  BY <1>4, <1>7, <1>8, <1>9 DEF Solid
<1> QED
  BY <1>10 DEF b, c, Block

\* A text that shows the same lines, but for their ends, is laid out alike.
LEMMA Alike ==
  ASSUME NEW t, Laid(t), NEW u \in Seq(LINE), Len(u) = Len(t),
         \A i \in DOMAIN t : Stripped(u[i]) = Stripped(t[i]) /\ (is_auth_line(u[i]) <=> is_auth_line(t[i]))
  PROVE  Laid(u)
<1>0. t \in Seq(LINE) /\ DOMAIN t = 1..Len(t) /\ DOMAIN u = DOMAIN t /\ Len(t) \in Nat
  BY DEF Laid
<1>1. \A a \in DOMAIN t : Outside(t, a) => Outside(u, a)
  <2> TAKE a \in DOMAIN t
  <2> HAVE Outside(t, a)
  <2> SUFFICES ASSUME NEW i \in DOMAIN u, i < a, Stripped(u[i]) \in BEGINS
               PROVE  \E k \in (i + 1)..(a - 1) : Stripped(u[k]) = END
    BY DEF Outside
  <2>1. PICK k \in (i + 1)..(a - 1) : Stripped(t[k]) = END
    BY <1>0 DEF Outside
  <2>2. k \in DOMAIN t
    BY <1>0
  <2> QED
    BY <2>1, <2>2
<1>2. \A a \in DOMAIN t : Free(t, a) => Free(u, a)
  BY <1>0, <1>1 DEF Free
<1>3. Blocks(u)
  <2> SUFFICES ASSUME NEW i \in DOMAIN u, Stripped(u[i]) \in BEGINS PROVE Closed(u, i)
    BY DEF Blocks
  <2>1. Closed(t, i)
    BY <1>0 DEF Laid, Blocks
  <2>2. PICK k \in DOMAIN t : /\ k > i /\ Stripped(t[k]) = END
                              /\ \A m \in (i + 1)..(k - 1) : Stripped(t[m]) \notin BEGINS \cup {END}
    BY <2>1 DEF Closed
  <2>3. \A m \in (i + 1)..(k - 1) : m \in DOMAIN t
    BY <1>0
  <2> QED
    BY <1>0, <2>2, <2>3 DEF Closed
<1>4. \A i \in DOMAIN u : Stripped(u[i]) = BEGIN => \E a \in DOMAIN u : Free(u, a) /\ a > i
  BY <1>0, <1>2 DEF Laid
<1>5. \A i \in DOMAIN u : Stripped(u[i]) = WALLET_BEGIN => \E a \in DOMAIN u : Free(u, a) /\ a < i
  BY <1>0, <1>2 DEF Laid
<1>6. \A i \in DOMAIN u : Stripped(u[i]) # OWN_HEADER
  BY <1>0 DEF Laid
<1> QED
  BY <1>3, <1>4, <1>5, <1>6 DEF Laid

\* The newline at a text's end makes no difference to what is looked at.
LEMMA EndedIs ==
  ASSUME NEW t \in Seq(LINE)
  PROVE  /\ Ended(t) \in Seq(LINE) /\ Len(Ended(t)) = Len(t)
         /\ \A i \in DOMAIN t : /\ Stripped(Ended(t)[i]) = Stripped(t[i])
                                /\ is_auth_line(Ended(t)[i]) <=> is_auth_line(t[i])
<1>1. CASE t = <<>>
  BY <1>1 DEF Ended
<1>2. CASE t # <<>>
  <2> DEFINE n == Len(t)
             l == [t[n] EXCEPT !.nl = TRUE]
             u == [t EXCEPT ![n] = l]
  <2>1. n \in DOMAIN t /\ t[n] \in LINE /\ DOMAIN t = 1..n /\ n \in Nat
    BY <1>2
  <2>2. l = Stripped(t[n])
    BY DEF Stripped
  <2> HIDE DEF l
  <2>3. l \in LINE /\ l.type = t[n].type /\ l.mod = t[n].mod /\ l.nl = TRUE
    BY <2>1, <2>2, StrippedIs
  <2>4. Stripped(l) = l
    BY <2>3 DEF Stripped, LINE
  <2>5. is_auth_line(l) <=> is_auth_line(t[n])
    BY <2>3 DEF is_auth_line, Kind, module_of
  <2>6. Ended(t) = u
    BY <1>2 DEF Ended, l
  <2>7. u \in Seq(LINE) /\ Len(u) = n /\ u[n] = l /\ \A i \in DOMAIN t : i # n => u[i] = t[i]
    BY <2>1, <2>3
  <2> HIDE DEF u, n
  <2> QED
    BY <2>1, <2>2, <2>4, <2>5, <2>6, <2>7 DEF n
<1> QED
  BY <1>1, <1>2

\* It makes none to the layout.
LEMMA EndedLaid ==
  ASSUME NEW t, Laid(t)
  PROVE  /\ Laid(Ended(t)) /\ Len(Ended(t)) = Len(t) /\ DOMAIN Ended(t) = DOMAIN t
         /\ AuthIndexes(Ended(t)) = AuthIndexes(t)
         /\ \A w : has_block(Ended(t), w) <=> has_block(t, w)
<1>0. t \in Seq(LINE)
  BY DEF Laid
<1>1. /\ Ended(t) \in Seq(LINE) /\ Len(Ended(t)) = Len(t)
      /\ \A i \in DOMAIN t : /\ Stripped(Ended(t)[i]) = Stripped(t[i])
                             /\ is_auth_line(Ended(t)[i]) <=> is_auth_line(t[i])
  BY <1>0, EndedIs
<1>2. DOMAIN Ended(t) = DOMAIN t
  BY <1>0, <1>1
<1>3. Laid(Ended(t))
  BY <1>1, Alike
<1>4. AuthIndexes(Ended(t)) = AuthIndexes(t)
  BY <1>1, <1>2 DEF AuthIndexes
<1>5. \A w : has_block(Ended(t), w) <=> has_block(t, w)
  BY <1>1, <1>2 DEF has_block
<1> QED
  BY <1>1, <1>2, <1>3, <1>4, <1>5

\* A text without markers is laid out whatever else it holds.
LEMMA PlainLaid ==
  ASSUME NEW t \in Seq(LINE), \A i \in DOMAIN t : Stripped(t[i]) \notin BEGINS \cup {OWN_HEADER}
  PROVE  Laid(t)
<1>1. BEGIN \in BEGINS /\ WALLET_BEGIN \in BEGINS
  BY DEF BEGINS
<1> QED
  BY <1>1 DEF Laid, Blocks

\* A block put where none is open, with an auth line of its own on the right
\* side of it, leaves a text laid out.
LEMMA SpliceLaid ==
  ASSUME NEW t, Laid(t), NEW b, NEW w, Solid(b, w), NEW m \in 1..(Len(t) + 1), Outside(t, m),
         w = BEGIN => \E a \in DOMAIN t : Free(t, a) /\ a >= m,
         w = WALLET_BEGIN => \E a \in DOMAIN t : Free(t, a) /\ a < m
  PROVE  LET s == Splice(t, m, b)
         IN  /\ Laid(s) /\ has_block(s, w)
             /\ \A v : has_block(t, v) => has_block(s, v)
             /\ \A a \in DOMAIN t : Free(t, a) => Free(s, Shift(a, m, Len(b)))
<1> DEFINE s == Splice(t, m, b)
           d == Len(b)
<1>0. t \in Seq(LINE) /\ Blocks(t) /\ d \in Nat /\ d >= 2 /\ Len(t) \in Nat /\ DOMAIN t = 1..Len(t)
  BY DEF Laid, Solid
<1>1. /\ s \in Seq(LINE) /\ Blocks(s)
      /\ m \in DOMAIN s /\ Stripped(s[m]) = w
      /\ \A i \in DOMAIN s : Stripped(s[i]) \in BEGINS =>
           \/ i = m
           \/ \E j \in DOMAIN t : i = Shift(j, m, d) /\ Stripped(t[j]) = Stripped(s[i])
      /\ \A a : Free(t, a) => Free(s, Shift(a, m, d))
      /\ \A j \in DOMAIN t : Shift(j, m, d) \in DOMAIN s /\ s[Shift(j, m, d)] = t[j]
      /\ (\A j \in DOMAIN t : Stripped(t[j]) # OWN_HEADER)
         => \A i \in DOMAIN s : Stripped(s[i]) # OWN_HEADER
  <2>1. Spliced(t, m, b, w, Splice(t, m, b))
    BY <1>0, SpliceBlocks
  <2> QED
    BY <2>1, Zenon DEF Spliced
<1> HIDE DEF s, d
<1>2. \A i \in DOMAIN s : Stripped(s[i]) \in BEGINS =>
        \/ i = m
        \/ \E j \in DOMAIN t : i = Shift(j, m, d) /\ Stripped(t[j]) = Stripped(s[i])
  BY <1>1
<1>3. \A a \in DOMAIN t : Free(t, a) => Free(s, Shift(a, m, d))
  BY <1>1
<1>4. \A j \in DOMAIN t : Shift(j, m, d) \in DOMAIN s /\ s[Shift(j, m, d)] = t[j]
  BY <1>1
<1>5. \A i \in DOMAIN s : Stripped(s[i]) # OWN_HEADER
  BY <1>1 DEF Laid
<1>6. \A a, j \in DOMAIN t : /\ a < j => Shift(a, m, d) < Shift(j, m, d)
                             /\ a >= m => Shift(a, m, d) > m
                             /\ a < m => Shift(a, m, d) < m
  BY <1>0 DEF Shift
<1>7. BEGIN \in BEGINS /\ WALLET_BEGIN \in BEGINS
  BY DEF BEGINS
<1>8. ASSUME NEW i \in DOMAIN s, Stripped(s[i]) = BEGIN
      PROVE  \E a \in DOMAIN s : Free(s, a) /\ a > i
  <2>1. CASE i = m
    <3>1. PICK a \in DOMAIN t : Free(t, a) /\ a >= m
      BY <1>1, <1>8, <2>1
    <3> QED
      BY <1>3, <1>4, <1>6, <2>1, <3>1
  <2>2. CASE i # m
    <3>1. PICK j \in DOMAIN t : i = Shift(j, m, d) /\ Stripped(t[j]) = BEGIN
      BY <1>2, <1>7, <1>8, <2>2
    <3>2. PICK a \in DOMAIN t : Free(t, a) /\ a > j
      BY <3>1 DEF Laid
    <3>3. j < a
      BY <1>0, <3>2
    <3>4. Shift(j, m, d) < Shift(a, m, d) /\ Shift(a, m, d) \in DOMAIN s /\ Free(s, Shift(a, m, d))
      BY <1>3, <1>4, <1>6, <3>2, <3>3
    <3>5. i \in Nat /\ Shift(a, m, d) \in Nat
      BY <1>1, <3>4
    <3> QED
      BY <3>1, <3>4, <3>5
  <2> QED
    BY <2>1, <2>2
<1>9. ASSUME NEW i \in DOMAIN s, Stripped(s[i]) = WALLET_BEGIN
      PROVE  \E a \in DOMAIN s : Free(s, a) /\ a < i
  <2>1. CASE i = m
    <3>1. PICK a \in DOMAIN t : Free(t, a) /\ a < m
      BY <1>1, <1>9, <2>1
    <3> QED
      BY <1>3, <1>4, <1>6, <2>1, <3>1
  <2>2. CASE i # m
    <3>1. PICK j \in DOMAIN t : i = Shift(j, m, d) /\ Stripped(t[j]) = WALLET_BEGIN
      BY <1>2, <1>7, <1>9, <2>2
    <3>2. PICK a \in DOMAIN t : Free(t, a) /\ a < j
      BY <3>1 DEF Laid
    <3> QED
      BY <1>3, <1>4, <1>6, <3>1, <3>2
  <2> QED
    BY <2>1, <2>2
<1>10. Laid(s)
  BY <1>1, <1>5, <1>8, <1>9 DEF Laid
<1>11. has_block(s, w)
  BY <1>1 DEF has_block
<1>12. \A v : has_block(t, v) => has_block(s, v)
  BY <1>4 DEF has_block
<1> QED
  BY <1>3, <1>10, <1>11, <1>12 DEF s, d

\* insert_block goes ahead of every line for auth, also ahead of KWallet's.
LEMMA InsertLaid ==
  ASSUME NEW t, Laid(t), ~has_block(t, BEGIN), CanInsert(t),
         NEW g \in Seq(GATE), NEW l \in Unmarked
  PROVE  LET s == insert_block(t, g, l)
         IN  Laid(s) /\ \A v : has_block(t, v) => has_block(s, v)
<1> DEFINE u == Ended(t)
           A == AuthIndexes(t)
           m == Min(A)
           b == Block(BEGIN, Append(g, l))
<1>0. Laid(u) /\ DOMAIN u = DOMAIN t /\ AuthIndexes(u) = A /\ \A w : has_block(u, w) <=> has_block(t, w)
  BY EndedLaid
<1>1. t \in Seq(LINE) /\ u \in Seq(LINE) /\ DOMAIN t = 1..Len(t) /\ Len(t) \in Nat /\ Len(u) = Len(t)
  BY <1>0, EndedLaid DEF Laid
<1>2. A \in SUBSET Nat /\ A # {} /\ A \subseteq DOMAIN t
  BY <1>1 DEF AuthIndexes, CanInsert
<1> HIDE DEF A
<1>3. m \in A /\ \A y \in A : m <= y
  BY <1>2, MinIs
<1>4. Solid(b, BEGIN)
  <2>1. g \in Seq(Unmarked)
    BY OurLines
  <2>2. Append(g, l) \in Seq(Unmarked)
    BY <2>1
  <2>3. BEGIN \in BEGINS
    BY DEF BEGINS
  <2> QED
    BY <2>2, <2>3, BlockSolid
<1>5. m \in DOMAIN u /\ m \in 1..(Len(u) + 1) /\ m \in Nat /\ is_auth_line(u[m])
  BY <1>0, <1>1, <1>2, <1>3 DEF AuthIndexes
<1> HIDE DEF u, m, b
<1>6. Outside(u, m)
  <2> SUFFICES ASSUME NEW i \in DOMAIN u, i < m, Stripped(u[i]) \in BEGINS PROVE FALSE
    BY DEF Outside
  <2>1. Stripped(u[i]) = WALLET_BEGIN
    BY <1>0 DEF BEGINS, has_block
  <2>2. PICK a \in DOMAIN u : Free(u, a) /\ a < i
    BY <1>0, <2>1 DEF Laid
  <2>3. a \in A
    BY <1>0, <2>2 DEF Free, AuthIndexes
  <2>4. a \in Nat /\ i \in Nat
    BY <1>0, <1>1
  <2> QED
    BY <1>3, <1>5, <2>2, <2>3, <2>4
<1>7. Free(u, m) /\ m >= m
  BY <1>5, <1>6 DEF Free
<1>8. BEGIN # WALLET_BEGIN
  BY Marks
<1>9. Laid(Splice(u, m, b)) /\ \A v : has_block(u, v) => has_block(Splice(u, m, b), v)
  BY <1>0, <1>4, <1>5, <1>6, <1>7, <1>8, SpliceLaid
<1>10. insert_block(t, g, l) = Splice(u, m, b)
  BY DEF insert_block, u, m, b, A
<1> QED
  BY <1>0, <1>9, <1>10

\* Behind its last line every block of a text has been closed.
LEMMA EndOutside ==
  ASSUME NEW t, Laid(t)
  PROVE  Outside(t, Len(t) + 1)
<1>1. t \in Seq(LINE) /\ DOMAIN t = 1..Len(t) /\ Len(t) \in Nat
  BY DEF Laid
<1> SUFFICES ASSUME NEW i \in DOMAIN t, Stripped(t[i]) \in BEGINS
             PROVE  \E k \in (i + 1)..((Len(t) + 1) - 1) : Stripped(t[k]) = END
  BY DEF Outside
<1>2. Closed(t, i)
  BY DEF Laid, Blocks
<1>3. PICK k \in DOMAIN t : k > i /\ Stripped(t[k]) = END
  BY <1>2 DEF Closed
<1> QED
  BY <1>1, <1>3

\* A block put in behind the last line is appended.
LEMMA SpliceAtEnd ==
  ASSUME NEW t \in Seq(LINE), NEW b \in Seq(LINE)
  PROVE  Splice(t, Len(t) + 1, b) = t \o b
<1>1. SubSeq(t, 1, (Len(t) + 1) - 1) = t
  OBVIOUS
<1>2. SubSeq(t, Len(t) + 1, Len(t)) = <<>>
  OBVIOUS
<1>3. (t \o b) \o <<>> = t \o b
  OBVIOUS
<1>4. Splice(t, Len(t) + 1, b) = (SubSeq(t, 1, (Len(t) + 1) - 1) \o b) \o SubSeq(t, Len(t) + 1, Len(t))
  BY Zenon DEF Splice
<1> QED
  BY <1>1, <1>2, <1>3, <1>4, Zenon

\* KWallet's lines of the login go behind every line for auth.
LEMMA RememberLaid ==
  ASSUME NEW t, Laid(t), ~has_block(t, WALLET_BEGIN), CanInsert(t)
  PROVE  LET s == insert_wallet_remember(t)
         IN  Laid(s) /\ has_block(s, WALLET_BEGIN)
<1> DEFINE u == Ended(t)
           A == AuthIndexes(t)
           m == Max(A)
           hold == Block(WALLET_BEGIN, <<WALLET_HOLD_LINE>>)
           remember == Block(WALLET_BEGIN, <<WALLET_REMEMBER_LINE>>)
           s == Splice(u, m + 1, hold)
<1>0. Laid(u) /\ DOMAIN u = DOMAIN t /\ AuthIndexes(u) = A /\ \A w : has_block(u, w) <=> has_block(t, w)
  BY EndedLaid
<1>1. t \in Seq(LINE) /\ u \in Seq(LINE) /\ DOMAIN t = 1..Len(t) /\ Len(t) \in Nat /\ Len(u) = Len(t)
  BY <1>0, EndedLaid DEF Laid
<1>2. A \in SUBSET (1..Len(t)) /\ A # {} /\ A \subseteq DOMAIN t
  BY <1>1 DEF AuthIndexes, CanInsert
<1> HIDE DEF A
<1>3. m \in A /\ \A y \in A : y <= m
  BY <1>1, <1>2, MaxIs
<1>4. Solid(hold, WALLET_BEGIN) /\ Solid(remember, WALLET_BEGIN)
  <2>1. WALLET_BEGIN \in BEGINS
    BY DEF BEGINS
  <2>2. <<WALLET_HOLD_LINE>> \in Seq(Unmarked) /\ <<WALLET_REMEMBER_LINE>> \in Seq(Unmarked)
    BY OurLines
  <2> QED
    BY <2>1, <2>2, BlockSolid
<1>5. m \in DOMAIN u /\ m + 1 \in 1..(Len(u) + 1) /\ m \in Nat /\ is_auth_line(u[m])
  BY <1>0, <1>1, <1>2, <1>3 DEF AuthIndexes
<1>11. insert_wallet_remember(t) = s \o remember
  BY DEF insert_wallet_remember, s, m, A
<1> HIDE DEF u, m, hold, remember
<1>6. \A i \in DOMAIN u : i < m + 1 /\ Stripped(u[i]) \in BEGINS =>
         \E k \in (i + 1)..(m - 1) : Stripped(u[k]) = END
  <2> TAKE i \in DOMAIN u
  <2> HAVE i < m + 1 /\ Stripped(u[i]) \in BEGINS
  <2>1. Stripped(u[i]) = BEGIN
    BY <1>0 DEF BEGINS, has_block
  <2>2. PICK a \in DOMAIN u : Free(u, a) /\ a > i
    BY <1>0, <2>1 DEF Laid
  <2>3. a \in A
    BY <1>0, <2>2 DEF Free, AuthIndexes
  <2>4. PICK k \in (i + 1)..(a - 1) : Stripped(u[k]) = END
    <3>1. i < a
      BY <1>0, <1>1, <2>2
    <3> QED
      BY <2>2, <3>1 DEF Free, Outside
  <2>5. k \in (i + 1)..(m - 1)
    BY <1>0, <1>1, <1>3, <1>5, <2>3, <2>4
  <2> QED
    BY <2>4, <2>5
<1>7. Outside(u, m) /\ Outside(u, m + 1)
  <2>1. \A i \in DOMAIN u : i \in Nat
    BY <1>0, <1>1
  <2>2. \A i \in Nat : i < m => i < m + 1
    BY <1>5
  <2>3. \A i \in Nat : \A k \in (i + 1)..(m - 1) : k \in (i + 1)..((m + 1) - 1)
    BY <1>5
  <2>4. ASSUME NEW i \in DOMAIN u, i < m, Stripped(u[i]) \in BEGINS
        PROVE  \E k \in (i + 1)..(m - 1) : Stripped(u[k]) = END
    BY <1>6, <2>1, <2>2, <2>4
  <2>5. ASSUME NEW i \in DOMAIN u, i < m + 1, Stripped(u[i]) \in BEGINS
        PROVE  \E k \in (i + 1)..((m + 1) - 1) : Stripped(u[k]) = END
    BY <1>6, <2>1, <2>3, <2>5
  <2>6. Outside(u, m)
    BY <2>4, Zenon DEF Outside
  <2>7. Outside(u, m + 1)
    BY <2>5, Zenon DEF Outside
  <2> QED
    BY <2>6, <2>7
<1>8. Free(u, m) /\ m < m + 1
  BY <1>5, <1>7 DEF Free
<1>9. BEGIN # WALLET_BEGIN
  BY Marks
<1>10. Laid(s) /\ has_block(s, WALLET_BEGIN) /\ Free(s, m)
  <2>1. Laid(s) /\ has_block(s, WALLET_BEGIN) /\ Free(s, Shift(m, m + 1, Len(hold)))
    BY <1>0, <1>4, <1>5, <1>7, <1>8, <1>9, SpliceLaid
  <2>2. Shift(m, m + 1, Len(hold)) = m
    BY <1>8 DEF Shift
  <2> QED
    BY <2>1, <2>2
<1> HIDE DEF s
<1>12. s \in Seq(LINE) /\ remember \in Seq(LINE) /\ Len(s) \in Nat /\ m \in DOMAIN s /\ m < Len(s) + 1
  <2>1. s \in Seq(LINE) /\ remember \in Seq(LINE) /\ m \in DOMAIN s
    BY <1>4, <1>10 DEF Laid, Solid, Free
  <2> QED
    BY <2>1
<1>13. Outside(s, Len(s) + 1) /\ Len(s) + 1 \in 1..(Len(s) + 1)
  BY <1>10, <1>12, EndOutside
<1>14. Laid(Splice(s, Len(s) + 1, remember)) /\ has_block(Splice(s, Len(s) + 1, remember), WALLET_BEGIN)
  BY <1>4, <1>9, <1>10, <1>12, <1>13, SpliceLaid
<1>15. Splice(s, Len(s) + 1, remember) = s \o remember
  BY <1>12, SpliceAtEnd
<1> QED
  BY <1>11, <1>14, <1>15

\* KWallet's lines of the automatic login.
LEMMA ReleaseHas ==
  ASSUME NEW t \in Seq(LINE), CanInsert(t)
  PROVE  LET s == insert_wallet_release(t)
         IN  s \in Seq(LINE) /\ has_block(s, WALLET_BEGIN)
<1> DEFINE m == Min(AuthIndexes(t))
           b == Block(WALLET_BEGIN, <<WALLET_RELEASE_LINE>>)
<1>1. CASE has_block(t, WALLET_BEGIN)
  BY <1>1 DEF insert_wallet_release
<1>2. CASE ~has_block(t, WALLET_BEGIN)
  <2>1. DOMAIN t = 1..Len(t) /\ Len(t) \in Nat
    OBVIOUS
  <2>2. AuthIndexes(t) \in SUBSET Nat /\ AuthIndexes(t) # {} /\ AuthIndexes(t) \subseteq 1..Len(t)
    BY <2>1 DEF AuthIndexes, CanInsert
  <2>3. m \in AuthIndexes(t)
    BY <2>2, MinIs
  <2>4. Solid(b, WALLET_BEGIN)
    <3>1. WALLET_BEGIN \in BEGINS
      BY DEF BEGINS
    <3>2. <<WALLET_RELEASE_LINE>> \in Seq(Unmarked)
      BY OurLines
    <3> QED
      BY <3>1, <3>2, BlockSolid
  <2>5. insert_wallet_release(t) = Splice(t, m, b)
    BY <1>2 DEF insert_wallet_release
  <2> HIDE DEF m, b
  <2>6. m \in 1..(Len(t) + 1) /\ m \in 1..Len(t)
    BY <2>1, <2>2, <2>3
  <2>7. b \in Seq(LINE) /\ Len(b) >= 2 /\ Stripped(b[1]) = WALLET_BEGIN /\ Len(b) \in Nat
    BY <2>4 DEF Solid
  <2> DEFINE s == Splice(t, m, b)
  <2>8. s \in Seq(LINE) /\ Len(s) = Len(t) + Len(b) /\ \A i \in 1..Len(b) : s[m - 1 + i] = b[i]
    BY <2>6, <2>7, SpliceIs
  <2> HIDE DEF s
  <2>9. s[m - 1 + 1] = b[1] /\ m - 1 + 1 = m /\ m \in DOMAIN s
    BY <2>1, <2>6, <2>7, <2>8
  <2> QED
    BY <2>5, <2>7, <2>8, <2>9 DEF has_block, s
<1> QED
  BY <1>1, <1>2

\* A line at the end that is no begin marker leaves a text laid out.
LEMMA AppendLaid ==
  ASSUME NEW t, Laid(t), NEW l \in LINE, Stripped(l) \notin BEGINS \cup {OWN_HEADER}
  PROVE  Laid(Append(t, l))
<1> DEFINE u == Append(t, l)
           n == Len(t)
<1>0. t \in Seq(LINE) /\ DOMAIN t = 1..n /\ n \in Nat
  BY DEF Laid
<1>1. u \in Seq(LINE) /\ DOMAIN u = 1..(n + 1) /\ u[n + 1] = l /\ \A i \in 1..n : u[i] = t[i]
  BY <1>0
<1>2. \A i \in DOMAIN u : i = n + 1 \/ i \in DOMAIN t
  BY <1>0, <1>1
<1> HIDE DEF u, n
<1>3. \A i \in DOMAIN t : i \in DOMAIN u /\ u[i] = t[i]
  BY <1>0, <1>1
<1>4. \A i \in DOMAIN u : Stripped(u[i]) \in BEGINS \cup {OWN_HEADER} => i \in DOMAIN t
  BY <1>1, <1>2
<1>5. \A a \in DOMAIN t : Free(t, a) => Free(u, a)
  <2> TAKE a \in DOMAIN t
  <2> HAVE Free(t, a)
  <2>1. ASSUME NEW i \in DOMAIN u, i < a, Stripped(u[i]) \in BEGINS
        PROVE  \E k \in (i + 1)..(a - 1) : Stripped(u[k]) = END
    <3>1. i \in DOMAIN t /\ Stripped(t[i]) \in BEGINS
      BY <1>3, <1>4, <2>1
    <3>2. PICK k \in (i + 1)..(a - 1) : Stripped(t[k]) = END
      BY <2>1, <3>1 DEF Free, Outside
    <3>3. k \in DOMAIN t
      BY <1>0, <3>1
    <3> QED
      BY <1>3, <3>2, <3>3
  <2>2. Outside(u, a)
    BY <2>1 DEF Outside
  <2> QED
    BY <1>3, <2>2 DEF Free
<1>6. Blocks(u)
  <2> SUFFICES ASSUME NEW i \in DOMAIN u, Stripped(u[i]) \in BEGINS PROVE Closed(u, i)
    BY DEF Blocks
  <2>1. i \in DOMAIN t /\ Stripped(t[i]) \in BEGINS
    BY <1>3, <1>4
  <2>2. Closed(t, i)
    BY <2>1 DEF Laid, Blocks
  <2>3. PICK k \in DOMAIN t : /\ k > i /\ Stripped(t[k]) = END
                              /\ \A m \in (i + 1)..(k - 1) : Stripped(t[m]) \notin BEGINS \cup {END}
    BY <2>2 DEF Closed
  <2>4. \A m \in (i + 1)..(k - 1) : m \in DOMAIN t
    BY <1>0, <2>1
  <2> QED
    BY <1>3, <2>3, <2>4 DEF Closed
<1>7. BEGIN \in BEGINS /\ WALLET_BEGIN \in BEGINS
  BY DEF BEGINS
<1>8. \A i \in DOMAIN u : Stripped(u[i]) = BEGIN => \E a \in DOMAIN u : Free(u, a) /\ a > i
  <2> TAKE i \in DOMAIN u
  <2> HAVE Stripped(u[i]) = BEGIN
  <2>1. i \in DOMAIN t /\ Stripped(t[i]) = BEGIN
    BY <1>3, <1>4, <1>7
  <2>2. PICK a \in DOMAIN t : Free(t, a) /\ a > i
    BY <2>1 DEF Laid
  <2> QED
    BY <1>3, <1>5, <2>2
<1>9. \A i \in DOMAIN u : Stripped(u[i]) = WALLET_BEGIN => \E a \in DOMAIN u : Free(u, a) /\ a < i
  <2> TAKE i \in DOMAIN u
  <2> HAVE Stripped(u[i]) = WALLET_BEGIN
  <2>1. i \in DOMAIN t /\ Stripped(t[i]) = WALLET_BEGIN
    BY <1>3, <1>4, <1>7
  <2>2. PICK a \in DOMAIN t : Free(t, a) /\ a < i
    BY <2>1 DEF Laid
  <2> QED
    BY <1>3, <1>5, <2>2
<1>10. \A i \in DOMAIN u : Stripped(u[i]) # OWN_HEADER
  BY <1>3, <1>4 DEF Laid
<1>11. Laid(u)
  BY <1>1, <1>6, <1>8, <1>9, <1>10 DEF Laid
<1> QED
  BY <1>11 DEF u

\* A line added at the end takes no marker away.
LEMMA AppendHas ==
  ASSUME NEW t \in Seq(LINE), NEW l \in LINE, NEW w, has_block(t, w)
  PROVE  Append(t, l) \in Seq(LINE) /\ has_block(Append(t, l), w)
<1>1. PICK i \in DOMAIN t : Stripped(t[i]) = w
  BY DEF has_block
<1>2. Append(t, l) \in Seq(LINE) /\ i \in DOMAIN Append(t, l) /\ Append(t, l)[i] = t[i]
  OBVIOUS
<1> QED
  BY <1>1, <1>2 DEF has_block

\* The two stacks KWallet's lines are in.
LOGIN == "plasmalogin"

\* The automatic login's stack.
AUTOLOGIN == "plasmalogin-autologin"

\* The drop-in of these files comes with both of KWallet's blocks, unless (b) an
\* enable that failed after it wrote the drop-in has left it.
Guarded(f, b) ==
  f[DROPIN] # NoFile /\ ~b => has_block(f[LOGIN], WALLET_BEGIN) /\ has_block(f[AUTOLOGIN], WALLET_BEGIN)

\* The files as every step of every operation leaves them.
Sound(f, b) ==
  /\ DOMAIN f = Path
  /\ \A p \in Service : f[p] \in Seq(LINE)
  /\ Laid(f[LOGIN])
  /\ Guarded(f, b)

\* The names of the files, as a set.
LEMMA Names ==
  /\ LOGIN \in Service /\ AUTOLOGIN \in Service /\ "kde-face" \in Service
  /\ DROPIN \notin Service /\ RC \notin Service /\ DROPIN # RC
  /\ LOGIN # AUTOLOGIN /\ Path = Service \cup {RC, DROPIN}
  /\ \A i \in 1..9 : Sorted[i] \in Service
  /\ "kde" \in Service /\ "kde-fingerprint" \in Service /\ "polkit-1" \in Service
  /\ "sudo" \in Service /\ "sudo-i" \in Service /\ "sddm" \in Service
<1>1. Sorted \in Seq(Service) /\ Len(Sorted) = 9 /\ DOMAIN Sorted = 1..9
  BY DEF Sorted, Service
<1>2. /\ Sorted[1] = "kde" /\ Sorted[2] = "kde-face" /\ Sorted[3] = "kde-fingerprint"
      /\ Sorted[4] = "plasmalogin" /\ Sorted[5] = "plasmalogin-autologin" /\ Sorted[6] = "polkit-1"
      /\ Sorted[7] = "sddm" /\ Sorted[8] = "sudo" /\ Sorted[9] = "sudo-i"
  BY DEF Sorted
<1>3. \A i \in 1..9 : i = 1 \/ i = 2 \/ i = 3 \/ i = 4 \/ i = 5 \/ i = 6 \/ i = 7 \/ i = 8 \/ i = 9
  OBVIOUS
<1>4. Service = {"kde", "kde-face", "kde-fingerprint", "plasmalogin", "plasmalogin-autologin",
                 "polkit-1", "sddm", "sudo", "sudo-i"}
  BY <1>1, <1>2, <1>3 DEF Service
<1>5. \A i \in 1..9 : Sorted[i] \in Service
  BY <1>1 DEF Service
<1> QED
  BY <1>4, <1>5 DEF LOGIN, AUTOLOGIN, RC, DROPIN, Path

\* A text of one line.
LEMMA OneLine ==
  ASSUME NEW l
  PROVE  /\ \A i \in DOMAIN <<l>> : <<l>>[i] = l
         /\ \A A : l \in A => <<l>> \in Seq(A)
<1>1. DOMAIN <<l>> = 1..1 /\ <<l>>[1] = l
  OBVIOUS
<1>2. \A i \in 1..1 : i = 1
  OBVIOUS
<1> QED
  BY <1>1, <1>2

\* The mark of a missing file has none of our lines.
LEMMA NoFileIs == NoFile \in Seq(LINE) /\ Laid(NoFile)
<1> DEFINE l == Line("", "", "no file", "")
<1>1. "" \in WORD /\ "no file" \in WORD
  BY WordAssumption DEF OUR_WORDS
<1>2. l \in LINE /\ l.type = ""
  BY <1>1, LineIs, ZenonT(30)
<1>3. l \in Unmarked
  BY <1>2, TypeUnmarked
<1> HIDE DEF l
<1>4. NoFile \in Seq(LINE) /\ \A i \in DOMAIN NoFile : NoFile[i] = l
  BY <1>2, OneLine DEF NoFile, l
<1>5. \A i \in DOMAIN NoFile : Stripped(NoFile[i]) \notin BEGINS \cup {OWN_HEADER}
  BY <1>3, <1>4 DEF Unmarked
<1> QED
  BY <1>4, <1>5, PlainLaid

\* A text of the vendor's or the administrator's alone has the layout.
LEMMA ForeignLaid ==
  ASSUME NEW t \in Seq(Foreign)
  PROVE  t \in Seq(LINE) /\ Laid(t)
<1>1. t \in Seq(LINE) /\ \A i \in DOMAIN t : t[i] \in Foreign
  BY DEF Foreign
<1>2. \A i \in DOMAIN t : Stripped(t[i]) \notin BEGINS \cup {OWN_HEADER}
  BY <1>1 DEF Foreign
<1> QED
  BY <1>1, <1>2, PlainLaid

\* What PAM reads for a name.
LEMMA SourceIs ==
  ASSUME system \in Systems, Sound(etc, botched)
  PROVE  /\ \A p \in Service : Source(p) \in Seq(LINE)
         /\ Laid(Source(LOGIN))
         /\ FILES(Stacks)
         /\ \A p \in Service : has_block(etc[p], WALLET_BEGIN) => Source(p) = etc[p]
<1>1. \A p : Vendor(p) \in Seq(LINE) /\ Laid(Vendor(p))
  <2> TAKE p
  <2>1. CASE p \in DOMAIN system.vendor
    <3>1. system.vendor[p] \in Seq(Foreign)
      BY <2>1, SystemsAssumption
    <3> QED
      BY <2>1, <3>1, ForeignLaid DEF Vendor
  <2>2. CASE p \notin DOMAIN system.vendor
    BY <2>2, NoFileIs DEF Vendor
  <2> QED
    BY <2>1, <2>2
<1>2. Service \subseteq Path /\ LOGIN \in Service
  BY Names
<1>3. \A p \in Service : Source(p) \in Seq(LINE)
  BY <1>1 DEF Source, Sound
<1>4. Laid(Source(LOGIN))
  BY <1>1 DEF Source, Sound
<1>5. \A p \in Service \cup DOMAIN system.vendor : Source(p) \in Seq(LINE)
  <2> TAKE p \in Service \cup DOMAIN system.vendor
  <2>1. CASE p \in Service
    BY <1>3, <2>1
  <2>2. CASE p \notin Service
    <3>1. p \in DOMAIN system.vendor
      BY <2>2
    <3>2. Source(p) = Vendor(p)
      <4>1. p \notin Path
        BY <3>1, <2>2, Names, SystemsAssumption
      <4> QED
        BY <4>1 DEF Source
    <3> QED
      BY <1>1, <3>2
  <2> QED
    BY <2>1, <2>2
<1>6. FILES(Stacks)
  BY <1>5 DEF FILES, Stacks
<1>7. ~has_block(NoFile, WALLET_BEGIN)
  <2>1. \A i \in DOMAIN NoFile : NoFile[i] = Line("", "", "no file", "")
    BY OneLine DEF NoFile
  <2>2. Stripped(Line("", "", "no file", "")).mod = "no file"
    BY DEF Stripped, Line
  <2>3. WALLET_BEGIN.mod = "WALLET_BEGIN"
    BY DEF WALLET_BEGIN, Line
  <2> QED
    BY <2>1, <2>2, <2>3 DEF has_block
<1>8. \A p \in Service : has_block(etc[p], WALLET_BEGIN) => Source(p) = etc[p]
  BY <1>2, <1>7 DEF Source
<1> QED
  BY <1>3, <1>4, <1>6, <1>8

\* insert_block yields lines.
LEMMA InsertType ==
  ASSUME NEW t \in Seq(LINE), CanInsert(t), NEW g \in Seq(GATE), NEW l \in Unmarked
  PROVE  insert_block(t, g, l) \in Seq(LINE)
<1> DEFINE u == Ended(t)
           m == Min(AuthIndexes(t))
           b == Block(BEGIN, Append(g, l))
<1>1. CASE has_block(t, BEGIN)
  BY <1>1 DEF insert_block
<1>2. CASE ~has_block(t, BEGIN)
  <2>1. DOMAIN t = 1..Len(t) /\ Len(t) \in Nat /\ u \in Seq(LINE) /\ Len(u) = Len(t)
    BY EndedIs
  <2>2. AuthIndexes(t) \in SUBSET Nat /\ AuthIndexes(t) # {} /\ AuthIndexes(t) \subseteq 1..Len(t)
    BY <2>1 DEF AuthIndexes, CanInsert
  <2>3. m \in AuthIndexes(t)
    BY <2>2, MinIs
  <2>4. Solid(b, BEGIN)
    <3>1. g \in Seq(Unmarked)
      BY OurLines
    <3>2. Append(g, l) \in Seq(Unmarked)
      BY <3>1
    <3>3. BEGIN \in BEGINS
      BY DEF BEGINS
    <3> QED
      BY <3>2, <3>3, BlockSolid
  <2>5. insert_block(t, g, l) = Splice(u, m, b)
    BY <1>2 DEF insert_block
  <2> HIDE DEF u, m, b
  <2>6. m \in 1..(Len(u) + 1)
    BY <2>1, <2>2, <2>3
  <2>7. b \in Seq(LINE)
    BY <2>4 DEF Solid
  <2>8. Splice(u, m, b) \in Seq(LINE)
    <3> HIDE DEF Splice
    <3> QED
      BY <2>1, <2>6, <2>7, SpliceIs
  <2> QED
    BY <2>5, <2>8
<1> QED
  BY <1>1, <1>2

\* What an "insert" writes: KWallet's blocks of the login stay.
LEMMA InsertText ==
  ASSUME system \in Systems, Sound(etc, botched), NEW p \in Service, NEW user, ~raises(p, "insert", user)
  PROVE  LET s == new_text(p, "insert", user)
         IN  /\ s \in Seq(LINE)
             /\ p = LOGIN => Laid(s)
             /\ p = LOGIN /\ has_block(etc[p], WALLET_BEGIN) => has_block(s, WALLET_BEGIN)
<1> DEFINE t == remove_block(Source(p), {BEGIN})
           g == gates(Stacks, Source(p))
           l == insert_line(p)
<1>1. new_text(p, "insert", user) = insert_block(t, g, l)
  BY DEF new_text
<1>2. CanInsert(t)
  BY DEF raises
<1>3. t \in Seq(LINE) /\ Source(p) \in Seq(LINE)
  BY SourceIs, RemoveType
<1>4. g \in Seq(GATE)
  BY <1>3, SourceIs, GatesType
<1>5. l \in Unmarked
  BY OurLines DEF insert_line
<1>6. {BEGIN} \in SUBSET BEGINS /\ WALLET_BEGIN \in BEGINS \ {BEGIN}
  BY Marks
<1>7. ASSUME p = LOGIN
      PROVE  Laid(t) /\ ~has_block(t, BEGIN)
             /\ (has_block(Source(p), WALLET_BEGIN) => has_block(t, WALLET_BEGIN))
  <2>1. Laid(Source(p))
    BY <1>7, SourceIs
  <2>2. /\ Laid(t)
        /\ \A x \in DOMAIN t : Stripped(t[x]) \notin {BEGIN}
        /\ \A w \in BEGINS \ {BEGIN} : has_block(Source(p), w) => has_block(t, w)
    BY <2>1, <1>6, RemoveLaid
  <2>3. ~has_block(t, BEGIN)
    BY <2>2 DEF has_block
  <2> QED
    BY <1>6, <2>2, <2>3
<1> HIDE DEF t, g, l
<1>8. insert_block(t, g, l) \in Seq(LINE)
  BY <1>2, <1>3, <1>4, <1>5, InsertType
<1>9. ASSUME p = LOGIN
      PROVE  Laid(insert_block(t, g, l))
             /\ (has_block(t, WALLET_BEGIN) => has_block(insert_block(t, g, l), WALLET_BEGIN))
  BY <1>2, <1>4, <1>5, <1>7, <1>9, InsertLaid
<1>10. has_block(etc[p], WALLET_BEGIN) => Source(p) = etc[p]
  BY SourceIs
<1> QED
  BY <1>1, <1>7, <1>8, <1>9, <1>10

\* What "wallet-release" writes has its block.
LEMMA ReleaseText ==
  ASSUME system \in Systems, Sound(etc, botched), NEW user, ~raises(AUTOLOGIN, "wallet-release", user)
  PROVE  LET s == new_text(AUTOLOGIN, "wallet-release", user)
         IN  s \in Seq(LINE) /\ has_block(s, WALLET_BEGIN)
<1> DEFINE t == remove_block(Source(AUTOLOGIN), {WALLET_BEGIN})
<1>1. new_text(AUTOLOGIN, "wallet-release", user) = insert_wallet_release(t)
  BY DEF new_text
<1>2. CanInsert(t)
  BY DEF raises
<1>3. t \in Seq(LINE)
  BY Names, SourceIs, RemoveType
<1> HIDE DEF t
<1> QED
  BY <1>1, <1>2, <1>3, ReleaseHas

\* What "wallet-remember" writes has its blocks and the layout.
LEMMA RememberText ==
  ASSUME system \in Systems, Sound(etc, botched), NEW user, ~raises(LOGIN, "wallet-remember", user)
  PROVE  LET s == new_text(LOGIN, "wallet-remember", user)
         IN  s \in Seq(LINE) /\ Laid(s) /\ has_block(s, WALLET_BEGIN)
<1> DEFINE t == remove_block(Source(LOGIN), {WALLET_BEGIN})
<1>1. new_text(LOGIN, "wallet-remember", user) = insert_wallet_remember(t)
  BY DEF new_text
<1>2. CanInsert(t)
  BY DEF raises
<1>3. {WALLET_BEGIN} \in SUBSET BEGINS
  BY Marks
<1>4. Laid(Source(LOGIN))
  BY SourceIs
<1>5. Laid(t) /\ \A x \in DOMAIN t : Stripped(t[x]) \notin {WALLET_BEGIN}
  BY <1>3, <1>4, RemoveLaid
<1>6. ~has_block(t, WALLET_BEGIN)
  BY <1>5 DEF has_block
<1> HIDE DEF t
<1>7. Laid(insert_wallet_remember(t)) /\ has_block(insert_wallet_remember(t), WALLET_BEGIN)
  BY <1>2, <1>5, <1>6, RememberLaid
<1> QED
  BY <1>1, <1>7 DEF Laid

\* What "own" writes are lines.
LEMMA OwnText ==
  ASSUME system \in Systems, Sound(etc, botched), NEW user
  PROVE  new_text("kde-face", "own", user) \in Seq(LINE)
<1>1. OwnSource \in Seq(LINE)
  BY Names, SourceIs DEF OwnSource
<1>2. new_text("kde-face", "own", user) = build_own_stack(OwnSource, Fingerprint)
  BY DEF new_text
<1> QED
  BY <1>1, <1>2, OwnStackType

\* The blank line in front of our block may go, no other.
LEMMA TrimmedIs ==
  ASSUME NEW t \in Seq(LINE), NEW separator
  PROVE  /\ Trimmed(t, separator) \in Seq(LINE)
         /\ \A i \in DOMAIN Trimmed(t, separator) :
              i \in DOMAIN t /\ Trimmed(t, separator)[i] = t[i]
<1>1. CASE t = <<>>
  BY <1>1 DEF Trimmed
<1>2. CASE t # <<>>
  <2>1. Front(t) = SubSeq(t, 1, Len(t) - 1)
    BY DEF Front
  <2>2. SubSeq(t, 1, Len(t) - 1) \in Seq(LINE) /\ DOMAIN SubSeq(t, 1, Len(t) - 1) = 1..(Len(t) - 1)
        /\ \A i \in 1..(Len(t) - 1) : SubSeq(t, 1, Len(t) - 1)[i] = t[i] /\ i \in DOMAIN t
    BY <1>2
  <2> QED
    BY <2>1, <2>2 DEF Trimmed
<1> QED
  BY <1>1, <1>2

\* What _revert leaves: KWallet's blocks go only when they are asked to.
LEMMA RevertedText ==
  ASSUME Sound(etc, botched), NEW p \in Service, NEW B \in SUBSET BEGINS, NEW entry
  PROVE  LET s == reverted_text(p, B, entry)
         IN  /\ s \in Seq(LINE)
             /\ p = LOGIN => Laid(s)
             /\ p = LOGIN /\ B = {BEGIN} /\ has_block(etc[p], WALLET_BEGIN)
                => has_block(s, WALLET_BEGIN)
<1> DEFINE t == etc[p]
           c == remove_block(t, B)
           d == Trimmed(c, entry.separator)
           s == reverted_text(p, B, entry)
<1>1. t \in Seq(LINE) /\ c \in Seq(LINE)
  BY RemoveType DEF Sound
<1>2. d \in Seq(LINE) /\ \A i \in DOMAIN d : i \in DOMAIN c /\ d[i] = c[i]
  BY <1>1, TrimmedIs
<1>3. s = NoFile \/ s = c \/ s = t \/ s = d
  BY DEF reverted_text
<1>4. others_stay(p, B) <=> \E b \in BEGINS : has_block(c, b)
  BY DEF others_stay
<1>5. s = d => s = c \/ ~others_stay(p, B) \/ s = NoFile
  BY DEF reverted_text
<1>6. t # NoFile /\ ~whole(p) /\ others_stay(p, B) => s = c
  BY DEF reverted_text
<1> HIDE DEF s, d, c
<1>7. s \in Seq(LINE)
  BY <1>1, <1>2, <1>3, NoFileIs
<1>8. ASSUME p = LOGIN PROVE Laid(s)
  <2>1. Laid(t)
    BY <1>8 DEF Sound
  <2>2. Laid(c)
    BY <2>1, RemoveLaid DEF c
  <2>3. CASE s = d /\ ~others_stay(p, B)
    <3>1. \A i \in DOMAIN c : Stripped(c[i]) \notin BEGINS \cup {OWN_HEADER}
      BY <1>4, <2>2, <2>3 DEF has_block, Laid
    <3>2. \A i \in DOMAIN d : Stripped(d[i]) \notin BEGINS \cup {OWN_HEADER}
      BY <1>2, <3>1
    <3> QED
      BY <1>2, <2>3, <3>2, PlainLaid
  <2> QED
    BY <1>3, <1>5, <2>1, <2>2, <2>3, NoFileIs
<1>9. ASSUME p = LOGIN, B = {BEGIN}, has_block(t, WALLET_BEGIN) PROVE has_block(s, WALLET_BEGIN)
  <2>1. Laid(t) /\ t \in Seq(LINE)
    BY <1>1, <1>9 DEF Sound
  <2>2. WALLET_BEGIN \in BEGINS \ B /\ WALLET_BEGIN \in BEGINS
    BY <1>9, Marks
  <2>3. has_block(c, WALLET_BEGIN)
    BY <1>9, <2>1, <2>2, RemoveLaid DEF c
  <2>4. others_stay(p, B)
    BY <1>4, <2>2, <2>3
  <2>5. t # NoFile
    <3>1. WALLET_BEGIN \in LINE /\ Laid(NoFile)
      BY Marks, NoFileIs
    <3>2. \A i \in DOMAIN NoFile : NoFile[i] = Line("", "", "no file", "")
      BY OneLine DEF NoFile
    <3>3. Stripped(Line("", "", "no file", "")).mod = "no file"
      BY DEF Stripped, Line
    <3>4. WALLET_BEGIN.mod = "WALLET_BEGIN"
      BY DEF WALLET_BEGIN, Line
    <3> QED
      BY <1>9, <3>2, <3>3, <3>4 DEF has_block
  <2>6. ~whole(p)
    <3>1. p # DROPIN
      BY Names
    <3>2. ~IsOwn(t)
      <4> SUFFICES ASSUME t # <<>>, Head(t) = OWN_HEADER PROVE FALSE
        BY DEF IsOwn
      <4>1. 1 \in DOMAIN t /\ t[1] = OWN_HEADER
        BY <2>1
      <4>2. Stripped(t[1]) # OWN_HEADER
        BY <2>1, <4>1 DEF Laid
      <4> QED
        BY <4>1, <4>2, HeaderIs
    <3> QED
      BY <3>1, <3>2 DEF whole
  <2> QED
    BY <1>6, <2>3, <2>4, <2>5, <2>6
<1> QED
  BY <1>7, <1>8, <1>9 DEF s

\* What the sweep of reset leaves.
LEMMA SweptText ==
  ASSUME Sound(etc, botched), NEW p \in Service
  PROVE  swept_text(p) \in Seq(LINE) /\ (p = LOGIN => Laid(swept_text(p)))
<1> DEFINE t == etc[p]
           c == remove_block(t, BEGINS)
           K == {i \in DOMAIN c : ~ours(c[i])}
           d == Pick(c, K)
<1>1. t \in Seq(LINE) /\ c \in Seq(LINE)
  BY RemoveType DEF Sound
<1>2. swept_text(p) = NoFile \/ swept_text(p) = t \/ swept_text(p) = d
  BY DEF swept_text, remove_legacy_lines
<1>3. d \in Seq({c[j] : j \in K \cap DOMAIN c})
  BY <1>1, PickType
<1>4. \A l \in {c[j] : j \in K \cap DOMAIN c} : l \in LINE /\ \E j \in DOMAIN c : l = c[j]
  BY <1>1
<1> DEFINE A == {c[j] : j \in K \cap DOMAIN c}
<1> HIDE DEF A, K, d, c
<1>5. d \in Seq(LINE) /\ \A i \in DOMAIN d : \E j \in DOMAIN c : d[i] = c[j]
  <2>1. d \in Seq(A) /\ \A l \in A : l \in LINE /\ \E j \in DOMAIN c : l = c[j]
    BY <1>3, <1>4 DEF A
  <2>2. \A i \in DOMAIN d : d[i] \in A
    BY <2>1
  <2>3. d \in Seq(LINE)
    BY <2>1
  <2> QED
    BY <2>1, <2>2, <2>3
<1>6. ASSUME p = LOGIN PROVE Laid(d) /\ Laid(t)
  <2>1. Laid(t)
    BY <1>6 DEF Sound
  <2>2. Laid(c) /\ \A x \in DOMAIN c : Stripped(c[x]) \notin BEGINS
    BY <2>1, RemoveLaid DEF c
  <2>3. \A x \in DOMAIN c : Stripped(c[x]) \notin BEGINS \cup {OWN_HEADER}
    BY <2>2 DEF Laid
  <2>4. \A i \in DOMAIN d : Stripped(d[i]) \notin BEGINS \cup {OWN_HEADER}
    BY <1>5, <2>3
  <2> QED
    BY <1>5, <2>1, <2>4, PlainLaid
<1> QED
  BY <1>1, <1>2, <1>5, <1>6, NoFileIs

\* The drop-in is always taken away as a whole.
LEMMA DropInGoes ==
  ASSUME NEW B, NEW entry
  PROVE  reverted_text(DROPIN, B, entry) = NoFile
BY DEF reverted_text, whole

Release   == <<AUTOLOGIN, "wallet-release">>
Remember  == <<LOGIN, "wallet-remember">>

\* The drop-in's step.
Autologin == <<DROPIN, "autologin">>

\* The steps of enable that are not the automatic login's.
PlainSteps == {<<p, "insert">> : p \in Service \ {AUTOLOGIN}}
              \cup {<<"kde-face", "own">>, <<RC, "kde-config">>}

\* How far enable has come: the drop-in is last, behind both of KWallet's blocks.
Enabling(f, todo) ==
  \/ todo \in Seq(PlainSteps)
  \/ todo = <<Release, Remember, Autologin>>
  \/ todo = <<Remember, Autologin>> /\ has_block(f[AUTOLOGIN], WALLET_BEGIN)
  \/ /\ todo = <<Autologin>>
     /\ has_block(f[AUTOLOGIN], WALLET_BEGIN) /\ has_block(f[LOGIN], WALLET_BEGIN)

\* The steps of disable and reset.
Reverts == Path \X {SWEEP, FORGET, {BEGIN}, {WALLET_BEGIN}, BEGINS}

\* The steps of a disable that is not the automatic login's.
PlainReverts == {<<p, {BEGIN}>> : p \in Path \ {DROPIN, AUTOLOGIN}}

\* How far disable or reset has come: the drop-in goes first.
Reverting(f, todo) ==
  /\ todo \in Seq(Reverts)
  /\ \/ f[DROPIN] = NoFile
     \/ todo # <<>> /\ Head(todo) = <<DROPIN, {BEGIN}>>
     \/ /\ todo # <<>> /\ Head(todo) = <<DROPIN, FORGET>>
        /\ Tail(todo) # <<>> /\ Head(Tail(todo)) = <<DROPIN, {BEGIN}>>
     \/ todo \in Seq(PlainReverts)

\* What each operation has established for the steps it has left.
InOperation(f, o, b) ==
  /\ o.name = "enable" => /\ Sound(o.before, b) /\ Enabling(f, o.todo)
                          /\ o.todo # <<>> => f[DROPIN] = o.before[DROPIN]
                          /\ o.before[DROPIN] # NoFile => f[DROPIN] # NoFile
  /\ o.name = "rollback" => /\ Sound(o.before, b)
                            /\ ~b => (f[DROPIN] = NoFile <=> o.before[DROPIN] = NoFile)
  /\ o.name \in {"disable", "reset"} => Reverting(f, o.todo)

\* The inductive invariant.  DropInHasWallet alone is not: it holds for files from
\* which the next insertion or removal would take one of KWallet's blocks.
WalletInv ==
  /\ system \in Systems
  /\ Sound(etc, botched)
  /\ botched => etc[DROPIN] # NoFile
  /\ DOMAIN op = {"name", "target", "user", "plan", "todo", "state", "before"}
  /\ InOperation(etc, op, botched)

\* The plan of every target but the automatic login's leaves its files alone.
LEMMA PlanIs ==
  /\ \A target \in Target \ {"auto-login"} : plan(target) \in Seq(PlainSteps)
  /\ plan("auto-login") = <<>> \/ plan("auto-login") = <<Release, Remember, Autologin>>
<1>1. \A p \in Service \ {AUTOLOGIN} : <<p, "insert">> \in PlainSteps
  BY DEF PlainSteps
<1>2. <<"kde-face", "own">> \in PlainSteps /\ <<RC, "kde-config">> \in PlainSteps
  BY DEF PlainSteps
<1>3. /\ "kde" \in Service \ {AUTOLOGIN} /\ "polkit-1" \in Service \ {AUTOLOGIN}
      /\ "sudo" \in Service \ {AUTOLOGIN} /\ "sudo-i" \in Service \ {AUTOLOGIN}
      /\ "sddm" \in Service \ {AUTOLOGIN} /\ "plasmalogin" \in Service \ {AUTOLOGIN}
  BY Names DEF AUTOLOGIN, LOGIN
<1>4. /\ Insert("kde") \in PlainSteps /\ Insert("polkit-1") \in PlainSteps
      /\ Insert("sudo") \in PlainSteps /\ Insert("sudo-i") \in PlainSteps
      /\ Insert("sddm") \in PlainSteps /\ Insert("plasmalogin") \in PlainSteps
  BY <1>1, <1>3 DEF Insert
<1>5. \A s \in PlainSteps : <<s>> \in Seq(PlainSteps)
  OBVIOUS
<1>6. <<>> \in Seq(PlainSteps)
  OBVIOUS
<1>7. plan("lock-screen") \in Seq(PlainSteps)
  <2>1. << <<"kde-face", "own">>, <<RC, "kde-config">> >> \in Seq(PlainSteps)
    BY <1>2
  <2>2. \/ plan("lock-screen") = << <<"kde-face", "own">>, <<RC, "kde-config">> >>
        \/ plan("lock-screen") = <<Insert("kde")>> \/ plan("lock-screen") = <<>>
    BY DEF plan
  <2> QED
    BY <1>4, <1>5, <1>6, <2>1, <2>2
<1>8. plan("admin") \in Seq(PlainSteps)
  <2>1. plan("admin") = <<Insert("polkit-1")>> \/ plan("admin") = <<>>
    BY DEF plan
  <2> QED
    BY <1>4, <1>5, <1>6, <2>1
<1>9. plan("sudo") \in Seq(PlainSteps)
  <2>1. \E a, b : /\ plan("sudo") = a \o b
                  /\ a = <<Insert("sudo")>> \/ a = <<>>
                  /\ b = <<Insert("sudo-i")>> \/ b = <<>>
    <3>1. plan("sudo") = (IF Found("sudo") THEN <<Insert("sudo")>> ELSE <<>>)
           \o (IF Found("sudo-i") /\ ~(Found("sudo") /\ includes(Source("sudo-i"), "sudo"))
               THEN <<Insert("sudo-i")>> ELSE <<>>)
      BY DEF plan
    <3> QED
      BY <3>1
  <2>2. PICK a, b : /\ plan("sudo") = a \o b
                    /\ a = <<Insert("sudo")>> \/ a = <<>>
                    /\ b = <<Insert("sudo-i")>> \/ b = <<>>
    BY <2>1
  <2>3. a \in Seq(PlainSteps) /\ b \in Seq(PlainSteps)
    BY <1>4, <1>5, <1>6, <2>2
  <2>4. a \o b \in Seq(PlainSteps)
    BY <2>3
  <2> QED
    BY <2>2, <2>4
<1>10. plan("login") \in Seq(PlainSteps)
  <2>1. \/ plan("login") = <<Insert("plasmalogin")>> \/ plan("login") = <<Insert("sddm")>>
        \/ plan("login") = <<>>
    BY DEF plan
  <2> QED
    BY <1>4, <1>5, <1>6, <2>1
<1>11. plan("auto-login") = <<>> \/ plan("auto-login") = <<Release, Remember, Autologin>>
  BY DEF plan, Release, Remember, Autologin, LOGIN, AUTOLOGIN
<1> QED
  BY <1>7, <1>8, <1>9, <1>10, <1>11 DEF Target

\* One file is replaced: what the others and the new text must give.
LEMMA PutSound ==
  ASSUME NEW f, NEW b, Sound(f, b), NEW p, NEW x,
         p \in Service => x \in Seq(LINE),
         p = LOGIN => Laid(x),
         Guarded([f EXCEPT ![p] = x], b)
  PROVE  LET g == [f EXCEPT ![p] = x]
         IN  /\ Sound(g, b)
             /\ \A q \in Path \ {p} : g[q] = f[q]
             /\ p \in Path => g[p] = x
<1> DEFINE g == [f EXCEPT ![p] = x]
<1>1. DOMAIN g = Path
  BY DEF Sound
<1>2. \A q \in Path : g[q] = IF q = p THEN x ELSE f[q]
  BY DEF Sound
<1> HIDE DEF g
<1>3. Service \subseteq Path /\ LOGIN \in Service
  BY Names
<1>4. \A q \in Service : g[q] \in Seq(LINE)
  BY <1>2, <1>3 DEF Sound
<1>5. Laid(g[LOGIN])
  BY <1>2, <1>3 DEF Sound
<1>6. Guarded(g, b)
  BY DEF g
<1>7. Sound(g, b)
  BY <1>1, <1>4, <1>5, <1>6 DEF Sound
<1> QED
  BY <1>2, <1>7 DEF g

\* Nothing of ours is there at first.
LEMMA WalletInit == FilesInit => WalletInv
<1> SUFFICES ASSUME FilesInit PROVE WalletInv
  OBVIOUS
<1>1. system \in Systems /\ etc = [p \in Path |-> NoFile] /\ op = Idle /\ ~botched
  BY DEF FilesInit
<1>2. \A p \in Path : etc[p] = NoFile
  BY <1>1
<1>3. Service \subseteq Path /\ LOGIN \in Path /\ DROPIN \in Path
  BY Names
<1>4. Sound(etc, botched)
  BY <1>1, <1>2, <1>3, NoFileIs DEF Sound, Guarded
<1>5. DOMAIN op = {"name", "target", "user", "plan", "todo", "state", "before"} /\ op.name = "idle"
  BY <1>1 DEF Idle
<1>6. InOperation(etc, op, botched)
  BY <1>5 DEF InOperation
<1> QED
  BY <1>1, <1>4, <1>5, <1>6 DEF WalletInv

\* enable begins: the plan of the target is what it has to do.
LEMMA StartEnableKeeps ==
  ASSUME WalletInv, NEW target \in Target, NEW user, StartEnable(target, user)
  PROVE  WalletInv'
<1>1. UNCHANGED <<system, etc, botched>> /\ plan(target) # <<>>
  BY DEF StartEnable
<1>2. op' = [name |-> "enable", target |-> target, user |-> user, plan |-> plan(target),
             todo |-> plan(target), state |-> manifest, before |-> etc]
  BY DEF StartEnable
<1>3. DOMAIN op' = {"name", "target", "user", "plan", "todo", "state", "before"}
      /\ op'.name = "enable" /\ op'.todo = plan(target) /\ op'.before = etc
  BY <1>2
<1>4. Enabling(etc, plan(target))
  BY <1>1, PlanIs DEF Enabling
<1>5. InOperation(etc, op', botched)
  BY <1>3, <1>4 DEF InOperation, WalletInv
<1> QED
  BY <1>1, <1>3, <1>5 DEF WalletInv

\* A step that is not the automatic login's.
LEMMA PlainStepKeeps ==
  ASSUME WalletInv, op.name = "enable", op.todo # <<>>, op.todo \in Seq(PlainSteps),
         ~raises(Head(op.todo)[1], Head(op.todo)[2], op.user)
  PROVE  LET p == Head(op.todo)[1]
             g == [etc EXCEPT ![p] = new_text(p, Head(op.todo)[2], op.user)]
         IN  Sound(g, botched) /\ g[DROPIN] = etc[DROPIN]
<1> DEFINE s == Head(op.todo)
           x == new_text(s[1], s[2], op.user)
           g == [etc EXCEPT ![s[1]] = x]
<1>0. system \in Systems /\ Sound(etc, botched) /\ Guarded(etc, botched) /\ DOMAIN etc = Path
  BY DEF WalletInv, Sound
<1>1. s \in PlainSteps
  OBVIOUS
<1>2. \/ s[1] \in Service \ {AUTOLOGIN} /\ s[2] = "insert"
      \/ s[1] = "kde-face" /\ s[2] = "own"
      \/ s[1] = RC /\ s[2] = "kde-config"
  BY <1>1 DEF PlainSteps
<1> HIDE DEF s
<1>3. /\ s[1] \in Service => x \in Seq(LINE)
      /\ s[1] = LOGIN => Laid(x)
      /\ s[1] = LOGIN /\ has_block(etc[LOGIN], WALLET_BEGIN) => has_block(x, WALLET_BEGIN)
      /\ s[1] # DROPIN /\ s[1] # AUTOLOGIN
  <2>1. CASE s[1] \in Service \ {AUTOLOGIN} /\ s[2] = "insert"
    <3>1. ~raises(s[1], "insert", op.user)
      BY <2>1 DEF s
    <3>2. /\ x \in Seq(LINE) /\ (s[1] = LOGIN => Laid(x))
          /\ s[1] = LOGIN /\ has_block(etc[s[1]], WALLET_BEGIN) => has_block(x, WALLET_BEGIN)
      BY <1>0, <2>1, <3>1, InsertText
    <3> QED
      BY <2>1, <3>2, Names
  <2>2. CASE s[1] = "kde-face" /\ s[2] = "own"
    <3>1. x \in Seq(LINE)
      BY <1>0, <2>2, OwnText
    <3>2. s[1] # LOGIN /\ s[1] # DROPIN /\ s[1] # AUTOLOGIN
      BY <2>2 DEF LOGIN, DROPIN, AUTOLOGIN
    <3> QED
      BY <3>1, <3>2
  <2>3. CASE s[1] = RC /\ s[2] = "kde-config"
    BY <2>3, Names
  <2> QED
    BY <1>2, <2>1, <2>2, <2>3
<1> HIDE DEF x
<1>4. \A q \in Path : g[q] = IF q = s[1] THEN x ELSE etc[q]
  BY <1>0
<1> HIDE DEF g
<1>5. g[DROPIN] = etc[DROPIN] /\ g[AUTOLOGIN] = etc[AUTOLOGIN]
      /\ g[LOGIN] = IF LOGIN = s[1] THEN x ELSE etc[LOGIN]
  BY <1>3, <1>4, Names
<1>6. Guarded(g, botched)
  BY <1>0, <1>3, <1>5 DEF Guarded
<1>7. Sound(g, botched)
  BY <1>0, <1>3, <1>6, PutSound DEF g
<1> QED
  BY <1>5, <1>7 DEF g, x, s

\* Where the automatic login's steps are, KWallet's blocks come first.
LEMMA ReleaseKeeps ==
  ASSUME WalletInv, ~raises(AUTOLOGIN, "wallet-release", op.user)
  PROVE  LET g == [etc EXCEPT ![AUTOLOGIN] = new_text(AUTOLOGIN, "wallet-release", op.user)]
         IN  Sound(g, botched) /\ g[DROPIN] = etc[DROPIN] /\ has_block(g[AUTOLOGIN], WALLET_BEGIN)
<1> DEFINE x == new_text(AUTOLOGIN, "wallet-release", op.user)
           g == [etc EXCEPT ![AUTOLOGIN] = x]
<1>0. system \in Systems /\ Sound(etc, botched) /\ Guarded(etc, botched) /\ DOMAIN etc = Path
  BY DEF WalletInv, Sound
<1>1. x \in Seq(LINE) /\ has_block(x, WALLET_BEGIN)
  BY <1>0, ReleaseText
<1> HIDE DEF x
<1>2. g[DROPIN] = etc[DROPIN] /\ g[AUTOLOGIN] = x /\ g[LOGIN] = etc[LOGIN]
  BY <1>0, Names
<1> HIDE DEF g
<1>3. Guarded(g, botched)
  BY <1>0, <1>1, <1>2 DEF Guarded
<1>4. Sound(g, botched)
  BY <1>0, <1>1, <1>3, Names, PutSound DEF g
<1> QED
  BY <1>1, <1>2, <1>4 DEF g, x

\* KWallet's blocks of plasmalogin are written.
LEMMA RememberKeeps ==
  ASSUME WalletInv, ~raises(LOGIN, "wallet-remember", op.user)
  PROVE  LET g == [etc EXCEPT ![LOGIN] = new_text(LOGIN, "wallet-remember", op.user)]
         IN  /\ Sound(g, botched) /\ g[DROPIN] = etc[DROPIN] /\ has_block(g[LOGIN], WALLET_BEGIN)
             /\ g[AUTOLOGIN] = etc[AUTOLOGIN]
<1> DEFINE x == new_text(LOGIN, "wallet-remember", op.user)
           g == [etc EXCEPT ![LOGIN] = x]
<1>0. system \in Systems /\ Sound(etc, botched) /\ Guarded(etc, botched) /\ DOMAIN etc = Path
  BY DEF WalletInv, Sound
<1>1. x \in Seq(LINE) /\ Laid(x) /\ has_block(x, WALLET_BEGIN)
  BY <1>0, RememberText
<1> HIDE DEF x
<1>2. g[DROPIN] = etc[DROPIN] /\ g[LOGIN] = x /\ g[AUTOLOGIN] = etc[AUTOLOGIN]
  BY <1>0, Names
<1> HIDE DEF g
<1>3. Guarded(g, botched)
  BY <1>0, <1>1, <1>2 DEF Guarded
<1>4. Sound(g, botched)
  BY <1>0, <1>1, <1>3, PutSound DEF g
<1> QED
  BY <1>1, <1>2, <1>4 DEF g, x

\* The drop-in is written, with both of KWallet's blocks there.
LEMMA DropInKeeps ==
  ASSUME WalletInv, has_block(etc[AUTOLOGIN], WALLET_BEGIN), has_block(etc[LOGIN], WALLET_BEGIN),
         NEW x
  PROVE  Sound([etc EXCEPT ![DROPIN] = x], botched)
<1> DEFINE g == [etc EXCEPT ![DROPIN] = x]
<1>0. Sound(etc, botched) /\ DOMAIN etc = Path
  BY DEF WalletInv, Sound
<1>1. g[LOGIN] = etc[LOGIN] /\ g[AUTOLOGIN] = etc[AUTOLOGIN]
  BY <1>0, Names
<1>2. Guarded(g, botched)
  BY <1>1 DEF Guarded
<1> QED
  BY <1>0, <1>2, Names, PutSound

\* A drop-in is a file.
LEMMA DropInIsFile == \A user : DropInOf(user) # NoFile
<1> TAKE user
<1>1. DropInOf(user)[1].type = "ini"
  BY DEF DropInOf, Line
<1>2. NoFile[1].type = ""
  BY DEF NoFile, Line
<1> QED
  BY <1>1, <1>2

\* A step of enable.
LEMMA EnableStepKeeps ==
  ASSUME WalletInv, EnableStep
  PROVE  WalletInv'
<1> DEFINE s == Head(op.todo)
           rest == Tail(op.todo)
<1>0. /\ system' = system /\ botched' = botched /\ op.name = "enable" /\ op.todo # <<>> /\ ~raises(s[1], s[2], op.user)
      /\ etc' = [etc EXCEPT ![s[1]] = new_text(s[1], s[2], op.user)]
      /\ op' = [op EXCEPT !.todo = rest, !.state = recorded(s[1], s[2], op.user, op.state)]
  BY DEF EnableStep
<1>1. /\ DOMAIN op' = {"name", "target", "user", "plan", "todo", "state", "before"}
      /\ op'.name = "enable" /\ op'.todo = rest /\ op'.before = op.before
  BY <1>0 DEF WalletInv
<1>2. Sound(op.before, botched) /\ Enabling(etc, op.todo) /\ etc[DROPIN] = op.before[DROPIN]
  BY <1>0 DEF WalletInv, InOperation
<1>3. /\ Sound(etc', botched) /\ Enabling(etc', rest)
      /\ rest # <<>> => etc'[DROPIN] = etc[DROPIN]
      /\ etc'[DROPIN] = etc[DROPIN] \/ etc'[DROPIN] # NoFile
  <2>1. CASE op.todo \in Seq(PlainSteps)
    <3>1. Sound(etc', botched) /\ etc'[DROPIN] = etc[DROPIN]
      BY <1>0, <2>1, PlainStepKeeps
    <3>2. rest \in Seq(PlainSteps)
      BY <1>0, <2>1
    <3> QED
      BY <3>1, <3>2 DEF Enabling
  <2>2. CASE op.todo = <<Release, Remember, Autologin>>
    <3>1. s = Release /\ rest = <<Remember, Autologin>>
      BY <2>2
    <3>2. s[1] = AUTOLOGIN /\ s[2] = "wallet-release"
      BY <3>1 DEF Release
    <3> HIDE DEF s, rest
    <3>3. Sound(etc', botched) /\ etc'[DROPIN] = etc[DROPIN] /\ has_block(etc'[AUTOLOGIN], WALLET_BEGIN)
      BY <1>0, <3>2, ReleaseKeeps
    <3> QED
      BY <3>1, <3>3 DEF Enabling
  <2>3. CASE op.todo = <<Remember, Autologin>> /\ has_block(etc[AUTOLOGIN], WALLET_BEGIN)
    <3>1. s = Remember /\ rest = <<Autologin>>
      BY <2>3
    <3>2. s[1] = LOGIN /\ s[2] = "wallet-remember"
      BY <3>1 DEF Remember
    <3> HIDE DEF s, rest
    <3>3. /\ Sound(etc', botched) /\ etc'[DROPIN] = etc[DROPIN] /\ has_block(etc'[LOGIN], WALLET_BEGIN)
          /\ etc'[AUTOLOGIN] = etc[AUTOLOGIN]
      BY <1>0, <3>2, RememberKeeps
    <3> QED
      BY <2>3, <3>1, <3>3 DEF Enabling
  <2>4. CASE /\ op.todo = <<Autologin>>
             /\ has_block(etc[AUTOLOGIN], WALLET_BEGIN) /\ has_block(etc[LOGIN], WALLET_BEGIN)
    <3>1. s = Autologin /\ rest = <<>>
      BY <2>4
    <3>2. s[1] = DROPIN /\ s[2] = "autologin"
      BY <3>1 DEF Autologin
    <3>3. rest \in Seq(PlainSteps)
      <4>1. <<>> \in Seq(PlainSteps)
        OBVIOUS
      <4> HIDE DEF rest
      <4> QED
        BY <3>1, <4>1
    <3> HIDE DEF s, rest
    <3>4. Sound(etc', botched)
      BY <1>0, <2>4, <3>2, DropInKeeps
    <3>5. etc'[DROPIN] # NoFile
      <4>1. etc'[DROPIN] = new_text(DROPIN, "autologin", op.user)
        BY <1>0, <3>2, Names DEF WalletInv, Sound
      <4>2. new_text(DROPIN, "autologin", op.user) = DropInOf(op.user)
        BY DEF new_text
      <4> QED
        BY <4>1, <4>2, DropInIsFile
    <3> QED
      BY <3>1, <3>3, <3>4, <3>5 DEF Enabling
  <2> QED
    BY <1>2, <2>1, <2>2, <2>3, <2>4 DEF Enabling
<1> HIDE DEF s, rest
<1>6. /\ rest # <<>> => etc'[DROPIN] = op.before[DROPIN]
      /\ op.before[DROPIN] # NoFile => etc'[DROPIN] # NoFile
  BY <1>2, <1>3
<1>7. op'.name # "rollback" /\ op'.name \notin {"disable", "reset"}
  BY <1>1
<1>4. InOperation(etc', op', botched)
  BY <1>1, <1>2, <1>3, <1>6, <1>7, Zenon DEF InOperation
<1>8. botched => etc[DROPIN] # NoFile
  BY Zenon DEF WalletInv
<1>5. botched => etc'[DROPIN] # NoFile
  BY <1>3, <1>8, Zenon
<1> QED
  BY <1>0, <1>1, <1>3, <1>4, <1>5 DEF WalletInv

\* A step of enable fails.
LEMMA EnableFailsKeeps ==
  ASSUME WalletInv, EnableFails
  PROVE  WalletInv'
<1>0. /\ UNCHANGED <<system, etc>> /\ op.name = "enable"
      /\ op' = [op EXCEPT !.name = "rollback", !.todo = op.plan]
      /\ botched' <=> (botched \/ (op.before[DROPIN] = NoFile /\ etc[DROPIN] # NoFile))
  BY DEF EnableFails
<1>1. /\ DOMAIN op' = {"name", "target", "user", "plan", "todo", "state", "before"}
      /\ op'.name = "rollback" /\ op'.before = op.before
  BY <1>0 DEF WalletInv
<1>2. Sound(op.before, botched') /\ Sound(etc, botched')
  BY <1>0 DEF WalletInv, InOperation, Sound, Guarded
<1>3. /\ botched' => etc[DROPIN] # NoFile
      /\ ~botched' => (etc[DROPIN] = NoFile <=> op.before[DROPIN] = NoFile)
  BY <1>0 DEF WalletInv, InOperation
<1>4. InOperation(etc, op', botched')
  BY <1>1, <1>2, <1>3 DEF InOperation
<1> QED
  BY <1>0, <1>1, <1>2, <1>3, <1>4 DEF WalletInv

\* The files are put back in any order: before and after they are guarded, and
\* the drop-in is there throughout, or not at all, or was left by a failed enable.
LEMMA RollbackKeeps ==
  ASSUME WalletInv, RollbackStep
  PROVE  WalletInv'
<1> DEFINE p == Head(op.todo)[1]
           rest == Tail(op.todo)
<1>0. /\ system' = system /\ op.name = "rollback"
      /\ etc' = [etc EXCEPT ![p] = op.before[p]]
      /\ op' = [op EXCEPT !.todo = rest]
      /\ botched' <=> (botched /\ etc'[DROPIN] # NoFile)
  BY DEF RollbackStep, PutBack
<1> HIDE DEF p, rest
<1>1. /\ DOMAIN op' = {"name", "target", "user", "plan", "todo", "state", "before"}
      /\ op'.name = "rollback" /\ op'.before = op.before
  BY <1>0 DEF WalletInv
<1>2. /\ Sound(op.before, botched) /\ Sound(etc, botched) /\ system \in Systems
      /\ botched => etc[DROPIN] # NoFile
      /\ ~botched => (etc[DROPIN] = NoFile <=> op.before[DROPIN] = NoFile)
  BY <1>0 DEF WalletInv, InOperation
<1>3. \A q \in Path : etc'[q] = IF q = p THEN op.before[q] ELSE etc[q]
  BY <1>0, <1>2 DEF Sound
<1>4. /\ etc'[DROPIN] = etc[DROPIN] \/ etc'[DROPIN] = op.before[DROPIN]
      /\ etc'[LOGIN] = etc[LOGIN] \/ etc'[LOGIN] = op.before[LOGIN]
      /\ etc'[AUTOLOGIN] = etc[AUTOLOGIN] \/ etc'[AUTOLOGIN] = op.before[AUTOLOGIN]
  BY <1>3, Names
<1>5. Guarded(etc', botched') /\ Guarded(op.before, botched')
  BY <1>0, <1>2, <1>4 DEF Guarded, Sound
<1>6. ~botched' => (etc'[DROPIN] = NoFile <=> op.before[DROPIN] = NoFile)
  BY <1>0, <1>2, <1>4
<1>7. Sound(etc, botched) => \A q \in Service : etc[q] \in Seq(LINE)
  BY DEF Sound
<1>8. Sound(op.before, botched')
  BY <1>2, <1>5 DEF Sound
<1>9. Sound(etc', botched')
  <2>1. DOMAIN etc' = Path
    BY <1>0, <1>2 DEF Sound
  <2>2. \A q \in Service : etc'[q] \in Seq(LINE)
    BY <1>2, <1>3, Names DEF Sound
  <2>3. Laid(etc'[LOGIN])
    BY <1>2, <1>4 DEF Sound
  <2> QED
    BY <1>5, <2>1, <2>2, <2>3 DEF Sound
<1>10. InOperation(etc', op', botched')
  BY <1>1, <1>6, <1>8 DEF InOperation
<1> QED
  BY <1>0, <1>1, <1>2, <1>9, <1>10 DEF WalletInv

\* The sets of begin markers the steps of disable and reset hold.
LEMMA Begins ==
  /\ SWEEP # FORGET /\ SWEEP # {BEGIN} /\ FORGET # {BEGIN}
  /\ \A B \in {SWEEP, FORGET, {BEGIN}, {WALLET_BEGIN}, BEGINS} : B = SWEEP \/ B \in SUBSET BEGINS
  /\ <<DROPIN, FORGET>> \in Reverts /\ <<DROPIN, {BEGIN}>> \in Reverts
  /\ <<AUTOLOGIN, {WALLET_BEGIN}>> \in Reverts /\ <<LOGIN, {WALLET_BEGIN}>> \in Reverts
  /\ PlainReverts \subseteq Reverts
<1>1. SWEEP # FORGET /\ SWEEP # {BEGIN} /\ FORGET # {BEGIN}
  <2>1. END # BEGIN
    BY Marks
  <2> QED
    BY <2>1 DEF SWEEP, FORGET
<1>2. \A B \in {SWEEP, FORGET, {BEGIN}, {WALLET_BEGIN}, BEGINS} : B = SWEEP \/ B \in SUBSET BEGINS
  BY DEF FORGET, BEGINS
<1>3. DROPIN \in Path /\ AUTOLOGIN \in Path /\ LOGIN \in Path
  BY Names
<1>4. /\ <<DROPIN, FORGET>> \in Reverts /\ <<DROPIN, {BEGIN}>> \in Reverts
      /\ <<AUTOLOGIN, {WALLET_BEGIN}>> \in Reverts /\ <<LOGIN, {WALLET_BEGIN}>> \in Reverts
  BY <1>3 DEF Reverts
<1>5. PlainReverts \subseteq Reverts
  BY DEF PlainReverts, Reverts
<1> QED
  BY <1>1, <1>2, <1>4, <1>5

\* Sequences of a subset.
LEMMA OfSubset ==
  ASSUME NEW A, NEW B, A \subseteq B, NEW q \in Seq(A)
  PROVE  q \in Seq(B)
OBVIOUS

\* Sequences put together.
LEMMA Joined ==
  ASSUME NEW S, NEW a \in Seq(S), NEW d \in Seq(S)
  PROVE  /\ a \o d \in Seq(S) /\ Len(a \o d) = Len(a) + Len(d)
         /\ \A i \in 1..Len(a) : (a \o d)[i] = a[i]
OBVIOUS

\* What disable does to the files of another target.
LEMMA DisablePlanIs ==
  ASSUME NEW target \in Target, NEW keep, NEW f
  PROVE  Reverting(f, disable_plan(target, keep))
<1>1. CASE target = "auto-login"
  <2> DEFINE a == <<DROPIN, FORGET>>
             b == <<DROPIN, {BEGIN}>>
             c == <<AUTOLOGIN, {WALLET_BEGIN}>>
             d == <<LOGIN, {WALLET_BEGIN}>>
             q == <<a, b, c, d>>
  <2>1. disable_plan(target, keep) = q
    BY <1>1 DEF disable_plan, LOGIN, AUTOLOGIN
  <2>2. a \in Reverts /\ b \in Reverts /\ c \in Reverts /\ d \in Reverts
    BY Begins
  <2>3. a = <<DROPIN, FORGET>> /\ b = <<DROPIN, {BEGIN}>>
    OBVIOUS
  <2> HIDE DEF a, b, c, d
  <2>4. q \in Seq(Reverts) /\ q # <<>> /\ Head(q) = a /\ Tail(q) = <<b, c, d>>
    BY <2>2
  <2>5. <<b, c, d>> # <<>> /\ Head(<<b, c, d>>) = b
    OBVIOUS
  <2> QED
    BY <2>1, <2>3, <2>4, <2>5 DEF Reverting
<1>2. CASE target # "auto-login"
  <2> DEFINE n == plan(target)
             q == [i \in DOMAIN n |-> <<n[i][1], {BEGIN}>>]
             K == {i \in DOMAIN q : ~(keep /\ q[i][1] = RC)}
             A == {q[j] : j \in K \cap DOMAIN q}
  <2>1. n \in Seq(PlainSteps)
    BY <1>2, PlanIs
  <2>2. \A i \in DOMAIN n : n[i][1] \in Path \ {DROPIN, AUTOLOGIN}
    <3> TAKE i \in DOMAIN n
    <3>1. n[i] \in PlainSteps
      BY <2>1
    <3>2. n[i][1] \in (Service \ {AUTOLOGIN}) \cup {"kde-face", RC}
      BY <3>1 DEF PlainSteps
    <3>3. RC # AUTOLOGIN /\ "kde-face" # AUTOLOGIN
      BY DEF RC, AUTOLOGIN
    <3> QED
      BY <3>2, <3>3, Names
  <2> HIDE DEF n
  <2>3. \A i \in DOMAIN n : <<n[i][1], {BEGIN}>> \in PlainReverts
    BY <2>2 DEF PlainReverts
  <2>4. q \in Seq(PlainReverts)
    BY <2>1, <2>3
  <2>5. disable_plan(target, keep) = Pick(q, K)
    BY <1>2 DEF disable_plan, n
  <2>6. Pick(q, K) \in Seq(A)
    <3> HIDE DEF K, q
    <3> QED
      BY <2>4, PickType DEF A
  <2>7. A \subseteq PlainReverts
    <3> HIDE DEF K, q
    <3>1. \A j \in DOMAIN q : q[j] \in PlainReverts
      BY <2>4
    <3> QED
      BY <3>1 DEF A
  <2> HIDE DEF q, K, A
  <2>8. Pick(q, K) \in Seq(PlainReverts)
    BY <2>6, <2>7, OfSubset
  <2>9. Pick(q, K) \in Seq(Reverts)
    BY <2>8, Begins, OfSubset
  <2> QED
    BY <2>5, <2>8, <2>9 DEF Reverting
<1> QED
  BY <1>1, <1>2

\* disable begins.
LEMMA SetTargetOffKeeps ==
  ASSUME WalletInv, SetTargetOff
  PROVE  WalletInv'
<1>1. UNCHANGED <<system, etc, botched>>
  BY DEF SetTargetOff
<1>2. PICK target \in Target :
        LET keep == target = "lock-screen" /\ users_preferring_face # {}
        IN  op' = [Idle EXCEPT !.name = "disable", !.target = target, !.state = manifest,
                               !.user = autologin_user, !.todo = disable_plan(target, keep)]
  BY DEF SetTargetOff
<1> DEFINE keep == target = "lock-screen" /\ users_preferring_face # {}
<1>3. /\ DOMAIN op' = {"name", "target", "user", "plan", "todo", "state", "before"}
      /\ op'.name = "disable" /\ op'.todo = disable_plan(target, keep)
  BY <1>2 DEF Idle
<1>4. Reverting(etc, op'.todo)
  BY <1>3, DisablePlanIs
<1>5. InOperation(etc, op', botched)
  BY <1>3, <1>4 DEF InOperation
<1> QED
  BY <1>1, <1>3, <1>5 DEF WalletInv

\* reset begins, with the drop-in.
LEMMA StartResetKeeps ==
  ASSUME WalletInv, StartReset
  PROVE  WalletInv'
<1> DEFINE paths == Sorted \o <<RC, DROPIN>>
           At(P) == Pick(paths, {i \in DOMAIN paths : paths[i] \in P})
           inManifest == At({p \in Path : manifest[p] # NoEntry})
           swept == At({p \in Path \ {DROPIN} : etc[p] # NoFile})
           a == << <<DROPIN, FORGET>>, <<DROPIN, {BEGIN}>> >>
           b == [i \in DOMAIN inManifest |-> <<inManifest[i], BEGINS>>]
           c == [i \in DOMAIN swept |-> <<swept[i], SWEEP>>]
<1>1. UNCHANGED <<system, etc, botched>>
  BY DEF StartReset
<1>2. op' = [Idle EXCEPT !.name = "reset", !.state = manifest, !.todo = a \o b \o c]
  BY DEF StartReset
<1>3. paths \in Seq(Path)
  <2>1. Sorted \in Seq(Path)
    BY DEF Sorted, Path, Service
  <2>2. <<RC, DROPIN>> \in Seq(Path)
    BY DEF Path
  <2> QED
    BY <2>1, <2>2
<1>4. \A P : At(P) \in Seq(Path)
  <2> TAKE P
  <2> HIDE DEF paths
  <2> DEFINE K == {i \in DOMAIN paths : paths[i] \in P}
             A == {paths[j] : j \in K \cap DOMAIN paths}
  <2>1. A \subseteq Path
    <3>1. \A j \in DOMAIN paths : paths[j] \in Path
      BY <1>3
    <3> QED
      BY <3>1
  <2>2. Pick(paths, K) \in Seq(A)
    BY <1>3, PickType
  <2> HIDE DEF A
  <2> QED
    BY <2>1, <2>2, OfSubset
<1>5. inManifest \in Seq(Path) /\ swept \in Seq(Path)
  BY <1>4
<1> HIDE DEF inManifest, swept, At, paths
<1>6. b \in Seq(Reverts)
  <2>1. \A i \in DOMAIN inManifest : <<inManifest[i], BEGINS>> \in Reverts
    BY <1>5 DEF Reverts
  <2> QED
    BY <1>5, <2>1
<1>7. c \in Seq(Reverts)
  <2>1. \A i \in DOMAIN swept : <<swept[i], SWEEP>> \in Reverts
    BY <1>5 DEF Reverts
  <2> QED
    BY <1>5, <2>1
<1> DEFINE x == <<DROPIN, FORGET>>
           y == <<DROPIN, {BEGIN}>>
<1>8. x \in Reverts /\ y \in Reverts /\ a = <<x, y>>
  BY Begins
<1>9. x = <<DROPIN, FORGET>> /\ y = <<DROPIN, {BEGIN}>>
  OBVIOUS
<1> HIDE DEF x, y, a, b, c
<1> DEFINE d == b \o c
           q == a \o d
<1>10. (a \o b) \o c = q
  <2>1. a \in Seq(Reverts) /\ b \in Seq(Reverts) /\ c \in Seq(Reverts)
    BY <1>6, <1>7, <1>8
  <2> QED
    BY <2>1
<1>11. d \in Seq(Reverts)
  BY <1>6, <1>7
<1> HIDE DEF d
<1>12. q \in Seq(Reverts) /\ q # <<>> /\ Head(q) = x /\ Tail(q) # <<>> /\ Head(Tail(q)) = y
  <2>1. a \in Seq(Reverts) /\ Len(a) = 2 /\ a[1] = x /\ a[2] = y
    BY <1>8
  <2>2. q \in Seq(Reverts) /\ Len(q) = 2 + Len(d) /\ q[1] = x /\ q[2] = y /\ Len(d) \in Nat
    <3>1. q \in Seq(Reverts) /\ Len(q) = Len(a) + Len(d)
      BY <1>11, <2>1, Joined
    <3>2. \A i \in 1..Len(a) : q[i] = a[i]
      BY <1>11, <2>1, Joined
    <3>4. Len(d) \in Nat
      BY <1>11
    <3>3. 1 \in 1..Len(a) /\ 2 \in 1..Len(a)
      BY <2>1
    <3> HIDE DEF q
    <3> QED
      BY <2>1, <3>1, <3>2, <3>3, <3>4
  <2> HIDE DEF q
  <2>3. Len(q) >= 2
    BY <2>2
  <2>4. q # <<>> /\ Head(q) = q[1]
    BY <2>2, <2>3
  <2>5. Tail(q) \in Seq(Reverts) /\ Len(Tail(q)) >= 1 /\ Tail(q)[1] = q[2]
    BY <2>2, <2>3, <2>4
  <2>6. Tail(q) # <<>> /\ Head(Tail(q)) = Tail(q)[1]
    <3> DEFINE r == Tail(q)
    <3> HIDE DEF r
    <3>1. r \in Seq(Reverts) /\ Len(r) >= 1
      BY <2>5 DEF r
    <3>2. r # <<>>
      BY <3>1
    <3>3. Head(r) = r[1]
      BY <3>1, <3>2
    <3> QED
      BY <3>2, <3>3 DEF r
  <2> QED
    BY <2>2, <2>4, <2>5, <2>6
<1> HIDE DEF q
<1>13. op'.todo = q /\ op'.name = "reset"
       /\ DOMAIN op' = {"name", "target", "user", "plan", "todo", "state", "before"}
  BY <1>2, <1>10 DEF Idle
<1>14. Reverting(etc, op'.todo)
  BY <1>9, <1>12, <1>13 DEF Reverting
<1>15. InOperation(etc, op', botched)
  BY <1>13, <1>14 DEF InOperation
<1> QED
  BY <1>1, <1>13, <1>15 DEF WalletInv

\* A step of disable or of reset that is not the drop-in's.
LEMMA RevertStepKeeps ==
  ASSUME WalletInv, RevertStep
  PROVE  WalletInv'
<1> DEFINE s == Head(op.todo)
           p == s[1]
           B == s[2]
           rest == Tail(op.todo)
           x == IF B = SWEEP THEN swept_text(p) ELSE reverted_text(p, B, op.state[p])
<1>0. /\ system' = system /\ op.name \in {"disable", "reset"} /\ op.todo # <<>>
      /\ etc' = IF B = FORGET THEN etc ELSE [etc EXCEPT ![p] = x]
      /\ botched' <=> (botched /\ etc'[DROPIN] # NoFile)
  BY DEF RevertStep
<1>1. /\ DOMAIN op' = {"name", "target", "user", "plan", "todo", "state", "before"}
      /\ op'.name = op.name /\ op'.todo = rest
  BY DEF RevertStep, WalletInv
<1>2. system \in Systems /\ Sound(etc, botched) /\ DOMAIN etc = Path /\ Guarded(etc, botched) /\ Reverting(etc, op.todo)
  BY <1>0 DEF WalletInv, InOperation, Sound
<1>3. op.todo \in Seq(Reverts)
  BY <1>2 DEF Reverting
<1>4. s \in Reverts /\ rest \in Seq(Reverts)
  BY <1>0, <1>3
<1>5. p \in Path /\ (B = SWEEP \/ B \in SUBSET BEGINS)
  BY <1>4, Begins DEF Reverts
<1> HIDE DEF s, rest, p, B
<1>6. (p \in Service => x \in Seq(LINE)) /\ (p = LOGIN => Laid(x))
  <2>1. CASE p \in Service /\ B = SWEEP
    BY <1>2, <2>1, SweptText
  <2>2. CASE p \in Service /\ B # SWEEP
    BY <1>2, <1>5, <2>2, RevertedText
  <2> QED
    BY <2>1, <2>2, Names
<1>7. p = DROPIN /\ etc[DROPIN] = NoFile => x = NoFile
  <2>1. etc[DROPIN] = NoFile => swept_text(DROPIN) = NoFile
    BY DEF swept_text
  <2> QED
    BY <2>1, DropInGoes
<1>8. \A q \in Path : [etc EXCEPT ![p] = x][q] = IF q = p THEN x ELSE etc[q]
  BY <1>2
<1>9. DROPIN \in Path /\ LOGIN \in Path /\ AUTOLOGIN \in Path
  BY Names
<1>10. Sound(etc', botched) /\ Reverting(etc', rest)
  <2>1. CASE etc[DROPIN] = NoFile
    <3>1. etc'[DROPIN] = NoFile
      BY <1>0, <1>7, <1>8, <1>9, <2>1
    <3>2. Guarded(etc', botched)
      BY <3>1 DEF Guarded
    <3>3. Sound(etc', botched)
      <4>1. CASE B = FORGET
        BY <1>0, <1>2, <4>1
      <4>2. CASE B # FORGET
        <5> HIDE DEF x
        <5>1. etc' = [etc EXCEPT ![p] = x]
          BY <1>0, <4>2
        <5> QED
          BY <1>2, <1>6, <3>2, <5>1, PutSound
      <4> QED
        BY <4>1, <4>2
    <3> QED
      BY <1>4, <3>1, <3>3 DEF Reverting
  <2>2. CASE s = <<DROPIN, {BEGIN}>>
    <3>1. p = DROPIN /\ B = {BEGIN}
      BY <2>2 DEF p, B
    <3>2. x = NoFile /\ B # FORGET
      BY <3>1, Begins, DropInGoes
    <3> HIDE DEF x
    <3>3. etc' = [etc EXCEPT ![p] = x] /\ etc'[DROPIN] = NoFile
      BY <1>0, <1>8, <1>9, <3>1, <3>2
    <3>4. Guarded(etc', botched)
      BY <3>3 DEF Guarded
    <3>5. Sound(etc', botched)
      BY <1>2, <1>6, <3>3, <3>4, PutSound
    <3> QED
      BY <1>4, <3>3, <3>5 DEF Reverting
  <2>3. CASE s = <<DROPIN, FORGET>> /\ rest # <<>> /\ Head(rest) = <<DROPIN, {BEGIN}>>
    <3>1. B = FORGET
      BY <2>3 DEF B
    <3>2. etc' = etc
      BY <1>0, <3>1
    <3> QED
      BY <1>2, <1>4, <2>3, <3>2 DEF Reverting
  <2>4. CASE op.todo \in Seq(PlainReverts)
    <3>1. s \in PlainReverts /\ rest \in Seq(PlainReverts)
      BY <1>0, <2>4 DEF s, rest
    <3>2. p \in Path \ {DROPIN, AUTOLOGIN} /\ B = {BEGIN}
      BY <3>1 DEF PlainReverts, p, B
    <3>3. B # FORGET /\ B # SWEEP /\ B \in SUBSET BEGINS
      BY <1>5, <3>2, Begins
    <3>4. p = LOGIN /\ has_block(etc[LOGIN], WALLET_BEGIN) => has_block(x, WALLET_BEGIN)
      BY <1>2, <3>2, <3>3, Names, RevertedText
    <3> HIDE DEF x
    <3>5. etc' = [etc EXCEPT ![p] = x]
      BY <1>0, <3>3
    <3>6. etc'[DROPIN] = etc[DROPIN] /\ etc'[AUTOLOGIN] = etc[AUTOLOGIN]
          /\ etc'[LOGIN] = IF LOGIN = p THEN x ELSE etc[LOGIN]
      BY <1>8, <1>9, <3>2, <3>5
    <3>7. Guarded(etc', botched)
      BY <1>2, <3>4, <3>6 DEF Guarded
    <3>8. Sound(etc', botched)
      BY <1>2, <1>6, <3>5, <3>7, PutSound
    <3> QED
      BY <1>4, <3>1, <3>8 DEF Reverting
  <2> QED
    BY <1>2, <2>1, <2>2, <2>3, <2>4 DEF Reverting, s, rest
<1> HIDE DEF x
<1>12. Sound(etc', botched')
  BY <1>0, <1>10 DEF Sound, Guarded
<1>11. InOperation(etc', op', botched')
  BY <1>0, <1>1, <1>10 DEF InOperation
<1> QED
  BY <1>0, <1>1, <1>2, <1>11, <1>12 DEF WalletInv

\* The administrator adds a line.
LEMMA AdminEditKeeps ==
  ASSUME WalletInv, AdminEdit
  PROVE  WalletInv'
<1>1. PICK p \in Path \ {DROPIN}, line \in ADMIN_LINES :
        etc' = [etc EXCEPT ![p] = IF Found(p) THEN Append(Source(p), line) ELSE <<line>>]
  BY DEF AdminEdit
<1>2. UNCHANGED <<system, op, botched>> /\ op = Idle
  BY DEF AdminEdit
<1> DEFINE x == IF Found(p) THEN Append(Source(p), line) ELSE <<line>>
<1>3. system \in Systems /\ Sound(etc, botched) /\ Guarded(etc, botched) /\ DOMAIN etc = Path
  BY DEF WalletInv, Sound
<1>4. line \in LINE /\ Stripped(line) \notin BEGINS \cup {OWN_HEADER} /\ line \in Foreign
  BY AdminLinesAssumption DEF Foreign
<1>5. ASSUME p \in Service PROVE x \in Seq(LINE)
  <2>1. Source(p) \in Seq(LINE)
    BY <1>3, <1>5, SourceIs
  <2>2. Append(Source(p), line) \in Seq(LINE)
    BY <1>4, <2>1
  <2>3. <<line>> \in Seq(LINE)
    BY <1>4, OneLine
  <2> QED
    BY <2>2, <2>3
<1>6. ASSUME p = LOGIN PROVE Laid(x)
  <2>1. Laid(Append(Source(p), line))
    BY <1>3, <1>4, <1>6, SourceIs, AppendLaid
  <2>2. <<line>> \in Seq(Foreign)
    BY <1>4, OneLine
  <2>3. Laid(<<line>>)
    BY <2>2, ForeignLaid
  <2> QED
    BY <2>1, <2>3
<1>7. ASSUME p \in Service, has_block(etc[p], WALLET_BEGIN) PROVE has_block(x, WALLET_BEGIN)
  <2>1. Source(p) = etc[p] /\ Source(p) \in Seq(LINE)
    BY <1>3, <1>7, SourceIs
  <2>2. etc[p] # NoFile
    <3>1. \A i \in DOMAIN NoFile : NoFile[i] = Line("", "", "no file", "")
      BY OneLine DEF NoFile
    <3>2. Stripped(Line("", "", "no file", "")).mod = "no file"
      BY DEF Stripped, Line
    <3>3. WALLET_BEGIN.mod = "WALLET_BEGIN"
      BY DEF WALLET_BEGIN, Line
    <3> QED
      BY <1>7, <3>1, <3>2, <3>3 DEF has_block
  <2>3. Found(p)
    BY <2>1, <2>2 DEF Found
  <2> QED
    BY <1>4, <1>7, <2>1, <2>3, AppendHas
<1> HIDE DEF x
<1>8. etc' = [etc EXCEPT ![p] = x] /\ \A q \in Path : etc'[q] = IF q = p THEN x ELSE etc[q]
  BY <1>1, <1>3 DEF x
<1>9. etc'[DROPIN] = etc[DROPIN]
      /\ etc'[LOGIN] = (IF LOGIN = p THEN x ELSE etc[LOGIN])
      /\ etc'[AUTOLOGIN] = (IF AUTOLOGIN = p THEN x ELSE etc[AUTOLOGIN])
  BY <1>8, Names
<1>10. Guarded(etc', botched)
  BY <1>3, <1>7, <1>9, Names DEF Guarded
<1>11. Sound(etc', botched)
  BY <1>3, <1>5, <1>6, <1>8, <1>10, PutSound
<1>12. op'.name = "idle" /\ DOMAIN op' = {"name", "target", "user", "plan", "todo", "state", "before"}
  BY <1>2 DEF Idle
<1>13. InOperation(etc', op', botched)
  BY <1>12 DEF InOperation
<1> QED
  BY <1>2, <1>3, <1>9, <1>11, <1>12, <1>13 DEF WalletInv

\* No file changes, and what the operation still has to do is nothing to them.
LEMMA FilesStayKeeps ==
  ASSUME WalletInv, UNCHANGED <<system, etc, botched>>,
         \/ op' = op \/ op' = Idle
         \/ op'.name = "reset-choices"
            /\ DOMAIN op' = {"name", "target", "user", "plan", "todo", "state", "before"}
  PROVE  WalletInv'
<1>1. CASE op' = op
  BY <1>1 DEF WalletInv, InOperation
<1>2. ASSUME op'.name \in {"idle", "reset-choices"},
             DOMAIN op' = {"name", "target", "user", "plan", "todo", "state", "before"}
      PROVE  WalletInv'
  <2>1. InOperation(etc', op', botched')
    BY <1>2 DEF InOperation
  <2> QED
    BY <1>2, <2>1 DEF WalletInv
<1>3. CASE op' = Idle
  <2>1. op'.name = "idle" /\ DOMAIN op' = {"name", "target", "user", "plan", "todo", "state", "before"}
    BY <1>3 DEF Idle
  <2> QED
    BY <1>2, <2>1
<1> QED
  BY <1>1, <1>2, <1>3

\* Every step preserves the invariant.
LEMMA WalletStep == WalletInv /\ [FilesNext]_pam_vars => WalletInv'
<1> SUFFICES ASSUME WalletInv, [FilesNext]_pam_vars PROVE WalletInv'
  OBVIOUS
<1>1. CASE SetTargetOn
  BY <1>1, StartEnableKeeps DEF SetTargetOn
<1>2. CASE Refresh
  BY <1>2, StartEnableKeeps DEF Refresh
<1>3. CASE EnableStep
  BY <1>3, EnableStepKeeps
<1>4. CASE EnableFails
  BY <1>4, EnableFailsKeeps
<1>5. CASE RollbackStep
  BY <1>5, RollbackKeeps
<1>6. CASE SetTargetOff
  BY <1>6, SetTargetOffKeeps
<1>7. CASE StartReset
  BY <1>7, StartResetKeeps
<1>8. CASE RevertStep
  BY <1>8, RevertStepKeeps
<1>9. CASE SaveState
  BY <1>9, FilesStayKeeps DEF SaveState
<1>10. CASE Abort
  BY <1>10, FilesStayKeeps DEF Abort
<1>11. CASE AdminEdit
  BY <1>11, AdminEditKeeps
<1>12. CASE LoginSettings
  BY <1>12, FilesStayKeeps DEF LoginSettings
<1>13. CASE ResetSystem
  <2>1. UNCHANGED <<system, etc, botched>>
        /\ op' = [Idle EXCEPT !.name = "reset-choices", !.todo = SetToSeq(users_preferring_face)]
    BY <1>13 DEF ResetSystem
  <2>2. op'.name = "reset-choices" /\ DOMAIN op' = {"name", "target", "user", "plan", "todo", "state", "before"}
    BY <2>1 DEF Idle
  <2> QED
    BY <2>1, <2>2, FilesStayKeeps
<1>14. CASE ResetChoice
  <2>1. UNCHANGED <<system, etc, botched>> /\ op.name = "reset-choices" /\ op' = [op EXCEPT !.todo = Tail(@)]
    BY <1>14 DEF ResetChoice
  <2>2. op'.name = "reset-choices" /\ DOMAIN op' = {"name", "target", "user", "plan", "todo", "state", "before"}
    BY <2>1 DEF WalletInv
  <2> QED
    BY <2>1, <2>2, FilesStayKeeps
<1>15. CASE \E user \in Users : LookUpOption(user) \/ PreferFace(user) \/ StopPreferringFace(user)
  <2>1. UNCHANGED <<system, etc, botched>> /\ op' = op
    BY <1>15 DEF LookUpOption, PreferFace, StopPreferringFace, fileVars
  <2> QED
    BY <2>1, FilesStayKeeps
<1>16. CASE UNCHANGED pam_vars
  <2>1. UNCHANGED <<system, etc, botched>> /\ op' = op
    BY <1>16 DEF pam_vars
  <2> QED
    BY <2>1, FilesStayKeeps
<1> QED
  BY <1>1, <1>2, <1>3, <1>4, <1>5, <1>6, <1>7, <1>8, <1>9, <1>10, <1>11, <1>12, <1>13, <1>14,
     <1>15, <1>16 DEF FilesNext

\* The automatic login's drop-in is never there without both of KWallet's blocks,
\* in and between the steps of enable, its rollback, disable and reset, wherever
\* one was broken off and whatever was added to the files in between, but for a
\* drop-in that an enable which failed after writing it has left.
THEOREM WalletKept == FilesSpec => []DropInHasWallet
<1>1. WalletInv => DropInHasWallet
  BY DEF WalletInv, Sound, Guarded, DropInHasWallet, LOGIN, AUTOLOGIN
<1> QED
  BY <1>1, WalletInit, WalletStep, PTL DEF FilesSpec

\* Line i is in the [Greeter] that starts at h.
Under(lines, h, i) ==
  /\ h \in Greeters(lines) /\ h <= i
  /\ \A j \in (h + 1)..i : ~IsGroup(lines[j])

\* A line is in [Greeter] if a heading of that name is the last one ahead of it.
LEMMA GroupIs ==
  ASSUME NEW lines \in Seq(INI), NEW i \in DOMAIN lines
  PROVE  GroupAt(lines, i) = "Greeter" <=> \E h \in DOMAIN lines : Under(lines, h, i)
<1> DEFINE heads == {j \in 1..i : IsGroup(lines[j])}
<1>0. DOMAIN lines = 1..Len(lines) /\ Len(lines) \in Nat /\ i \in Nat /\ \A j \in 1..i : j \in DOMAIN lines
  OBVIOUS
<1>1. CASE heads = {}
  <2>1. GroupAt(lines, i) = ""
    BY <1>1 DEF GroupAt
  <2>2. ASSUME NEW h \in DOMAIN lines, Under(lines, h, i) PROVE FALSE
    BY <1>0, <1>1, <2>2 DEF Under, Greeters
  <2> QED
    BY <2>1, <2>2
<1>2. CASE heads # {}
  <2> DEFINE m == Max(heads)
  <2>1. heads \in SUBSET (1..i)
    OBVIOUS
  <2>2. m \in heads /\ \A y \in heads : y <= m
    <3> HIDE DEF heads
    <3> QED
      BY <1>0, <1>2, <2>1, MaxIs
  <2>3. GroupAt(lines, i) = lines[m][2]
    BY <1>2 DEF GroupAt
  <2> HIDE DEF m
  <2>4. m \in DOMAIN lines /\ IsGroup(lines[m]) /\ m \in 1..i
    BY <1>0, <2>2
  <2>5. \A j \in (m + 1)..i : ~IsGroup(lines[j])
    <3> SUFFICES ASSUME NEW j \in (m + 1)..i, IsGroup(lines[j]) PROVE FALSE
      OBVIOUS
    <3>1. j \in heads /\ ~(j <= m)
      BY <1>0, <2>4
    <3> QED
      BY <2>2, <3>1
  <2>6. ASSUME lines[m][2] = "Greeter" PROVE Under(lines, m, i)
    BY <1>0, <2>4, <2>5, <2>6 DEF Under, Greeters
  <2>7. ASSUME NEW h \in DOMAIN lines, Under(lines, h, i) PROVE lines[m][2] = "Greeter"
    <3>1. h \in heads /\ lines[h][2] = "Greeter" /\ h \in Nat
      BY <1>0, <2>7 DEF Under, Greeters
    <3>2. ~(m \in (h + 1)..i)
      BY <2>4, <2>7 DEF Under
    <3>3. m = h
      BY <1>0, <2>2, <2>4, <3>1, <3>2
    <3> QED
      BY <3>1, <3>3
  <2> QED
    BY <2>3, <2>4, <2>6, <2>7
<1> QED
  BY <1>1, <1>2

\* The lines that hold the choice.
ChoiceKeys(lines) == KeysAt(lines, "Greeter", "Authenticator")

\* Which lines those are.
LEMMA ChoicesIs ==
  ASSUME NEW lines \in Seq(INI), NEW i
  PROVE  i \in ChoiceKeys(lines) <=>
           /\ i \in DOMAIN lines /\ ~IsGroup(lines[i]) /\ lines[i][1] = "Authenticator"
           /\ \E h \in DOMAIN lines : Under(lines, h, i)
BY GroupIs DEF ChoiceKeys, KeysAt

\* What is picked of a text into which a line went that is not picked.
Inserted(s, m, x, new) ==
  /\ m \in 1..(Len(s) + 1) /\ Len(new) = Len(s) + 1
  /\ \A i \in 1..(m - 1) : new[i] = s[i]
  /\ new[m] = x
  /\ \A i \in m..Len(s) : new[i + 1] = s[i]

\* A line put in that is not picked makes no difference to Pick.
LEMMA PickInserted ==
  ASSUME NEW A, NEW s \in Seq(A), NEW m, NEW x, NEW new \in Seq(A), Inserted(s, m, x, new),
         NEW K, NEW L, m \notin L,
         \A i \in 1..(m - 1) : i \in L <=> i \in K,
         \A i \in m..Len(s) : i + 1 \in L <=> i \in K
  PROVE  Pick(new, L) = Pick(s, K)
<1> DEFINE n == Len(s)
<1>0. n \in Nat /\ m \in 1..(n + 1) /\ Len(new) = n + 1 /\ m \in Nat
  BY DEF Inserted
<1>1. PICK r : /\ r[0] = <<>>
               /\ \A i \in 1..n : r[i] = PickStep(K, r[i - 1], i, s[i])
               /\ Pick(s, K) = r[n]
  BY PickIs
<1>11. PICK q : /\ q[0] = <<>>
                /\ \A i \in 1..Len(new) : q[i] = PickStep(L, q[i - 1], i, new[i])
                /\ Pick(new, L) = q[Len(new)]
  BY PickIs
<1>2. /\ q[0] = <<>>
      /\ \A i \in 1..(n + 1) : q[i] = PickStep(L, q[i - 1], i, new[i])
      /\ Pick(new, L) = q[n + 1]
  BY <1>0, <1>11
<1> HIDE DEF n
<1> DEFINE T == {i \in 0..n : IF i < m THEN q[i] = r[i] ELSE q[i + 1] = r[i]}
<1>3. \A i \in 1..(m - 1) : new[i] = s[i]
  BY DEF Inserted
<1>4. \A i \in m..n : new[i + 1] = s[i]
  BY DEF Inserted, n
<1>5. 0 \in T
  BY <1>0, <1>1, <1>2
<1>6. q[m] = q[m - 1]
  BY <1>0, <1>2 DEF PickStep
<1>7. ASSUME NEW i \in 1..n, i - 1 \in T PROVE i \in T
  <2>1. CASE i < m
    <3>1. i \in 1..(m - 1) /\ i \in 1..(n + 1) /\ q[i - 1] = r[i - 1]
      BY <1>0, <1>7, <2>1
    <3>2. q[i] = PickStep(L, q[i - 1], i, new[i]) /\ r[i] = PickStep(K, r[i - 1], i, s[i])
      BY <1>1, <1>2, <3>1
    <3>3. q[i] = r[i]
      BY <1>3, <3>1, <3>2 DEF PickStep
    <3> QED
      BY <1>0, <2>1, <3>3
  <2>2. CASE i >= m
    <3>1. i \in m..n /\ i + 1 \in 1..(n + 1) /\ (i + 1) - 1 = i
      BY <1>0, <2>2
    <3>2. q[i + 1] = PickStep(L, q[(i + 1) - 1], i + 1, new[i + 1])
      BY <1>2, <3>1
    <3>3. r[i] = PickStep(K, r[i - 1], i, s[i])
      BY <1>1
    <3>4. q[i] = r[i - 1]
      <4>1. CASE i = m
        BY <1>0, <1>6, <1>7, <4>1
      <4>2. CASE i # m
        <5>1. ~(i - 1 < m) /\ (i - 1) + 1 = i
          BY <1>0, <2>2, <4>2
        <5> QED
          BY <1>7, <5>1
      <4> QED
        BY <4>1, <4>2
    <3>5. q[i + 1] = r[i]
      <4>1. i + 1 \in L <=> i \in K
        BY <3>1 DEF n
      <4> QED
        BY <1>4, <3>1, <3>2, <3>3, <3>4, <4>1 DEF PickStep
    <3> QED
      BY <1>0, <2>2, <3>5
  <2> QED
    BY <1>0, <2>1, <2>2
<1>8. n \in T
  <2> HIDE DEF T
  <2>1. \A i \in 0..n : i \in T
    BY <1>0, <1>5, <1>7, UpTo
  <2> QED
    BY <1>0, <2>1
<1>9. CASE m <= n
  BY <1>0, <1>1, <1>2, <1>8, <1>9
<1>10. CASE m = n + 1
  BY <1>0, <1>1, <1>2, <1>6, <1>8, <1>10
<1> QED
  BY <1>0, <1>9, <1>10

\* What is picked of a text whose other lines were replaced.
LEMMA PickReplaced ==
  ASSUME NEW A, NEW s \in Seq(A), NEW new \in Seq(A), Len(new) = Len(s), NEW K, NEW L,
         \A i \in 1..Len(s) : (i \in L <=> i \in K) /\ (i \in K => new[i] = s[i])
  PROVE  Pick(new, L) = Pick(s, K)
<1> DEFINE n == Len(s)
<1>0. n \in Nat /\ Len(new) = n
  OBVIOUS
<1>1. PICK r : /\ r[0] = <<>>
               /\ \A i \in 1..n : r[i] = PickStep(K, r[i - 1], i, s[i])
               /\ Pick(s, K) = r[n]
  BY PickIs
<1>2. PICK q : /\ q[0] = <<>>
               /\ \A i \in 1..n : q[i] = PickStep(L, q[i - 1], i, new[i])
               /\ Pick(new, L) = q[n]
  BY <1>0, PickIs
<1>3. \A i \in 1..n : (i \in L <=> i \in K) /\ (i \in K => new[i] = s[i])
  OBVIOUS
<1> HIDE DEF n
<1> DEFINE T == {i \in 0..n : q[i] = r[i]}
<1>4. 0 \in T
  BY <1>0, <1>1, <1>2
<1>5. ASSUME NEW i \in 1..n, i - 1 \in T PROVE i \in T
  <2>1. q[i] = PickStep(L, q[i - 1], i, new[i]) /\ r[i] = PickStep(K, r[i - 1], i, s[i])
    BY <1>1, <1>2
  <2>2. q[i] = r[i]
    BY <1>3, <1>5, <2>1 DEF PickStep
  <2> QED
    BY <1>0, <2>2
<1>6. n \in T
  <2> HIDE DEF T
  <2>1. \A i \in 0..n : i \in T
    BY <1>0, <1>4, <1>5, UpTo
  <2> QED
    BY <1>0, <2>1
<1> QED
  BY <1>1, <1>2, <1>6

\* The lines that are neither a choice nor the heading of its group.
Others(lines) == {i \in DOMAIN lines : lines[i][1] # "Authenticator" /\ lines[i] # <<"[", "Greeter">>}

\* What set_choice promises of a tidy file.
Chosen(lines, value, new) ==
  /\ Tidy(new)
  /\ \E h : Greeters(new) = {h}
  /\ \E k : ChoiceKeys(new) = {k} /\ new[k][2] = value
  /\ Pick(new, Others(new)) = Pick(lines, Others(lines))

\* The lines set_choice writes.
LEMMA IniWords ==
  ASSUME NEW value \in {"Face", "Regular"}
  PROVE  /\ IniLine("Authenticator", value) \in INI
         /\ IniLine("Authenticator", value)[1] = "Authenticator"
         /\ IniLine("Authenticator", value)[2] = value
         /\ ~IsGroup(IniLine("Authenticator", value))
         /\ IniLine("[", "Greeter") \in INI
         /\ IniLine("[", "Greeter") = <<"[", "Greeter">>
         /\ IsGroup(IniLine("[", "Greeter"))
<1>1. "Authenticator" \in WORD /\ "Face" \in WORD /\ "Regular" \in WORD /\ "[" \in WORD /\ "Greeter" \in WORD
  BY WordAssumption DEF OUR_WORDS
<1> QED
  BY <1>1 DEF IniLine, INI, IsGroup

\* A choice written over the one that is there.
LEMMA ReplaceChoice ==
  ASSUME NEW lines, Tidy(lines), NEW k \in ChoiceKeys(lines), NEW value \in {"Face", "Regular"}
  PROVE  Chosen(lines, value, [lines EXCEPT ![k] = IniLine("Authenticator", value)])
<1> DEFINE entry == IniLine("Authenticator", value)
           new == [lines EXCEPT ![k] = entry]
           n == Len(lines)
<1>0. lines \in Seq(INI) /\ DOMAIN lines = 1..n /\ n \in Nat
  BY DEF Tidy
<1>1. entry \in INI /\ entry[1] = "Authenticator" /\ entry[2] = value /\ ~IsGroup(entry)
  BY IniWords
<1> HIDE DEF entry
<1>2. /\ k \in DOMAIN lines /\ ~IsGroup(lines[k]) /\ lines[k][1] = "Authenticator"
      /\ \E h \in DOMAIN lines : Under(lines, h, k)
  BY <1>0, ChoicesIs
<1>3. new \in Seq(INI) /\ Len(new) = n /\ DOMAIN new = DOMAIN lines /\ new[k] = entry
      /\ \A i \in DOMAIN lines : i # k => new[i] = lines[i]
  BY <1>0, <1>1, <1>2
<1> HIDE DEF new, n
<1>4. \A i \in DOMAIN lines : IsGroup(new[i]) <=> IsGroup(lines[i])
  BY <1>1, <1>2, <1>3
<1>5. Greeters(new) = Greeters(lines)
  BY <1>1, <1>2, <1>3 DEF Greeters
<1>6. \A h, i \in DOMAIN lines : Under(new, h, i) <=> Under(lines, h, i)
  <2> TAKE h, i \in DOMAIN lines
  <2>1. \A j \in (h + 1)..i : j \in DOMAIN lines
    BY <1>0
  <2> QED
    BY <1>4, <1>5, <2>1 DEF Under
<1>7. k \in ChoiceKeys(new)
  BY <1>1, <1>2, <1>3, <1>6, ChoicesIs
<1>8. \A i \in ChoiceKeys(new) : i \in ChoiceKeys(lines)
  <2> TAKE i \in ChoiceKeys(new)
  <2>1. i \in DOMAIN lines /\ ~IsGroup(new[i]) /\ new[i][1] = "Authenticator"
        /\ \E h \in DOMAIN lines : Under(lines, h, i)
    BY <1>3, <1>6, ChoicesIs
  <2> QED
    BY <1>0, <1>2, <1>3, <2>1, ChoicesIs
<1>9. \A i \in ChoiceKeys(new) : i = k
  BY <1>8 DEF Tidy, AtMostOne, ChoiceKeys
<1>10. ChoiceKeys(new) = {k} /\ new[k][2] = value
  BY <1>1, <1>3, <1>7, <1>9
<1>11. PICK h \in DOMAIN lines : Under(lines, h, k)
  BY <1>2
<1>12. Greeters(new) = {h}
  BY <1>5, <1>11 DEF Under, Tidy, AtMostOne
<1>13. Tidy(new)
  BY <1>3, <1>10, <1>12 DEF Tidy, AtMostOne, ChoiceKeys
<1>14. Pick(new, Others(new)) = Pick(lines, Others(lines))
  <2>1. \A i \in 1..Len(lines) : (i \in Others(new) <=> i \in Others(lines))
                                 /\ (i \in Others(lines) => new[i] = lines[i])
    BY <1>0, <1>1, <1>2, <1>3 DEF Others, n
  <2> QED
    BY <1>0, <1>3, <2>1, PickReplaced DEF n
<1> QED
  BY <1>10, <1>12, <1>13, <1>14 DEF Chosen, new, entry

\* A choice written where the only [Greeter] of a file without one ends.
LEMMA InsertChoice ==
  ASSUME NEW lines, Tidy(lines), ChoiceKeys(lines) = {}, NEW h \in Greeters(lines),
         NEW value \in {"Face", "Regular"}, NEW m, NEW new \in Seq(INI),
         Inserted(lines, m, IniLine("Authenticator", value), new), h < m,
         \A j \in (h + 1)..(m - 1) : ~IsGroup(lines[j]),
         m <= Len(lines) => IsGroup(lines[m])
  PROVE  Chosen(lines, value, new)
<1> DEFINE entry == IniLine("Authenticator", value)
           n == Len(lines)
<1>0. lines \in Seq(INI) /\ DOMAIN lines = 1..n /\ n \in Nat
  BY DEF Tidy
<1>1. entry \in INI /\ entry[1] = "Authenticator" /\ entry[2] = value /\ ~IsGroup(entry)
  BY IniWords
<1>2. /\ m \in 1..(n + 1) /\ Len(new) = n + 1 /\ new[m] = entry
      /\ \A i \in 1..(m - 1) : new[i] = lines[i]
      /\ \A i \in m..n : new[i + 1] = lines[i]
  BY DEF Inserted
<1> HIDE DEF entry, n
<1>3. DOMAIN new = 1..(n + 1)
  BY <1>2
<1>4. \A i \in 1..(n + 1) : \/ i \in 1..(m - 1) /\ i \in DOMAIN lines /\ new[i] = lines[i]
                            \/ i = m
                            \/ i - 1 \in m..n /\ i - 1 \in DOMAIN lines /\ new[i] = lines[i - 1]
  <2> TAKE i \in 1..(n + 1)
  <2>1. CASE i < m
    BY <1>0, <1>2, <2>1
  <2>2. CASE i > m
    <3>1. i - 1 \in m..n /\ (i - 1) + 1 = i
      BY <1>0, <1>2, <2>2
    <3>2. new[(i - 1) + 1] = lines[i - 1]
      BY <1>2, <3>1
    <3> QED
      BY <1>0, <1>2, <3>1, <3>2
  <2> QED
    BY <1>0, <1>2, <2>1, <2>2
<1>5. h \in DOMAIN lines /\ h \in 1..(m - 1) /\ h \in Nat /\ m \in Nat
  BY <1>0, <1>2 DEF Greeters
<1>6. \A i \in Greeters(lines) : i = h
  BY DEF Tidy, AtMostOne
<1>7. Greeters(new) = {h}
  <2>1. h \in Greeters(new)
    BY <1>0, <1>2, <1>3, <1>5 DEF Greeters
  <2>2. ASSUME NEW i \in Greeters(new) PROVE i = h
    <3>1. i \in 1..(n + 1) /\ IsGroup(new[i]) /\ new[i][2] = "Greeter"
      BY <1>3 DEF Greeters
    <3>2. CASE i \in 1..(m - 1) /\ i \in DOMAIN lines /\ new[i] = lines[i]
      BY <1>6, <3>1, <3>2 DEF Greeters
    <3>3. CASE i = m
      BY <1>1, <1>2, <3>1, <3>3
    <3>4. CASE i - 1 \in m..n /\ i - 1 \in DOMAIN lines /\ new[i] = lines[i - 1]
      <4>1. i - 1 \in Greeters(lines)
        BY <3>1, <3>4 DEF Greeters
      <4>2. i - 1 = h
        BY <1>6, <4>1
      <4> QED
        BY <1>2, <1>5, <3>4, <4>2
    <3> QED
      BY <1>4, <3>1, <3>2, <3>3, <3>4
  <2> QED
    BY <2>1, <2>2
<1>8. \A j \in (h + 1)..m : ~IsGroup(new[j])
  <2> TAKE j \in (h + 1)..m
  <2>1. j = m \/ (j \in (h + 1)..(m - 1) /\ j \in 1..(m - 1))
    BY <1>5
  <2> QED
    BY <1>1, <1>2, <2>1
<1>9. m \in ChoiceKeys(new)
  <2>1. Under(new, h, m)
    BY <1>5, <1>7, <1>8 DEF Under
  <2>2. m \in DOMAIN new /\ h \in DOMAIN new
    BY <1>0, <1>2, <1>3, <1>5
  <2> QED
    BY <1>1, <1>2, <2>1, <2>2, ChoicesIs
<1>10. ASSUME NEW i \in ChoiceKeys(new) PROVE i = m
  <2>1. /\ i \in 1..(n + 1) /\ ~IsGroup(new[i]) /\ new[i][1] = "Authenticator"
        /\ \E g \in DOMAIN new : Under(new, g, i)
    BY <1>3, ChoicesIs
  <2>2. Under(new, h, i)
    BY <1>7, <2>1 DEF Under
  <2>3. h <= i /\ \A j \in (h + 1)..i : ~IsGroup(new[j])
    BY <2>2 DEF Under
  <2>4. CASE i < m
    <3>1. i \in DOMAIN lines /\ new[i] = lines[i]
      BY <1>0, <1>2, <2>1, <2>4
    <3>2. \A j \in (h + 1)..i : ~IsGroup(lines[j])
      <4> TAKE j \in (h + 1)..i
      <4>1. j \in (h + 1)..(m - 1)
        BY <1>5, <2>1, <2>4
      <4> QED
        BY <4>1
    <3>3. Under(lines, h, i)
      BY <2>3, <3>2 DEF Under
    <3>4. i \in ChoiceKeys(lines)
      BY <1>0, <1>5, <2>1, <3>1, <3>3, ChoicesIs
    <3> QED
      BY <3>4
  <2>5. CASE i > m
    <3>1. m + 1 \in (h + 1)..i /\ m \in m..n
      BY <1>0, <1>2, <1>5, <2>1, <2>5
    <3>2. new[m + 1] = lines[m] /\ IsGroup(lines[m])
      BY <1>2, <3>1 DEF n
    <3> QED
      BY <2>3, <3>1, <3>2
  <2> QED
    BY <1>0, <1>2, <2>1, <2>4, <2>5
<1>11. ChoiceKeys(new) = {m} /\ new[m][2] = value
  BY <1>1, <1>2, <1>9, <1>10
<1>12. Tidy(new)
  BY <1>7, <1>11 DEF Tidy, AtMostOne, ChoiceKeys
<1>13. Pick(new, Others(new)) = Pick(lines, Others(lines))
  <2>1. m \notin Others(new)
    BY <1>1, <1>2 DEF Others
  <2>2. \A i \in 1..(m - 1) : i \in Others(new) <=> i \in Others(lines)
    <3> TAKE i \in 1..(m - 1)
    <3>1. i \in DOMAIN new /\ i \in DOMAIN lines /\ new[i] = lines[i]
      BY <1>0, <1>2, <1>3
    <3> QED
      BY <3>1 DEF Others
  <2>3. \A i \in m..Len(lines) : i + 1 \in Others(new) <=> i \in Others(lines)
    <3> TAKE i \in m..Len(lines)
    <3>1. i + 1 \in DOMAIN new /\ i \in DOMAIN lines /\ new[i + 1] = lines[i]
      BY <1>0, <1>2, <1>3 DEF n
    <3> QED
      BY <3>1 DEF Others
  <2> QED
    BY <1>0, <2>1, <2>2, <2>3, PickInserted
<1> QED
  BY <1>7, <1>11, <1>12, <1>13 DEF Chosen

\* Append puts a line in at the end.
LEMMA AppendInserts ==
  ASSUME NEW A, NEW s \in Seq(A), NEW x \in A
  PROVE  Append(s, x) \in Seq(A) /\ Inserted(s, Len(s) + 1, x, Append(s, x))
BY DEF Inserted

\* Splice puts a line in.
LEMMA SpliceInserts ==
  ASSUME NEW A, NEW s \in Seq(A), NEW x \in A, NEW m \in 1..Len(s)
  PROVE  Splice(s, m, <<x>>) \in Seq(A) /\ Inserted(s, m, x, Splice(s, m, <<x>>))
<1> DEFINE p == SubSeq(s, 1, m - 1)
           q == SubSeq(s, m, Len(s))
           c == p \o <<x>>
           t == c \o q
<1>1. p \in Seq(A) /\ Len(p) = m - 1 /\ \A i \in 1..(m - 1) : p[i] = s[i]
  OBVIOUS
<1>2. q \in Seq(A) /\ Len(q) = Len(s) - m + 1
      /\ \A i \in 1..(Len(s) - m + 1) : q[i] = s[m + i - 1]
  OBVIOUS
<1>3. Splice(s, m, <<x>>) = t
  BY DEF Splice
<1> HIDE DEF p, q
<1>4. c \in Seq(A) /\ Len(c) = m /\ c[m] = x /\ \A i \in 1..(m - 1) : c[i] = p[i]
  BY <1>1
<1> HIDE DEF c
<1>5. t \in Seq(A) /\ Len(t) = Len(c) + Len(q)
      /\ (\A i \in 1..Len(c) : t[i] = c[i]) /\ \A i \in 1..Len(q) : t[Len(c) + i] = q[i]
  <2>1. c \in Seq(A) /\ q \in Seq(A)
    BY <1>2, <1>4
  <2> QED
    BY <2>1
<1> HIDE DEF t
<1>6. Len(t) = Len(s) + 1 /\ m \in 1..(Len(s) + 1)
  BY <1>2, <1>4, <1>5
<1>7. t[m] = x /\ \A i \in 1..(m - 1) : t[i] = s[i]
  <2>1. m \in 1..Len(c) /\ \A i \in 1..(m - 1) : i \in 1..Len(c)
    BY <1>4
  <2> QED
    BY <1>1, <1>4, <1>5, <2>1
<1>8. ASSUME NEW i \in m..Len(s) PROVE t[i + 1] = s[i]
  <2>1. /\ i - m + 1 \in 1..Len(q) /\ i - m + 1 \in 1..(Len(s) - m + 1)
        /\ Len(c) + (i - m + 1) = i + 1 /\ m + (i - m + 1) - 1 = i
    BY <1>2, <1>4
  <2>2. t[Len(c) + (i - m + 1)] = q[i - m + 1]
    BY <1>5, <2>1
  <2>3. q[i - m + 1] = s[m + (i - m + 1) - 1]
    BY <1>2, <2>1
  <2> QED
    BY <2>1, <2>2, <2>3
<1> QED
  BY <1>3, <1>5, <1>6, <1>7, <1>8 DEF Inserted

\* A file without [Greeter] gets one, at its end.
LEMMA NewGreeter ==
  ASSUME NEW lines, Tidy(lines), Greeters(lines) = {}
  PROVE  LET new == Append(lines, <<"[", "Greeter">>)
         IN  /\ Tidy(new) /\ Greeters(new) = {Len(lines) + 1} /\ ChoiceKeys(new) = {}
             /\ Pick(new, Others(new)) = Pick(lines, Others(lines))
<1> DEFINE head == <<"[", "Greeter">>
           new == Append(lines, head)
           n == Len(lines)
<1>0. lines \in Seq(INI) /\ DOMAIN lines = 1..n /\ n \in Nat
  BY DEF Tidy
<1>1. head \in INI /\ IsGroup(head) /\ head[2] = "Greeter"
  <2>1. "[" \in WORD /\ "Greeter" \in WORD
    BY WordAssumption DEF OUR_WORDS
  <2> QED
    BY <2>1 DEF INI, IsGroup
<1>2. /\ new \in Seq(INI) /\ DOMAIN new = 1..(n + 1) /\ new[n + 1] = head
      /\ \A i \in 1..n : new[i] = lines[i]
  <2> HIDE DEF head
  <2> QED
    BY <1>0, <1>1
<1>3. new \in Seq(INI) /\ Inserted(lines, n + 1, head, new)
  BY <1>0, <1>1, AppendInserts
<1>12. n + 1 \notin Others(new)
  BY <1>2 DEF Others
<1> HIDE DEF new, n, head
<1>4. \A i \in DOMAIN new : i = n + 1 \/ (i \in 1..n /\ i \in DOMAIN lines)
  BY <1>0, <1>2
<1>5. Greeters(new) = {n + 1}
  <2>1. n + 1 \in Greeters(new)
    BY <1>0, <1>1, <1>2 DEF Greeters
  <2>2. ASSUME NEW i \in Greeters(new) PROVE i = n + 1
    <3> SUFFICES ASSUME i # n + 1 PROVE FALSE
      OBVIOUS
    <3>1. i \in 1..n /\ i \in DOMAIN lines
      BY <1>4 DEF Greeters
    <3>2. i \in Greeters(lines)
      BY <1>2, <3>1 DEF Greeters
    <3> QED
      BY <3>2
  <2> QED
    BY <2>1, <2>2
<1>6. ChoiceKeys(new) = {}
  <2> SUFFICES ASSUME NEW i \in ChoiceKeys(new) PROVE FALSE
    OBVIOUS
  <2>1. i \in DOMAIN new /\ ~IsGroup(new[i]) /\ \E h \in DOMAIN new : Under(new, h, i)
    BY <1>3, ChoicesIs
  <2>2. n + 1 <= i
    BY <1>5, <2>1 DEF Under
  <2>3. i = n + 1
    BY <1>0, <1>2, <2>1, <2>2
  <2> QED
    BY <1>1, <1>2, <2>1, <2>3
<1>7. Tidy(new)
  BY <1>3, <1>5, <1>6 DEF Tidy, AtMostOne, ChoiceKeys
<1>8. Pick(new, Others(new)) = Pick(lines, Others(lines))
  <2>1. \A i \in 1..((n + 1) - 1) : i \in Others(new) <=> i \in Others(lines)
    <3> TAKE i \in 1..((n + 1) - 1)
    <3>1. i \in DOMAIN new /\ i \in DOMAIN lines /\ new[i] = lines[i]
      BY <1>0, <1>2
    <3> QED
      BY <3>1 DEF Others
  <2>2. \A i \in (n + 1)..Len(lines) : i + 1 \in Others(new) <=> i \in Others(lines)
    BY <1>0 DEF n
  <2> QED
    BY <1>0, <1>3, <1>12, <2>1, <2>2, PickInserted
<1> QED
  BY <1>5, <1>6, <1>7, <1>8 DEF new, head, n

\* set_choice writes the choice and nothing else, in each of its four cases.
LEMMA SetChoiceIs ==
  ASSUME NEW lines, Tidy(lines), NEW value \in {"Face", "Regular"}
  PROVE  Chosen(lines, value, set_choice(lines, value))
<1> DEFINE entry == IniLine("Authenticator", value)
           heads == Greeters(lines)
           after == {i \in DOMAIN lines : heads # {} /\ i > Min(heads) /\ IsGroup(lines[i])}
           inGroup == {i \in ChoiceKeys(lines) : after = {} \/ i < Min(after)}
           n == Len(lines)
<1>0. lines \in Seq(INI) /\ DOMAIN lines = 1..n /\ n \in Nat
  BY DEF Tidy
<1>1. entry \in INI
  BY IniWords
<1>2. set_choice(lines, value) =
        IF inGroup # {} THEN [lines EXCEPT ![Min(inGroup)] = entry]
        ELSE IF after # {} THEN Splice(lines, Min(after), <<entry>>)
        ELSE IF heads # {} THEN Append(lines, entry)
        ELSE lines \o <<IniLine("[", "Greeter"), entry>>
  BY DEF set_choice, ChoiceKeys
<1>3. heads \subseteq 1..n /\ after \subseteq 1..n /\ inGroup \subseteq 1..n
      /\ inGroup \subseteq ChoiceKeys(lines)
  <2>1. heads \subseteq 1..n
    BY <1>0 DEF Greeters
  <2>2. after \subseteq 1..n
    BY <1>0
  <2>3. inGroup \subseteq ChoiceKeys(lines)
    OBVIOUS
  <2>4. ChoiceKeys(lines) \subseteq 1..n
    BY <1>0, ChoicesIs
  <2> QED
    BY <2>1, <2>2, <2>3, <2>4
<1>4. heads \in SUBSET Nat /\ after \in SUBSET Nat /\ inGroup \in SUBSET Nat
  BY <1>0, <1>3
<1>5. CASE inGroup # {}
  <2> HIDE DEF inGroup
  <2>1. Min(inGroup) \in ChoiceKeys(lines)
    BY <1>3, <1>4, <1>5, MinIs
  <2>2. set_choice(lines, value) = [lines EXCEPT ![Min(inGroup)] = entry]
    BY <1>2, <1>5
  <2> QED
    BY <2>1, <2>2, ReplaceChoice
<1>6. ASSUME inGroup = {}, heads # {}
      PROVE  \E h \in heads : /\ ChoiceKeys(lines) = {}
                              /\ \A j \in DOMAIN lines : j > h /\ IsGroup(lines[j]) => j \in after
                              /\ \A j \in after : j > h
  <2> DEFINE h == Min(heads)
  <2>1. h \in heads
    <3> HIDE DEF heads
    <3> QED
      BY <1>4, <1>6, MinIs
  <2>2. \A i \in heads : i = h
    BY <2>1 DEF Tidy, AtMostOne
  <2>3. /\ \A j \in DOMAIN lines : j > h /\ IsGroup(lines[j]) => j \in after
        /\ \A j \in after : j > h
    BY <1>6
  <2>4. after # {} => Min(after) \in after
    <3> HIDE DEF after
    <3> QED
      BY <1>4, MinIs
  <2> HIDE DEF h
  <2>5. ASSUME NEW i \in ChoiceKeys(lines) PROVE FALSE
    <3>1. i \in DOMAIN lines /\ \E g \in DOMAIN lines : Under(lines, g, i)
      BY <1>0, ChoicesIs
    <3>2. \A j \in (h + 1)..i : ~IsGroup(lines[j])
      BY <2>2, <3>1 DEF Under
    <3>3. after # {} /\ ~(i < Min(after))
      BY <1>6
    <3>4. Min(after) \in (h + 1)..i
      <4>1. Min(after) \in 1..n /\ Min(after) > h /\ h \in 1..n /\ i \in 1..n
        BY <1>0, <1>3, <2>1, <2>3, <2>4, <3>1, <3>3
      <4> HIDE DEF after
      <4> QED
        BY <1>0, <3>3, <4>1
    <3>5. IsGroup(lines[Min(after)])
      BY <2>4, <3>3
    <3> QED
      BY <3>2, <3>4, <3>5
  <2> QED
    BY <2>1, <2>3, <2>5
<1>7. CASE inGroup = {} /\ after # {}
  <2>1. heads # {}
    BY <1>7
  <2>2. PICK h \in heads : /\ ChoiceKeys(lines) = {}
                           /\ \A j \in DOMAIN lines : j > h /\ IsGroup(lines[j]) => j \in after
                           /\ \A j \in after : j > h
    BY <1>6, <1>7, <2>1
  <2> DEFINE m == Min(after)
             new == Splice(lines, m, <<entry>>)
  <2>3. m \in after /\ \A y \in after : m <= y
    <3> HIDE DEF after
    <3> QED
      BY <1>4, <1>7, MinIs
  <2>4. set_choice(lines, value) = new
    BY <1>2, <1>7
  <2>5. IsGroup(lines[m]) /\ m \in 1..n /\ m > h /\ h \in 1..n
    BY <1>0, <1>3, <2>2, <2>3
  <2> HIDE DEF m, after
  <2>6. \A j \in (h + 1)..(m - 1) : ~IsGroup(lines[j])
    <3> SUFFICES ASSUME NEW j \in (h + 1)..(m - 1), IsGroup(lines[j]) PROVE FALSE
      OBVIOUS
    <3>1. j \in DOMAIN lines /\ j > h /\ ~(m <= j)
      BY <1>0, <2>5
    <3> QED
      BY <2>2, <2>3, <3>1
  <2>7. new \in Seq(INI) /\ Inserted(lines, m, entry, new)
    <3> HIDE DEF entry
    <3> QED
      BY <1>0, <1>1, <2>5, SpliceInserts
  <2>8. h < m
    BY <1>0, <2>5
  <2> HIDE DEF new
  <2> QED
    BY <2>2, <2>4, <2>5, <2>6, <2>7, <2>8, InsertChoice
<1>8. CASE inGroup = {} /\ after = {} /\ heads # {}
  <2>1. PICK h \in heads : /\ ChoiceKeys(lines) = {}
                           /\ \A j \in DOMAIN lines : j > h /\ IsGroup(lines[j]) => j \in after
    BY <1>6, <1>8
  <2> DEFINE new == Append(lines, entry)
             m == n + 1
  <2>2. set_choice(lines, value) = new
    BY <1>2, <1>8
  <2>3. new \in Seq(INI) /\ Inserted(lines, m, entry, new)
    <3> HIDE DEF entry
    <3> QED
      BY <1>0, <1>1, AppendInserts
  <2>4. h \in 1..n /\ h < m /\ ~(m <= n)
    BY <1>0, <1>3
  <2>5. \A j \in (h + 1)..(m - 1) : ~IsGroup(lines[j])
    <3> SUFFICES ASSUME NEW j \in (h + 1)..(m - 1), IsGroup(lines[j]) PROVE FALSE
      OBVIOUS
    <3>1. j \in DOMAIN lines /\ j > h
      BY <1>0, <2>4
    <3> QED
      BY <1>8, <2>1, <3>1
  <2> HIDE DEF new, m
  <2> QED
    BY <2>1, <2>2, <2>3, <2>4, <2>5, InsertChoice DEF n
<1>9. CASE inGroup = {} /\ after = {} /\ heads = {}
  <2> DEFINE head == <<"[", "Greeter">>
             mid == Append(lines, head)
             new == Append(mid, entry)
             m == Len(mid) + 1
             h == n + 1
  <2>1. head = IniLine("[", "Greeter") /\ head \in INI
    BY IniWords
  <2>2. new = lines \o <<head, entry>>
    <3> HIDE DEF head, entry
    <3> QED
      BY <1>0, <1>1, <2>1
  <2>3. set_choice(lines, value) = new
    <3> HIDE DEF head, entry, new
    <3> QED
      BY <1>2, <1>9, <2>1, <2>2
  <2>4. /\ Tidy(mid) /\ Greeters(mid) = {h} /\ ChoiceKeys(mid) = {}
        /\ Pick(mid, Others(mid)) = Pick(lines, Others(lines))
    BY <1>9, NewGreeter
  <2>5. mid \in Seq(INI) /\ Len(mid) = n + 1
    <3> HIDE DEF head
    <3> QED
      BY <1>0, <2>1
  <2> HIDE DEF mid
  <2>6. new \in Seq(INI) /\ Inserted(mid, m, entry, new)
    <3> HIDE DEF entry
    <3> QED
      BY <1>1, <2>5, AppendInserts
  <2>7. h \in Greeters(mid) /\ h < m /\ ~(m <= Len(mid)) /\ (h + 1)..(m - 1) = {}
    BY <1>0, <2>4, <2>5
  <2> HIDE DEF new, m, h
  <2>8. Chosen(mid, value, new)
    BY <2>4, <2>6, <2>7, InsertChoice
  <2>9. Chosen(lines, value, new)
    BY <2>4, <2>8 DEF Chosen
  <2> QED
    BY <2>3, <2>9
<1> QED
  BY <1>5, <1>7, <1>8, <1>9

\* The lock screen reads the choice that was written, and there is one group.
LEMMA ChosenReads ==
  ASSUME NEW lines, NEW value, NEW new, Chosen(lines, value, new)
  PROVE  /\ read_choice(new) = value
         /\ LastValue(new, "Greeter", "Authenticator") = value
         /\ Cardinality({i \in DOMAIN new : new[i] = <<"[", "Greeter">>}) = 1
<1>1. PICK k : ChoiceKeys(new) = {k} /\ new[k][2] = value
  BY DEF Chosen
<1>2. new \in Seq(INI)
  BY DEF Chosen, Tidy
<1>3. k \in DOMAIN new /\ k \in 1..Len(new) /\ k \in Nat /\ Len(new) \in Nat
  <2>1. k \in DOMAIN new
    BY <1>1, <1>2, ChoicesIs
  <2> QED
    BY <1>2, <2>1
<1>4. Min({k}) = k /\ Max({k}) = k
  <2>1. {k} \in SUBSET Nat /\ {k} # {} /\ {k} \in SUBSET (1..Len(new))
    BY <1>3
  <2>2. Min({k}) \in {k}
    BY <2>1, MinIs
  <2>3. Max({k}) \in {k}
    BY <1>3, <2>1, MaxIs
  <2> QED
    BY <2>2, <2>3
<1>5. KeysAt(new, "Greeter", "Authenticator") = {k} /\ {k} # {}
  BY <1>1 DEF ChoiceKeys
<1>6. read_choice(new) = value /\ LastValue(new, "Greeter", "Authenticator") = value
  BY <1>1, <1>4, <1>5 DEF read_choice, LastValue
<1>7. PICK h : Greeters(new) = {h}
  BY DEF Chosen
<1>8. {i \in DOMAIN new : new[i] = <<"[", "Greeter">>} = {h}
  <2>1. ASSUME NEW i \in DOMAIN new
        PROVE  new[i] = <<"[", "Greeter">> <=> IsGroup(new[i]) /\ new[i][2] = "Greeter"
    <3>1. new[i] \in WORD \X WORD
      BY <1>2 DEF INI
    <3> QED
      BY <3>1 DEF IsGroup
  <2> QED
    BY <1>7, <2>1 DEF Greeters
<1>9. Cardinality({h}) = 1
  BY FS_Singleton
<1> QED
  BY <1>6, <1>8, <1>9

\* The users who start with Face.
Faced(c) == {u \in Users : read_choice(c[u]) = "Face"}

\* The lock screen's settings are the last file of a plan.
AtEnd(todo) == \A i \in DOMAIN todo : todo[i][1] = RC => i = Len(todo)

\* A plan that has them.
Touches(todo) == \E i \in DOMAIN todo : todo[i][1] = RC

\* How the choices and the option stand to each other in an operation.
InStep(f, c, k, o) ==
  /\ o.name = "enable" => AtEnd(o.todo) /\ (o.todo # <<>> => f[RC] = o.before[RC])
  /\ o.name \in {"enable", "rollback"} => o.before[RC] \in Seq(LINE)
  /\ o.name = "rollback" => f[RC] = o.before[RC] \/ Faced(c) \subseteq k
  /\ o.name = "disable" /\ Touches(o.todo) => o.target = "lock-screen" /\ Faced(c) \subseteq k
  /\ o.name = "reset" => Faced(c) \subseteq k
  /\ o.name = "reset-choices" =>
       o.todo \in Seq(Users) /\ \A u \in Faced(c) \ k : \E i \in DOMAIN o.todo : o.todo[i] = u

\* Whoever starts with Face has the option, or is one of the stuck.
Optioned(f, c, k) == Faced(c) \subseteq k \/ has_block(f[RC], FACE_OPTION)

\* The inductive invariant, next to WalletInv: LockScreenStarts needs to know that
\* an operation that takes the option away has seen to every choice before.
LockInv ==
  /\ DOMAIN choice = Users /\ \A u \in Users : Tidy(choice[u])
  /\ etc[RC] \in Seq(LINE)
  /\ Optioned(etc, choice, stuck)
  /\ InStep(etc, choice, stuck, op)

\* SetToSeq leaves nobody out.
LEMMA AllInSeq ==
  ASSUME NEW S, IsFiniteSet(S)
  PROVE  SetToSeq(S) \in Seq(S) /\ \A u \in S : \E i \in DOMAIN SetToSeq(S) : SetToSeq(S)[i] = u
<1> DEFINE n == Cardinality(S)
           q == SetToSeq(S)
<1>1. n \in Nat /\ ExistsBijection(1..n, S)
  BY FS_CardinalityType
<1>2. \E f \in [1..n -> S] : IsInjective(f)
  BY <1>1 DEF ExistsBijection, Bijection, Injection, IsInjective
<1>3. q \in [1..n -> S] /\ IsInjective(q)
  BY <1>2 DEF SetToSeq
<1> HIDE DEF q
<1>4. q \in Injection(1..n, S)
  BY <1>3 DEF Injection, IsInjective
<1>5. Cardinality(1..n) = n
  BY <1>1, FS_Interval
<1> HIDE DEF n
<1>6. q \in Surjection(1..n, S)
  BY <1>4, <1>5, FS_Injection DEF n
<1>7. \A u \in S : \E i \in 1..n : q[i] = u
  BY <1>6 DEF Surjection
<1>8. q \in Seq(S) /\ DOMAIN q = 1..n
  BY <1>1, <1>3
<1> QED
  BY <1>7, <1>8 DEF q

\* The block of the lock screen's option.
LEMMA FaceBlockIs == FaceBlock \in Seq(LINE) /\ has_block(FaceBlock, FACE_OPTION) /\ Blank \in LINE
<1>1. /\ "ini" \in WORD /\ "Authenticators" \in WORD /\ "Face" \in WORD /\ "true" \in WORD
      /\ "" \in WORD
  BY WordAssumption DEF OUR_WORDS
<1>2. FACE_OPTION \in LINE /\ Blank \in LINE
  BY <1>1, LineIs DEF FACE_OPTION, Blank
<1>3. Stripped(FACE_OPTION) = FACE_OPTION
  <2>1. ASSUME NEW x \in LINE, x.nl = TRUE PROVE Stripped(x) = x
    BY <2>1 DEF Stripped, LINE
  <2>2. FACE_OPTION.nl = TRUE
    BY DEF FACE_OPTION, Line
  <2> QED
    BY <1>2, <2>1, <2>2
<1>4. BEGIN \in LINE /\ END \in LINE
  BY Marks
<1> DEFINE l == FACE_OPTION
<1>5. l \in LINE
  BY <1>2
<1> DEFINE c == <<BEGIN>> \o <<l>>
           b == c \o <<END>>
<1>6. FaceBlock = b
  BY DEF FaceBlock, Block
<1> HIDE DEF l
<1>7. c \in Seq(LINE) /\ Len(c) = 2 /\ c[2] = l
  BY <1>4, <1>5
<1> HIDE DEF c
<1>8. b \in Seq(LINE) /\ 2 \in DOMAIN b /\ b[2] = l
  BY <1>4, <1>7
<1> HIDE DEF b
<1> QED
  BY <1>2, <1>3, <1>6, <1>7, <1>8 DEF has_block, l

\* What turning the lock screen on writes to its settings.
LEMMA FaceText ==
  ASSUME etc[RC] \in Seq(LINE), NEW user
  PROVE  LET s == new_text(RC, "kde-config", user)
         IN  /\ s \in Seq(LINE)
             /\ has_block(etc[RC], FACE_OPTION) => has_block(s, FACE_OPTION)
<1> DEFINE s == new_text(RC, "kde-config", user)
           t == etc[RC]
           a == t \o Separator(t)
<1>1. s = FaceBlock \/ s = t \/ s = a \o FaceBlock
  BY DEF new_text
<1>2. Separator(t) \in Seq(LINE)
  <2>1. <<Blank>> \in Seq(LINE) /\ <<>> \in Seq(LINE)
    BY FaceBlockIs, OneLine
  <2> QED
    BY <2>1 DEF Separator
<1>3. a \in Seq(LINE)
  BY <1>2
<1> HIDE DEF s, a
<1> DEFINE b == FaceBlock
<1>4. b \in Seq(LINE) /\ has_block(b, FACE_OPTION)
  BY FaceBlockIs
<1> HIDE DEF b
<1>5. a \o b \in Seq(LINE)
  BY <1>3, <1>4
<1>6. has_block(a \o b, FACE_OPTION)
  <2>1. PICK i \in DOMAIN b : Stripped(b[i]) = FACE_OPTION
    BY <1>4 DEF has_block
  <2>2. Len(a) + i \in DOMAIN (a \o b) /\ (a \o b)[Len(a) + i] = b[i]
    BY <1>3, <1>4
  <2> QED
    BY <2>1, <2>2 DEF has_block
<1> QED
  BY <1>1, <1>4, <1>5, <1>6 DEF s, b

\* A revert and a sweep yield lines.
LEMMA RevertType ==
  ASSUME NEW p, etc[p] \in Seq(LINE), NEW B, NEW entry
  PROVE  reverted_text(p, B, entry) \in Seq(LINE) /\ swept_text(p) \in Seq(LINE)
<1> DEFINE t == etc[p]
           c == remove_block(t, B)
           d == Trimmed(c, entry.separator)
           e == remove_block(t, BEGINS)
           K == {i \in DOMAIN e : ~ours(e[i])}
<1>1. c \in Seq(LINE) /\ e \in Seq(LINE)
  BY RemoveType
<1>2. d \in Seq(LINE)
  BY <1>1, TrimmedIs
<1>3. reverted_text(p, B, entry) \in {NoFile, c, t, d}
  BY DEF reverted_text
<1>4. swept_text(p) \in {NoFile, t, Pick(e, K)}
  BY DEF swept_text, remove_legacy_lines
<1>5. Pick(e, K) \in Seq(LINE)
  <2> DEFINE A == {e[j] : j \in K \cap DOMAIN e}
  <2>1. Pick(e, K) \in Seq(A)
    BY <1>1, PickType
  <2>2. A \subseteq LINE
    BY <1>1
  <2> HIDE DEF A, K, e
  <2> QED
    BY <2>1, <2>2, OfSubset
<1> HIDE DEF c, d, e, K
<1> QED
  BY <1>1, <1>2, <1>3, <1>4, <1>5, NoFileIs

\* Only the lock screen's plan has its settings, and has them last.
LEMMA PlanEnds ==
  ASSUME NEW target \in Target
  PROVE  AtEnd(plan(target)) /\ (Touches(plan(target)) => target = "lock-screen")
<1> DEFINE Q == PlainSteps \ {<<RC, "kde-config">>}
<1>1. \A q \in Seq(Q) : AtEnd(q) /\ ~Touches(q)
  <2>1. \A s \in Q : s[1] # RC
    BY Names DEF PlainSteps
  <2> HIDE DEF Q
  <2>2. \A q \in Seq(Q) : \A i \in DOMAIN q : q[i][1] # RC
    BY <2>1
  <2> QED
    BY <2>2 DEF AtEnd, Touches
<1>2. \A p \in Service \ {AUTOLOGIN} : Insert(p) \in Q
  <2>1. \A p \in Service \ {AUTOLOGIN} : Insert(p) \in PlainSteps
    BY DEF Insert, PlainSteps
  <2>2. \A p : Insert(p) # <<RC, "kde-config">>
    BY DEF Insert
  <2> QED
    BY <2>1, <2>2
<1> HIDE DEF Q
<1>3. /\ "kde" \in Service \ {AUTOLOGIN} /\ "polkit-1" \in Service \ {AUTOLOGIN}
      /\ "sudo" \in Service \ {AUTOLOGIN} /\ "sudo-i" \in Service \ {AUTOLOGIN}
      /\ "sddm" \in Service \ {AUTOLOGIN} /\ "plasmalogin" \in Service \ {AUTOLOGIN}
  BY Names DEF AUTOLOGIN, LOGIN
<1>4. \A p \in Service \ {AUTOLOGIN} : <<Insert(p)>> \in Seq(Q)
  BY <1>2
<1>5. <<>> \in Seq(Q)
  OBVIOUS
<1>6. CASE target = "lock-screen"
  <2> DEFINE q == << <<"kde-face", "own">>, <<RC, "kde-config">> >>
  <2>1. plan(target) = q \/ plan(target) = <<Insert("kde")>> \/ plan(target) = <<>>
    BY <1>6 DEF plan
  <2>2. AtEnd(q)
    <3>1. DOMAIN q = 1..2 /\ Len(q) = 2 /\ q[1][1] = "kde-face"
      OBVIOUS
    <3>2. "kde-face" # RC
      BY DEF RC
    <3>3. \A i \in 1..2 : i = 1 \/ i = 2
      OBVIOUS
    <3> HIDE DEF q
    <3> QED
      BY <3>1, <3>2, <3>3 DEF AtEnd
  <2> HIDE DEF q
  <2> QED
    BY <1>1, <1>3, <1>4, <1>5, <1>6, <2>1, <2>2
<1>7. CASE target = "admin"
  <2>1. plan(target) = <<Insert("polkit-1")>> \/ plan(target) = <<>>
    BY <1>7 DEF plan
  <2> QED
    BY <1>1, <1>3, <1>4, <1>5, <2>1
<1>8. CASE target = "sudo"
  <2>1. plan("sudo") = (IF Found("sudo") THEN <<Insert("sudo")>> ELSE <<>>)
         \o (IF Found("sudo-i") /\ ~(Found("sudo") /\ includes(Source("sudo-i"), "sudo"))
             THEN <<Insert("sudo-i")>> ELSE <<>>)
    BY DEF plan
  <2>2. PICK a, b : /\ plan("sudo") = a \o b
                    /\ a = <<Insert("sudo")>> \/ a = <<>>
                    /\ b = <<Insert("sudo-i")>> \/ b = <<>>
    BY <2>1
  <2>3. a \in Seq(Q) /\ b \in Seq(Q)
    BY <1>3, <1>4, <1>5, <2>2
  <2>4. a \o b \in Seq(Q)
    BY <2>3
  <2> QED
    BY <1>1, <1>8, <2>2, <2>4
<1>9. CASE target = "login"
  <2>1. \/ plan(target) = <<Insert("plasmalogin")>> \/ plan(target) = <<Insert("sddm")>>
        \/ plan(target) = <<>>
    BY <1>9 DEF plan
  <2> QED
    BY <1>1, <1>3, <1>4, <1>5, <2>1
<1>10. CASE target = "auto-login"
  <2> DEFINE q == <<Release, Remember, Autologin>>
  <2>1. plan(target) = <<>> \/ plan(target) = q
    BY <1>10, PlanIs
  <2>2. Release[1] # RC /\ Remember[1] # RC /\ Autologin[1] # RC
    BY Names DEF Release, Remember, Autologin
  <2>3. DOMAIN q = 1..3 /\ q[1] = Release /\ q[2] = Remember /\ q[3] = Autologin
    OBVIOUS
  <2>4. \A i \in 1..3 : i = 1 \/ i = 2 \/ i = 3
    OBVIOUS
  <2> HIDE DEF q
  <2>5. \A i \in DOMAIN q : q[i][1] # RC
    BY <2>2, <2>3, <2>4
  <2>6. AtEnd(q) /\ ~Touches(q)
    BY <2>5 DEF AtEnd, Touches
  <2> QED
    BY <1>1, <1>5, <2>1, <2>6
<1> QED
  BY <1>6, <1>7, <1>8, <1>9, <1>10 DEF Target

\* disable touches the lock screen's settings when nobody starts with Face.
LEMMA DisableTouches ==
  ASSUME NEW target \in Target, NEW keep, Touches(disable_plan(target, keep))
  PROVE  target = "lock-screen" /\ ~keep
<1>1. CASE target = "auto-login"
  <2> DEFINE a == <<DROPIN, FORGET>>
             b == <<DROPIN, {BEGIN}>>
             c == <<AUTOLOGIN, {WALLET_BEGIN}>>
             d == <<LOGIN, {WALLET_BEGIN}>>
             q == <<a, b, c, d>>
  <2>1. disable_plan(target, keep) = q
    BY <1>1 DEF disable_plan, LOGIN, AUTOLOGIN
  <2>2. a[1] # RC /\ b[1] # RC /\ c[1] # RC /\ d[1] # RC
    BY Names
  <2> HIDE DEF a, b, c, d
  <2>3. DOMAIN q = 1..4 /\ q[1] = a /\ q[2] = b /\ q[3] = c /\ q[4] = d
    OBVIOUS
  <2>4. \A i \in 1..4 : i = 1 \/ i = 2 \/ i = 3 \/ i = 4
    OBVIOUS
  <2> HIDE DEF q
  <2>5. \A i \in DOMAIN q : q[i][1] # RC
    BY <2>2, <2>3, <2>4
  <2> QED
    BY <2>1, <2>5 DEF Touches
<1>2. CASE target # "auto-login"
  <2> DEFINE n == plan(target)
             q == [i \in DOMAIN n |-> <<n[i][1], {BEGIN}>>]
             K == {i \in DOMAIN q : ~(keep /\ q[i][1] = RC)}
             A == {q[j] : j \in K \cap DOMAIN q}
  <2>1. n \in Seq(PlainSteps)
    BY <1>2, PlanIs
  <2> HIDE DEF n
  <2>2. q \in Seq({<<n[i][1], {BEGIN}>> : i \in DOMAIN n})
    BY <2>1
  <2>3. disable_plan(target, keep) = Pick(q, K)
    BY <1>2 DEF disable_plan, n
  <2>4. Pick(q, K) \in Seq(A)
    <3> HIDE DEF K, q
    <3> QED
      BY <2>2, PickType DEF A
  <2>5. \A x \in A : x[1] = RC => ~keep /\ \E i \in DOMAIN n : n[i][1] = RC
    <3>1. DOMAIN q = DOMAIN n /\ \A j \in DOMAIN n : q[j][1] = n[j][1]
      OBVIOUS
    <3>2. \A j \in K : j \in DOMAIN q /\ (q[j][1] = RC => ~keep)
      OBVIOUS
    <3> HIDE DEF q, K
    <3>3. \A x \in A : \E j \in K : x = q[j]
      OBVIOUS
    <3> HIDE DEF A
    <3> QED
      BY <3>1, <3>2, <3>3
  <2> HIDE DEF A, K, q
  <2>6. PICK i \in DOMAIN Pick(q, K) : Pick(q, K)[i][1] = RC
    BY <2>3 DEF Touches
  <2>7. Pick(q, K)[i] \in A
    BY <2>4
  <2>8. ~keep /\ Touches(n)
    BY <2>5, <2>6, <2>7 DEF Touches
  <2> QED
    BY <2>8, PlanEnds DEF n
<1> QED
  BY <1>1, <1>2

\* The choices stay, and so does the option.
LEMMA ChoicesStay ==
  ASSUME LockInv, UNCHANGED <<choice, stuck>>, etc'[RC] \in Seq(LINE),
         \/ Faced(choice) \subseteq stuck
         \/ has_block(etc[RC], FACE_OPTION) => has_block(etc'[RC], FACE_OPTION),
         InStep(etc', choice, stuck, op')
  PROVE  LockInv'
BY DEF LockInv, Optioned

\* Between operations nothing is asked of them.
LEMMA IdleInStep ==
  ASSUME NEW f, NEW c, NEW k, NEW o, o.name = "idle"
  PROVE  InStep(f, c, k, o)
BY DEF InStep

\* A plan and what is left of it after a step.
LEMMA TailTouches ==
  ASSUME NEW A, NEW todo \in Seq(A), todo # <<>>
  PROVE  /\ Touches(Tail(todo)) => Touches(todo)
         /\ Head(todo)[1] = RC => Touches(todo)
         /\ AtEnd(todo) => AtEnd(Tail(todo))
         /\ AtEnd(todo) /\ Head(todo)[1] = RC => Tail(todo) = <<>>
<1> DEFINE q == Tail(todo)
<1>1. /\ Len(todo) \in Nat /\ Len(todo) >= 1 /\ DOMAIN todo = 1..Len(todo)
      /\ q \in Seq(A) /\ Len(q) = Len(todo) - 1 /\ DOMAIN q = 1..Len(q)
  OBVIOUS
<1>2. \A i \in DOMAIN q : q[i] = todo[i + 1] /\ i + 1 \in DOMAIN todo
  OBVIOUS
<1>3. Head(todo) = todo[1] /\ 1 \in DOMAIN todo
  OBVIOUS
<1> HIDE DEF q
<1>4. Len(q) = 0 => q = <<>>
  BY <1>1
<1>5. AtEnd(todo) => AtEnd(q)
  BY <1>1, <1>2 DEF AtEnd
<1>6. Touches(q) => Touches(todo)
  BY <1>2 DEF Touches
<1>7. Head(todo)[1] = RC => Touches(todo)
  BY <1>3 DEF Touches
<1>8. AtEnd(todo) /\ Head(todo)[1] = RC => q = <<>>
  BY <1>1, <1>3, <1>4 DEF AtEnd
<1> QED
  BY <1>5, <1>6, <1>7, <1>8 DEF q

\* enable begins.
LEMMA LockStartEnable ==
  ASSUME LockInv, NEW target \in Target, NEW user, StartEnable(target, user)
  PROVE  LockInv'
<1>1. UNCHANGED <<etc, choice, stuck>>
  BY DEF StartEnable, lockVars
<1>2. op' = [name |-> "enable", target |-> target, user |-> user, plan |-> plan(target),
             todo |-> plan(target), state |-> manifest, before |-> etc]
  BY DEF StartEnable
<1>3. op'.name = "enable" /\ op'.todo = plan(target) /\ op'.before = etc
  BY <1>2
<1>4. InStep(etc', choice, stuck, op')
  BY <1>1, <1>3, PlanEnds DEF InStep, LockInv
<1> QED
  BY <1>1, <1>4, ChoicesStay DEF LockInv

\* A step of enable: the option is never taken away.
LEMMA LockEnableStep ==
  ASSUME WalletInv, LockInv, EnableStep
  PROVE  LockInv'
<1> DEFINE s == Head(op.todo)
           rest == Tail(op.todo)
           x == new_text(s[1], s[2], op.user)
<1>0. /\ op.name = "enable" /\ op.todo # <<>> /\ UNCHANGED <<choice, stuck>>
      /\ etc' = [etc EXCEPT ![s[1]] = x]
      /\ op' = [op EXCEPT !.todo = rest, !.state = recorded(s[1], s[2], op.user, op.state)]
  BY DEF EnableStep, lockVars
<1>1. op'.name = "enable" /\ op'.todo = rest /\ op'.before = op.before
  BY <1>0 DEF WalletInv
<1>2. /\ AtEnd(op.todo) /\ etc[RC] = op.before[RC] /\ etc[RC] \in Seq(LINE)
      /\ op.before[RC] \in Seq(LINE)
  BY <1>0 DEF LockInv, InStep
<1>3. DOMAIN etc = Path /\ Enabling(etc, op.todo) /\ RC \in Path
  BY <1>0, Names DEF WalletInv, InOperation, Sound
<1>4. /\ op.todo \in Seq(PlainSteps \cup {Release, Remember, Autologin})
      /\ s[1] = RC => s[2] = "kde-config"
  <2>1. CASE op.todo \in Seq(PlainSteps)
    <3>1. s \in PlainSteps
      BY <1>0, <2>1
    <3>2. s[1] = RC => s[2] = "kde-config"
      <4>1. "kde-face" # RC
        BY DEF RC
      <4> QED
        BY <3>1, <4>1, Names DEF PlainSteps
    <3>3. op.todo \in Seq(PlainSteps \cup {Release, Remember, Autologin})
      BY <2>1, OfSubset
    <3> QED
      BY <3>2, <3>3
  <2>2. CASE op.todo \in {<<Release, Remember, Autologin>>, <<Remember, Autologin>>, <<Autologin>>}
    <3>1. Release[1] # RC /\ Remember[1] # RC /\ Autologin[1] # RC
      BY Names DEF Release, Remember, Autologin
    <3> DEFINE A == PlainSteps \cup {Release, Remember, Autologin}
    <3>2. op.todo \in Seq(A)
      <4>1. Release \in A /\ Remember \in A /\ Autologin \in A
        OBVIOUS
      <4> HIDE DEF A
      <4>2. /\ <<Release, Remember, Autologin>> \in Seq(A) /\ <<Remember, Autologin>> \in Seq(A)
            /\ <<Autologin>> \in Seq(A)
        BY <4>1
      <4> QED
        BY <2>2, <4>2
    <3>3. s \in {Release, Remember, Autologin}
      BY <2>2
    <3> QED
      BY <3>1, <3>2, <3>3
  <2> QED
    BY <1>3, <2>1, <2>2 DEF Enabling
<1>5. /\ AtEnd(rest)
      /\ s[1] = RC => rest = <<>>
  BY <1>0, <1>2, <1>4, TailTouches
<1> HIDE DEF rest
<1>6. etc'[RC] = IF s[1] = RC THEN x ELSE etc[RC]
  BY <1>0, <1>3
<1>7. /\ etc'[RC] \in Seq(LINE)
      /\ has_block(etc[RC], FACE_OPTION) => has_block(etc'[RC], FACE_OPTION)
  <2>1. CASE s[1] = RC
    <3>1. x = new_text(RC, "kde-config", op.user)
      BY <1>4, <2>1
    <3> HIDE DEF x, s
    <3> QED
      BY <1>2, <1>6, <2>1, <3>1, FaceText
  <2>2. CASE s[1] # RC
    BY <1>2, <1>6, <2>2
  <2> QED
    BY <2>1, <2>2
<1> HIDE DEF x, s
<1>8. InStep(etc', choice, stuck, op')
  BY <1>1, <1>2, <1>5, <1>6 DEF InStep
<1> QED
  BY <1>0, <1>7, <1>8, ChoicesStay

\* A step of enable fails: the option is as it was, or whoever has chosen it by
\* now is one of the stuck.
LEMMA LockEnableFails ==
  ASSUME WalletInv, LockInv, EnableFails
  PROVE  LockInv'
<1>0. /\ UNCHANGED <<etc, choice>> /\ op.name = "enable"
      /\ op' = [op EXCEPT !.name = "rollback", !.todo = op.plan]
      /\ stuck' = IF etc[RC] = op.before[RC] THEN stuck ELSE stuck \cup users_preferring_face
  BY DEF EnableFails
<1>1. op'.name = "rollback" /\ op'.before = op.before
  BY <1>0 DEF WalletInv
<1>2. op.before[RC] \in Seq(LINE)
  BY <1>0 DEF InStep, LockInv
<1>3. etc[RC] = op.before[RC] \/ Faced(choice) \subseteq stuck'
  BY <1>0 DEF Faced, users_preferring_face
<1>4. Optioned(etc, choice, stuck')
  BY <1>0 DEF Optioned, LockInv
<1>5. InStep(etc, choice, stuck', op')
  BY <1>1, <1>2, <1>3 DEF InStep
<1> QED
  BY <1>0, <1>4, <1>5 DEF LockInv

\* The files are put back.
LEMMA LockRollback ==
  ASSUME WalletInv, LockInv, RollbackStep
  PROVE  LockInv'
<1> DEFINE p == Head(op.todo)[1]
           rest == Tail(op.todo)
<1>0. /\ op.name = "rollback" /\ UNCHANGED <<choice, stuck>>
      /\ etc' = [etc EXCEPT ![p] = op.before[p]]
      /\ op' = [op EXCEPT !.todo = rest]
  BY DEF RollbackStep, PutBack, lockVars
<1> HIDE DEF p, rest
<1>1. op'.name = "rollback" /\ op'.before = op.before
  BY <1>0 DEF WalletInv
<1>2. /\ etc[RC] = op.before[RC] \/ Faced(choice) \subseteq stuck
      /\ etc[RC] \in Seq(LINE) /\ op.before[RC] \in Seq(LINE)
  BY <1>0 DEF InStep, LockInv
<1>3. DOMAIN etc = Path /\ RC \in Path
  BY Names DEF WalletInv, Sound
<1>4. etc'[RC] = etc[RC] \/ (etc'[RC] = op.before[RC] /\ Faced(choice) \subseteq stuck)
  BY <1>0, <1>2, <1>3
<1>5. InStep(etc', choice, stuck, op')
  BY <1>1, <1>2, <1>4 DEF InStep
<1>6. etc'[RC] \in Seq(LINE)
  BY <1>2, <1>4
<1>7. \/ Faced(choice) \subseteq stuck
      \/ has_block(etc[RC], FACE_OPTION) => has_block(etc'[RC], FACE_OPTION)
  BY <1>4
<1> QED
  BY <1>0, <1>5, <1>6, <1>7, ChoicesStay

\* disable begins: it takes the option only if nobody starts with it.
LEMMA LockSetTargetOff ==
  ASSUME LockInv, SetTargetOff
  PROVE  LockInv'
<1>1. UNCHANGED <<etc, choice, stuck>>
  BY DEF SetTargetOff, lockVars
<1>2. PICK target \in Target :
        LET keep == target = "lock-screen" /\ users_preferring_face # {}
        IN  op' = [Idle EXCEPT !.name = "disable", !.target = target, !.state = manifest,
                               !.user = autologin_user, !.todo = disable_plan(target, keep)]
  BY DEF SetTargetOff
<1> DEFINE keep == target = "lock-screen" /\ users_preferring_face # {}
<1>3. /\ op'.name = "disable" /\ op'.todo = disable_plan(target, keep) /\ op'.target = target
  BY <1>2 DEF Idle
<1>4. Touches(op'.todo) => target = "lock-screen" /\ ~keep
  BY <1>3, DisableTouches
<1>5. Touches(op'.todo) => Faced(choice) = {}
  BY <1>4 DEF Faced, users_preferring_face
<1>6. InStep(etc', choice, stuck, op')
  BY <1>3, <1>4, <1>5 DEF InStep
<1> QED
  BY <1>1, <1>6, ChoicesStay DEF LockInv

\* reset begins once every choice was reset.
LEMMA LockStartReset ==
  ASSUME LockInv, StartReset
  PROVE  LockInv'
<1>1. UNCHANGED <<etc, choice, stuck>> /\ op.name = "reset-choices" /\ op.todo = <<>>
  BY DEF StartReset, lockVars
<1>2. op'.name = "reset"
  BY DEF StartReset, Idle
<1>3. Faced(choice) \subseteq stuck
  BY <1>1 DEF LockInv, InStep
<1>4. InStep(etc', choice, stuck, op')
  BY <1>2, <1>3 DEF InStep
<1> QED
  BY <1>1, <1>4, ChoicesStay DEF LockInv

\* A step of disable or of reset.
LEMMA LockRevert ==
  ASSUME WalletInv, LockInv, RevertStep
  PROVE  LockInv'
<1> DEFINE s == Head(op.todo)
           p == s[1]
           B == s[2]
           rest == Tail(op.todo)
           x == IF B = SWEEP THEN swept_text(p) ELSE reverted_text(p, B, op.state[p])
<1>0. /\ op.name \in {"disable", "reset"} /\ op.todo # <<>> /\ UNCHANGED <<choice, stuck>>
      /\ etc' = IF B = FORGET THEN etc ELSE [etc EXCEPT ![p] = x]
  BY DEF RevertStep, lockVars
<1>1. op'.name = op.name /\ op'.todo = rest /\ op'.target = op.target
  BY DEF RevertStep, WalletInv
<1>2. DOMAIN etc = Path /\ RC \in Path /\ op.todo \in Seq(Reverts)
  BY <1>0, Names DEF WalletInv, InOperation, Sound, Reverting
<1>3. (Touches(rest) => Touches(op.todo)) /\ (p = RC => Touches(op.todo))
  BY <1>0, <1>2, TailTouches
<1>4. etc[RC] \in Seq(LINE) /\ InStep(etc, choice, stuck, op)
  BY DEF LockInv
<1> HIDE DEF rest, B, p
<1>5. p = RC => x \in Seq(LINE)
  BY <1>4, RevertType
<1> HIDE DEF x
<1>6. etc'[RC] = etc[RC] \/ (p = RC /\ etc'[RC] = x)
  BY <1>0, <1>2
<1>7. p = RC => Faced(choice) \subseteq stuck
  BY <1>0, <1>3, <1>4 DEF InStep
<1>8. InStep(etc', choice, stuck, op')
  BY <1>0, <1>1, <1>3, <1>4 DEF InStep
<1>9. etc'[RC] \in Seq(LINE)
  BY <1>4, <1>5, <1>6
<1>10. \/ Faced(choice) \subseteq stuck
       \/ has_block(etc[RC], FACE_OPTION) => has_block(etc'[RC], FACE_OPTION)
  BY <1>6, <1>7
<1> QED
  BY <1>0, <1>8, <1>9, <1>10, ChoicesStay

\* A choice is written: the file stays tidy, and only this user's changes.
LEMMA WriteChoiceIs ==
  ASSUME LockInv, NEW user \in Users, NEW value \in {"Face", "Regular"}, WriteChoice(user, value)
  PROVE  /\ DOMAIN choice' = Users /\ \A u \in Users : Tidy(choice'[u])
         /\ \A u \in Users : u \in Faced(choice') <=>
              IF u = user THEN value = "Face" ELSE u \in Faced(choice)
<1>1. DOMAIN choice = Users /\ \A u \in Users : Tidy(choice[u])
  BY DEF LockInv
<1> DEFINE new == set_choice(choice[user], value)
<1>2. Chosen(choice[user], value, new)
  BY <1>1, SetChoiceIs
<1>3. Tidy(new) /\ read_choice(new) = value
  BY <1>2, ChosenReads DEF Chosen
<1>4. choice' = [choice EXCEPT ![user] = new]
  BY DEF WriteChoice
<1> HIDE DEF new
<1>5. DOMAIN choice' = Users /\ \A u \in Users : choice'[u] = IF u = user THEN new ELSE choice[u]
  BY <1>1, <1>4
<1>6. \A u \in Users : Tidy(choice'[u])
  BY <1>1, <1>3, <1>5
<1>7. \A u \in Users : u \in Faced(choice') <=>
              IF u = user THEN value = "Face" ELSE u \in Faced(choice)
  BY <1>3, <1>5 DEF Faced
<1> QED
  BY <1>5, <1>6, <1>7

\* The administrator adds a line.
LEMMA LockAdminEdit ==
  ASSUME WalletInv, LockInv, AdminEdit
  PROVE  LockInv'
<1>1. PICK p \in Path \ {DROPIN}, line \in ADMIN_LINES :
        etc' = [etc EXCEPT ![p] = IF Found(p) THEN Append(Source(p), line) ELSE <<line>>]
  BY DEF AdminEdit
<1>2. op' = Idle /\ UNCHANGED <<choice, stuck>>
  BY DEF AdminEdit, lockVars
<1> DEFINE x == IF Found(p) THEN Append(Source(p), line) ELSE <<line>>
<1>3. DOMAIN etc = Path /\ RC \in Path /\ system \in Systems
  BY Names DEF WalletInv, Sound
<1>4. line \in LINE
  BY AdminLinesAssumption DEF Foreign
<1>5. etc[RC] \in Seq(LINE)
  BY DEF LockInv
<1>6. Vendor(RC) = NoFile
  BY <1>3, SystemsAssumption DEF Vendor
<1>7. Source(RC) = etc[RC]
  BY <1>3, <1>6 DEF Source
<1>8. p = RC => x \in Seq(LINE)
  <2>1. Append(etc[RC], line) \in Seq(LINE) /\ <<line>> \in Seq(LINE)
    BY <1>4, <1>5
  <2> QED
    BY <1>7, <2>1
<1>9. ~has_block(NoFile, FACE_OPTION)
  <2>1. \A i \in DOMAIN NoFile : NoFile[i] = Line("", "", "no file", "")
    BY OneLine DEF NoFile
  <2>2. Stripped(Line("", "", "no file", "")).mod = "no file"
    BY DEF Stripped, Line
  <2>3. FACE_OPTION.mod = "Face"
    BY DEF FACE_OPTION, Line
  <2> QED
    BY <2>1, <2>2, <2>3 DEF has_block
<1>10. p = RC /\ has_block(etc[RC], FACE_OPTION) => has_block(x, FACE_OPTION)
  <2>1. has_block(etc[RC], FACE_OPTION) => has_block(Append(etc[RC], line), FACE_OPTION)
    BY <1>4, <1>5, AppendHas
  <2>2. has_block(etc[RC], FACE_OPTION) => Found(RC)
    BY <1>7, <1>9 DEF Found
  <2> QED
    BY <1>7, <2>1, <2>2
<1> HIDE DEF x
<1>11. etc'[RC] = IF p = RC THEN x ELSE etc[RC]
  BY <1>1, <1>3 DEF x
<1>12. op'.name = "idle"
  BY <1>2 DEF Idle
<1>13. InStep(etc', choice, stuck, op')
  BY <1>12, IdleInStep
<1> QED
  BY <1>2, <1>5, <1>8, <1>10, <1>11, <1>13, ChoicesStay

\* reset-system lists whoever starts with Face.
LEMMA LockResetSystem ==
  ASSUME LockInv, ResetSystem
  PROVE  LockInv'
<1>1. /\ UNCHANGED <<etc, choice, stuck>>
      /\ op' = [Idle EXCEPT !.name = "reset-choices", !.todo = SetToSeq(users_preferring_face)]
  BY DEF ResetSystem, lockVars
<1> DEFINE S == Faced(choice)
<1>2. op'.name = "reset-choices" /\ op'.todo = SetToSeq(S)
  BY <1>1 DEF Idle, users_preferring_face, Faced
<1>3. S \subseteq Users
  BY DEF Faced
<1> HIDE DEF S
<1>4. IsFiniteSet(S)
  BY <1>3, UsersAssumption, FS_Subset
<1>5. op'.todo \in Seq(S) /\ \A u \in S : \E i \in DOMAIN op'.todo : op'.todo[i] = u
  BY <1>2, <1>4, AllInSeq
<1>6. op'.todo \in Seq(Users)
  BY <1>3, <1>5, OfSubset
<1>7. InStep(etc', choice, stuck, op')
  BY <1>2, <1>5, <1>6 DEF InStep, S
<1> QED
  BY <1>1, <1>7, ChoicesStay DEF LockInv

\* One user's choice is reset, or cannot be.
LEMMA LockResetChoice ==
  ASSUME WalletInv, LockInv, ResetChoice
  PROVE  LockInv'
<1> DEFINE user == Head(op.todo)
           rest == Tail(op.todo)
<1>1. /\ op.name = "reset-choices" /\ op.todo # <<>> /\ etc' = etc
      /\ op' = [op EXCEPT !.todo = rest]
      /\ \/ choice' = choice /\ stuck' = stuck \cup {user}
         \/ WriteChoice(user, "Regular") /\ stuck' = stuck \ {user}
  BY DEF ResetChoice
<1>2. op'.name = "reset-choices" /\ op'.todo = rest
  BY <1>1 DEF WalletInv
<1>3. /\ op.todo \in Seq(Users)
      /\ \A u \in Faced(choice) \ stuck : \E i \in DOMAIN op.todo : op.todo[i] = u
  BY <1>1 DEF LockInv, InStep
<1>4. user \in Users /\ rest \in Seq(Users)
  BY <1>1, <1>3
<1>5. \A i \in DOMAIN op.todo : op.todo[i] # user => \E j \in DOMAIN rest : rest[j] = op.todo[i]
  <2> TAKE i \in DOMAIN op.todo
  <2> HAVE op.todo[i] # user
  <2>1. i \in 1..Len(op.todo) /\ i # 1
    BY <1>1, <1>3
  <2>2. i - 1 \in DOMAIN rest /\ rest[i - 1] = op.todo[i]
    BY <1>1, <1>3, <2>1
  <2> QED
    BY <2>2
<1> HIDE DEF user, rest
<1>6. /\ DOMAIN choice' = Users /\ \A u \in Users : Tidy(choice'[u])
      /\ \A u \in Faced(choice') : u \in stuck' \/ (u \in Faced(choice) \ stuck /\ u # user)
  <2>1. CASE choice' = choice /\ stuck' = stuck \cup {user}
    BY <2>1 DEF LockInv
  <2>2. CASE WriteChoice(user, "Regular") /\ stuck' = stuck \ {user}
    <3>1. /\ DOMAIN choice' = Users /\ \A u \in Users : Tidy(choice'[u])
          /\ \A u \in Users : u \in Faced(choice') <=>
               IF u = user THEN "Regular" = "Face" ELSE u \in Faced(choice)
      BY <1>4, <2>2, WriteChoiceIs
    <3>2. "Regular" # "Face"
      OBVIOUS
    <3>3. Faced(choice') \subseteq Users
      BY DEF Faced
    <3> QED
      BY <2>2, <3>1, <3>2, <3>3
  <2> QED
    BY <1>1, <2>1, <2>2
<1>7. Optioned(etc', choice', stuck')
  BY <1>1, <1>6 DEF LockInv, Optioned
<1>8. \A u \in Faced(choice') \ stuck' : \E j \in DOMAIN rest : rest[j] = u
  BY <1>3, <1>5, <1>6
<1>9. InStep(etc', choice', stuck', op')
  BY <1>2, <1>4, <1>8 DEF InStep
<1> QED
  BY <1>1, <1>6, <1>7, <1>9 DEF LockInv

\* The choice is made, with the option or after it was looked up.
LEMMA LockPreferFace ==
  ASSUME LockInv, NEW user \in Users, PreferFace(user)
  PROVE  LockInv'
<1>1. /\ UNCHANGED <<etc, op>> /\ WriteChoice(user, "Face")
      /\ stuck' = IF face_enabled /\ ~OptionMayGo THEN stuck ELSE stuck \cup {user}
  BY DEF PreferFace, fileVars
<1>2. /\ DOMAIN choice' = Users /\ \A u \in Users : Tidy(choice'[u])
      /\ \A u \in Users : u \in Faced(choice') <=>
           IF u = user THEN "Face" = "Face" ELSE u \in Faced(choice)
  BY <1>1, WriteChoiceIs
<1>3. Faced(choice') = Faced(choice) \cup {user}
  BY <1>2 DEF Faced
<1>4. Optioned(etc', choice', stuck')
  BY <1>1, <1>3 DEF LockInv, Optioned, face_enabled
<1>5. InStep(etc', choice', stuck', op')
  <2>1. InStep(etc, choice, stuck, op)
    BY DEF LockInv
  <2>2. CASE face_enabled /\ ~OptionMayGo
    BY <1>1, <2>1, <2>2 DEF InStep, OptionMayGo
  <2>3. CASE ~(face_enabled /\ ~OptionMayGo)
    <3>1. stuck' = stuck \cup {user}
      BY <1>1, <2>3
    <3>2. Faced(choice) \subseteq stuck => Faced(choice') \subseteq stuck'
      BY <1>3, <3>1
    <3>3. \A u \in Faced(choice') \ stuck' : u \in Faced(choice) \ stuck
      BY <1>3, <3>1
    <3> QED
      BY <1>1, <2>1, <3>2, <3>3 DEF InStep
  <2> QED
    BY <2>2, <2>3
<1> QED
  BY <1>1, <1>2, <1>4, <1>5 DEF LockInv

\* A choice is taken back.
LEMMA LockStop ==
  ASSUME LockInv, NEW user \in Users, StopPreferringFace(user)
  PROVE  LockInv'
<1>1. /\ UNCHANGED <<etc, op>> /\ WriteChoice(user, "Regular") /\ stuck' = stuck \ {user}
  BY DEF StopPreferringFace, fileVars
<1>2. /\ DOMAIN choice' = Users /\ \A u \in Users : Tidy(choice'[u])
      /\ \A u \in Users : u \in Faced(choice') <=>
           IF u = user THEN "Regular" = "Face" ELSE u \in Faced(choice)
  BY <1>1, WriteChoiceIs
<1>3. Faced(choice') = Faced(choice) \ {user}
  <2>1. "Regular" # "Face"
    OBVIOUS
  <2>2. Faced(choice') \subseteq Users /\ Faced(choice) \subseteq Users
    BY DEF Faced
  <2> QED
    BY <1>2, <2>1, <2>2
<1>4. /\ Faced(choice) \subseteq stuck => Faced(choice') \subseteq stuck'
      /\ \A u \in Faced(choice') \ stuck' : u \in Faced(choice) \ stuck
  BY <1>1, <1>3
<1>5. Optioned(etc', choice', stuck')
  BY <1>1, <1>4 DEF LockInv, Optioned
<1>6. InStep(etc', choice', stuck', op')
  BY <1>1, <1>4 DEF InStep, LockInv
<1> QED
  BY <1>1, <1>2, <1>5, <1>6 DEF LockInv

\* Nothing changes for the lock screen, and an operation at most ends.
LEMMA LockStays ==
  ASSUME LockInv, UNCHANGED <<etc, choice, stuck>>, op' = op \/ op' = Idle
  PROVE  LockInv'
<1>1. CASE op' = op
  BY <1>1 DEF LockInv
<1>2. CASE op' = Idle
  <2>1. op'.name = "idle"
    BY <1>2 DEF Idle
  <2>2. InStep(etc', choice, stuck, op')
    BY <2>1, IdleInStep
  <2> QED
    BY <2>2, ChoicesStay DEF LockInv
<1> QED
  BY <1>1, <1>2

\* Nobody starts with Face at first.
LEMMA LockInit == FilesInit => LockInv
<1> SUFFICES ASSUME FilesInit PROVE LockInv
  OBVIOUS
<1>1. /\ system \in Systems /\ etc = [p \in Path |-> NoFile] /\ op = Idle
      /\ choice = [u \in Users |-> system.choice]
  BY DEF FilesInit
<1>2. Tidy(system.choice) /\ read_choice(system.choice) # "Face"
  BY <1>1, ChoiceAssumption
<1>3. DOMAIN choice = Users /\ \A u \in Users : choice[u] = system.choice
  BY <1>1
<1>4. Faced(choice) = {}
  BY <1>2, <1>3 DEF Faced
<1>5. etc[RC] = NoFile
  BY <1>1, Names
<1>6. op.name = "idle"
  BY <1>1 DEF Idle
<1>7. InStep(etc, choice, stuck, op)
  BY <1>6, IdleInStep
<1> QED
  BY <1>2, <1>3, <1>4, <1>5, <1>7, NoFileIs DEF LockInv, Optioned

\* Every step preserves the invariant.
LEMMA LockStep == WalletInv /\ LockInv /\ [FilesNext]_pam_vars => LockInv'
<1> SUFFICES ASSUME WalletInv, LockInv, [FilesNext]_pam_vars PROVE LockInv'
  OBVIOUS
<1>1. CASE SetTargetOn
  BY <1>1, LockStartEnable DEF SetTargetOn
<1>2. CASE Refresh
  BY <1>2, LockStartEnable DEF Refresh
<1>3. CASE EnableStep
  BY <1>3, LockEnableStep
<1>4. CASE EnableFails
  BY <1>4, LockEnableFails
<1>5. CASE RollbackStep
  BY <1>5, LockRollback
<1>6. CASE SetTargetOff
  BY <1>6, LockSetTargetOff
<1>7. CASE StartReset
  BY <1>7, LockStartReset
<1>8. CASE RevertStep
  BY <1>8, LockRevert
<1>9. CASE SaveState
  BY <1>9, LockStays DEF SaveState, lockVars
<1>10. CASE Abort
  BY <1>10, LockStays DEF Abort, lockVars
<1>11. CASE AdminEdit
  BY <1>11, LockAdminEdit
<1>12. CASE LoginSettings
  BY <1>12, LockStays DEF LoginSettings, lockVars
<1>13. CASE ResetSystem
  BY <1>13, LockResetSystem
<1>14. CASE ResetChoice
  BY <1>14, LockResetChoice
<1>15. CASE \E user \in Users : LookUpOption(user)
  BY <1>15, LockStays DEF LookUpOption, fileVars
<1>16. CASE \E user \in Users : PreferFace(user)
  BY <1>16, LockPreferFace
<1>17. CASE \E user \in Users : StopPreferringFace(user)
  BY <1>17, LockStop
<1>18. CASE UNCHANGED pam_vars
  BY <1>18, LockStays DEF pam_vars
<1> QED
  BY <1>1, <1>2, <1>3, <1>4, <1>5, <1>6, <1>7, <1>8, <1>9, <1>10, <1>11, <1>12, <1>13, <1>14,
     <1>15, <1>16, <1>17, <1>18 DEF FilesNext

\* The property is a consequence of it.
LEMMA LockInvStarts == LockInv => LockScreenStarts
<1> SUFFICES ASSUME LockInv PROVE LockScreenStarts
  OBVIOUS
<1>1. ChoiceHasOption
  BY DEF LockInv, Optioned, Faced, ChoiceHasOption, face_enabled
<1>2. ChoiceIsKept
  <2> SUFFICES ASSUME NEW u \in Users, NEW value \in {"Face", "Regular"}
               PROVE  LET new == set_choice(choice[u], value)
                      IN  /\ LastValue(new, "Greeter", "Authenticator") = value
                          /\ Pick(new, Others(new)) = Pick(choice[u], Others(choice[u]))
                          /\ Cardinality({i \in DOMAIN new : new[i] = <<"[", "Greeter">>}) = 1
    BY DEF ChoiceIsKept, Others
  <2> DEFINE new == set_choice(choice[u], value)
  <2>1. Chosen(choice[u], value, new)
    BY SetChoiceIs DEF LockInv
  <2> HIDE DEF new
  <2>2. Pick(new, Others(new)) = Pick(choice[u], Others(choice[u]))
    BY <2>1 DEF Chosen
  <2>3. LastValue(new, "Greeter", "Authenticator") = value
        /\ Cardinality({i \in DOMAIN new : new[i] = <<"[", "Greeter">>}) = 1
    BY <2>1, ChosenReads
  <2> QED
    BY <2>2, <2>3 DEF new
<1> QED
  BY <1>1, <1>2 DEF LockScreenStarts

\* kscreenlocker is never told to start with an option it lacks, except for a user
\* who chose while the option was being taken away or whose file could not be
\* written; and a choice that is written is read back, with every other line kept.
THEOREM LockScreenSafe == FilesSpec => []LockScreenStarts
BY WalletInit, WalletStep, LockInit, LockStep, LockInvStarts, PTL DEF FilesSpec

\* A function of the files, as enable keeps one from before.
Mapped(f) == f = [p \in Path |-> f[p]]

\* The steps of every target's plan.
Steps == PlainSteps \cup {Release, Remember, Autologin}

\* Of the plan n the steps todo are left, and only files of the others changed.
Behind(n, todo, f, b) ==
  \E k \in Nat : /\ todo \in Seq(Steps) /\ k + Len(todo) = Len(n)
                 /\ \A j \in 1..Len(todo) : todo[j] = n[k + j]
                 /\ \A p \in Path : f[p] # b[p] => \E i \in 1..k : n[i][1] = p

\* Whatever is not as before is still to be put back.
Owing(todo, f, b) ==
  /\ todo \in Seq(Steps)
  /\ \A p \in Path : f[p] # b[p] => \E i \in DOMAIN todo : todo[i][1] = p

\* What a rollback has not put back yet is still on its list, whatever step of
\* enable failed (pam.py, enable: before holds every file of the plan).
RollInv ==
  /\ Mapped(etc)
  /\ op.name \in {"enable", "rollback"} => Mapped(op.before)
  /\ op.name = "enable" => op.plan \in Seq(Steps) /\ Behind(op.plan, op.todo, etc, op.before)
  /\ op.name = "rollback" => Owing(op.todo, etc, op.before)

\* Every plan is made of such steps.
LEMMA PlanType ==
  ASSUME NEW target \in Target
  PROVE  plan(target) \in Seq(Steps)
<1> DEFINE a == Release
           b == Remember
           c == Autologin
           S == Steps
<1>1. PlainSteps \subseteq S /\ a \in S /\ b \in S /\ c \in S
  BY DEF Steps
<1>2. \A q \in Seq(PlainSteps) : q \in Seq(S)
  BY <1>1, OfSubset
<1> HIDE DEF a, b, c, S
<1>3. <<a, b, c>> \in Seq(S) /\ <<>> \in Seq(S)
  BY <1>1
<1> QED
  BY <1>2, <1>3, PlanIs DEF a, b, c, S

\* Writing one file keeps the files a function of the paths.
LEMMA MappedWrite ==
  ASSUME NEW f, Mapped(f), NEW p, NEW x
  PROVE  Mapped([f EXCEPT ![p] = x])
<1> DEFINE g == [f EXCEPT ![p] = x]
<1>1. f = [q \in Path |-> f[q]]
  BY DEF Mapped
<1>2. DOMAIN f = Path
  BY <1>1
<1>3. g = [q \in Path |-> g[q]]
  BY <1>2
<1> QED
  BY <1>3 DEF Mapped

\* Two such functions that agree everywhere are one.
LEMMA MappedSame ==
  ASSUME NEW f, Mapped(f), NEW g, Mapped(g), \A p \in Path : f[p] = g[p]
  PROVE  f = g
<1>1. f = [q \in Path |-> f[q]] /\ g = [q \in Path |-> g[q]]
  BY DEF Mapped
<1>2. [q \in Path |-> f[q]] = [q \in Path |-> g[q]]
  OBVIOUS
<1> QED
  BY <1>1, <1>2

\* One file is written, and with its step it is one of those behind.
LEMMA BehindNext ==
  ASSUME NEW n, NEW todo \in Seq(Steps), todo # <<>>, NEW f, NEW b, NEW x, Mapped(f),
         NEW k \in Nat, k + Len(todo) = Len(n), \A j \in 1..Len(todo) : todo[j] = n[k + j],
         \A p \in Path : f[p] # b[p] => \E i \in 1..k : n[i][1] = p
  PROVE  Behind(n, Tail(todo), [f EXCEPT ![Head(todo)[1]] = x], b)
<1> DEFINE rest == Tail(todo)
           s == Head(todo)
           g == [f EXCEPT ![s[1]] = x]
<1>1. rest \in Seq(Steps) /\ Len(rest) = Len(todo) - 1 /\ Len(todo) \in Nat /\ Len(todo) >= 1
  OBVIOUS
<1>2. \A j \in 1..Len(rest) : rest[j] = todo[j + 1]
  OBVIOUS
<1>3. s = n[k + 1]
  <2>1. s = todo[1] /\ 1 \in 1..Len(todo)
    BY <1>1
  <2> QED
    BY <2>1
<1>4. DOMAIN f = Path
  BY DEF Mapped
<1>5. \A p \in Path : p # s[1] => g[p] = f[p]
  BY <1>4
<1> HIDE DEF rest, s, g
<1>6. k + 1 \in Nat /\ (k + 1) + Len(rest) = Len(n)
  BY <1>1, SMTT(20)
<1>7. \A j \in 1..Len(rest) : rest[j] = n[(k + 1) + j]
  <2> TAKE j \in 1..Len(rest)
  <2>1. j + 1 \in 1..Len(todo) /\ k + (j + 1) = (k + 1) + j
    BY <1>1
  <2> QED
    BY <1>2, <2>1
<1>8. \A p \in Path : g[p] # b[p] => \E i \in 1..(k + 1) : n[i][1] = p
  <2> SUFFICES ASSUME NEW p \in Path, g[p] # b[p]
               PROVE  \E i \in 1..(k + 1) : n[i][1] = p
    OBVIOUS
  <2>1. CASE p = s[1]
    <3>1. k + 1 \in 1..(k + 1)
      OBVIOUS
    <3> QED
      BY <1>3, <2>1, <3>1
  <2>2. CASE p # s[1]
    <3>1. PICK i \in 1..k : n[i][1] = p
      BY <1>5, <2>2
    <3>2. i \in 1..(k + 1)
      OBVIOUS
    <3> QED
      BY <3>1, <3>2
  <2> QED
    BY <2>1, <2>2
<1>9. Behind(n, rest, g, b)
  BY <1>1, <1>6, <1>7, <1>8 DEF Behind
<1> QED
  BY <1>9 DEF rest, s, g

\* One file is put back, and the rest is still owed.
LEMMA OwingNext ==
  ASSUME NEW todo, todo # <<>>, NEW f, NEW b, Mapped(f), Owing(todo, f, b)
  PROVE  Owing(Tail(todo), [f EXCEPT ![Head(todo)[1]] = b[Head(todo)[1]]], b)
<1> DEFINE rest == Tail(todo)
           q == Head(todo)[1]
           g == [f EXCEPT ![q] = b[q]]
<1>0. todo \in Seq(Steps) /\ \A p \in Path : f[p] # b[p] => \E i \in DOMAIN todo : todo[i][1] = p
  BY DEF Owing
<1>1. /\ rest \in Seq(Steps) /\ Len(rest) = Len(todo) - 1 /\ Len(todo) \in Nat
      /\ DOMAIN todo = 1..Len(todo) /\ DOMAIN rest = 1..Len(rest)
  BY <1>0
<1>2. \A j \in 1..Len(rest) : rest[j] = todo[j + 1]
  BY <1>0
<1>3. q = todo[1][1]
  BY <1>0
<1>4. DOMAIN f = Path
  BY DEF Mapped
<1>5. \A p \in Path : g[p] = IF p = q THEN b[p] ELSE f[p]
  BY <1>4
<1> HIDE DEF rest, q, g
<1>6. \A p \in Path : g[p] # b[p] => \E i \in DOMAIN rest : rest[i][1] = p
  <2> SUFFICES ASSUME NEW p \in Path, g[p] # b[p]
               PROVE  \E i \in DOMAIN rest : rest[i][1] = p
    OBVIOUS
  <2>1. p # q /\ f[p] # b[p]
    BY <1>5
  <2>2. PICK i \in DOMAIN todo : todo[i][1] = p
    BY <1>0, <2>1
  <2>3. i \in 1..Len(todo) /\ i # 1
    BY <1>1, <1>3, <2>1, <2>2
  <2>4. i - 1 \in 1..Len(rest) /\ (i - 1) + 1 = i
    BY <1>1, <2>3
  <2>5. rest[i - 1] = todo[i]
    BY <1>2, <2>4
  <2> QED
    BY <1>1, <2>2, <2>4, <2>5
<1>7. Owing(rest, g, b)
  BY <1>1, <1>6 DEF Owing
<1> QED
  BY <1>7 DEF rest, q, g

\* enable() begins with all of its plan ahead and nothing changed.
LEMMA RollStartEnable ==
  ASSUME RollInv, NEW target \in Target, NEW user, StartEnable(target, user)
  PROVE  RollInv'
<1> DEFINE n == plan(target)
<1>1. /\ etc' = etc
      /\ op' = [name |-> "enable", target |-> target, user |-> user, plan |-> n, todo |-> n,
                state |-> manifest, before |-> etc]
  BY DEF StartEnable
<1>2. op'.name = "enable" /\ op'.plan = n /\ op'.todo = n /\ op'.before = etc
  BY <1>1
<1>3. n \in Seq(Steps)
  BY PlanType
<1> HIDE DEF n
<1>4. Behind(n, n, etc, etc)
  <2>1. 0 \in Nat /\ 0 + Len(n) = Len(n) /\ \A j \in 1..Len(n) : n[j] = n[0 + j]
    BY <1>3
  <2> QED
    BY <1>3, <2>1 DEF Behind
<1>5. Mapped(etc)
  BY DEF RollInv
<1> QED
  BY <1>1, <1>2, <1>3, <1>4, <1>5 DEF RollInv

\* A step of enable() writes the file of the step and moves on in the plan.
LEMMA RollEnableStep ==
  ASSUME WalletInv, RollInv, EnableStep
  PROVE  RollInv'
<1> DEFINE s == Head(op.todo)
           x == new_text(s[1], s[2], op.user)
           rest == Tail(op.todo)
           n == op.plan
           b == op.before
<1>0. /\ op.name = "enable" /\ op.todo # <<>>
      /\ etc' = [etc EXCEPT ![s[1]] = x]
      /\ op' = [op EXCEPT !.todo = rest, !.state = recorded(s[1], s[2], op.user, op.state)]
  BY DEF EnableStep
<1>1. n \in Seq(Steps) /\ Mapped(etc) /\ Mapped(b) /\ Behind(n, op.todo, etc, b)
  BY <1>0 DEF RollInv
<1>2. op'.name = "enable" /\ op'.plan = n /\ op'.todo = rest /\ op'.before = b
  BY <1>0 DEF WalletInv
<1> HIDE DEF x
<1>3. Mapped(etc')
  BY <1>0, <1>1, MappedWrite
<1>4. PICK k \in Nat : /\ op.todo \in Seq(Steps) /\ k + Len(op.todo) = Len(n)
                       /\ \A j \in 1..Len(op.todo) : op.todo[j] = n[k + j]
                       /\ \A p \in Path : etc[p] # b[p] => \E i \in 1..k : n[i][1] = p
  BY <1>1 DEF Behind
<1>5. Behind(n, rest, etc', b)
  <2> HIDE DEF n, b
  <2> QED
    BY <1>0, <1>1, <1>4, BehindNext
<1> HIDE DEF n, b, rest
<1> QED
  BY <1>1, <1>2, <1>3, <1>5 DEF RollInv

\* A step fails: every file written so far, that of the step too, is in the plan
\* that is put back.
LEMMA RollEnableFails ==
  ASSUME WalletInv, RollInv, EnableFails
  PROVE  RollInv'
<1> DEFINE n == op.plan
           b == op.before
<1>0. /\ op.name = "enable" /\ etc' = etc
      /\ op' = [op EXCEPT !.name = "rollback", !.todo = n]
  BY DEF EnableFails
<1>1. n \in Seq(Steps) /\ Mapped(etc) /\ Mapped(b) /\ Behind(n, op.todo, etc, b)
  BY <1>0 DEF RollInv
<1>2. op'.name = "rollback" /\ op'.todo = n /\ op'.before = b
  BY <1>0 DEF WalletInv
<1> HIDE DEF n, b
<1>3. PICK k \in Nat : /\ op.todo \in Seq(Steps) /\ k + Len(op.todo) = Len(n)
                       /\ \A p \in Path : etc[p] # b[p] => \E i \in 1..k : n[i][1] = p
  BY <1>1 DEF Behind
<1>4. \A i \in 1..k : i \in DOMAIN n
  BY <1>1, <1>3
<1>5. Owing(n, etc, b)
  BY <1>1, <1>3, <1>4 DEF Owing
<1> QED
  BY <1>0, <1>1, <1>2, <1>5 DEF RollInv

\* A file is put back as it was.
LEMMA RollRollback ==
  ASSUME WalletInv, RollInv, RollbackStep
  PROVE  RollInv'
<1> DEFINE q == Head(op.todo)[1]
           rest == Tail(op.todo)
           b == op.before
<1>0. /\ op.name = "rollback" /\ op.todo # <<>>
      /\ etc' = [etc EXCEPT ![q] = b[q]]
      /\ op' = [op EXCEPT !.todo = rest]
  BY DEF RollbackStep, PutBack
<1>1. Mapped(etc) /\ Mapped(b) /\ Owing(op.todo, etc, b)
  BY <1>0 DEF RollInv
<1>2. op'.name = "rollback" /\ op'.todo = rest /\ op'.before = b
  BY <1>0 DEF WalletInv
<1> HIDE DEF b
<1>3. Owing(rest, etc', b)
  BY <1>0, <1>1, OwingNext
<1> HIDE DEF rest, q
<1>4. Mapped(etc')
  BY <1>0, <1>1, MappedWrite
<1> QED
  BY <1>1, <1>2, <1>3, <1>4 DEF RollInv

\* Another operation, or none, is in progress.
LEMMA RollOther ==
  ASSUME Mapped(etc'), op'.name \notin {"enable", "rollback"}
  PROVE  RollInv'
BY DEF RollInv

\* Neither the files nor the operation change.
LEMMA RollStays ==
  ASSUME RollInv, UNCHANGED <<etc, op>>
  PROVE  RollInv'
BY DEF RollInv

\* No operation is in progress at first.
LEMMA RollInit == FilesInit => RollInv
<1> SUFFICES ASSUME FilesInit PROVE RollInv
  OBVIOUS
<1>1. etc = [p \in Path |-> NoFile] /\ op = Idle
  BY DEF FilesInit
<1>2. op.name = "idle"
  BY <1>1 DEF Idle
<1>3. Mapped(etc)
  BY <1>1 DEF Mapped
<1> QED
  BY <1>2, <1>3 DEF RollInv

\* RollInv is preserved by every step, given WalletInv.
LEMMA RollStep == WalletInv /\ RollInv /\ [FilesNext]_pam_vars => RollInv'
<1> SUFFICES ASSUME WalletInv, RollInv, [FilesNext]_pam_vars PROVE RollInv'
  OBVIOUS
<1>0. Mapped(etc) /\ Idle.name = "idle"
  BY DEF RollInv, Idle
<1>1. CASE SetTargetOn
  BY <1>1, RollStartEnable DEF SetTargetOn
<1>2. CASE Refresh
  BY <1>2, RollStartEnable DEF Refresh
<1>3. CASE EnableStep
  BY <1>3, RollEnableStep
<1>4. CASE EnableFails
  BY <1>4, RollEnableFails
<1>5. CASE RollbackStep
  BY <1>5, RollRollback
<1>6. CASE SetTargetOff
  <2>1. etc' = etc /\ op'.name = "disable"
    BY <1>6 DEF SetTargetOff, Idle
  <2> QED
    BY <1>0, <2>1, RollOther
<1>7. CASE StartReset
  <2>1. etc' = etc /\ op'.name = "reset"
    BY <1>7 DEF StartReset, Idle
  <2> QED
    BY <1>0, <2>1, RollOther
<1>8. CASE RevertStep
  <2>1. op'.name = op.name /\ op.name \in {"disable", "reset"}
    BY <1>8 DEF RevertStep, WalletInv
  <2>2. etc' = etc \/ \E p, x : etc' = [etc EXCEPT ![p] = x]
    BY <1>8 DEF RevertStep
  <2>3. Mapped(etc')
    BY <1>0, <2>2, MappedWrite
  <2> QED
    BY <2>1, <2>3, RollOther
<1>9. CASE SaveState
  BY <1>0, <1>9, RollOther DEF SaveState
<1>10. CASE Abort
  BY <1>0, <1>10, RollOther DEF Abort
<1>11. CASE AdminEdit
  <2>1. op' = Idle
    BY <1>11 DEF AdminEdit
  <2>2. PICK p \in Path \ {DROPIN}, line \in ADMIN_LINES :
          etc' = [etc EXCEPT ![p] = IF Found(p) THEN Append(Source(p), line) ELSE <<line>>]
    BY <1>11 DEF AdminEdit
  <2> DEFINE x == IF Found(p) THEN Append(Source(p), line) ELSE <<line>>
  <2>3. etc' = [etc EXCEPT ![p] = x]
    BY <2>2
  <2> HIDE DEF x
  <2>4. Mapped(etc')
    BY <1>0, <2>3, MappedWrite
  <2> QED
    BY <1>0, <2>1, <2>4, RollOther
<1>12. CASE LoginSettings
  BY <1>12, RollStays DEF LoginSettings
<1>13. CASE ResetSystem
  <2>1. etc' = etc /\ op'.name = "reset-choices"
    BY <1>13 DEF ResetSystem, Idle
  <2> QED
    BY <1>0, <2>1, RollOther
<1>14. CASE ResetChoice
  <2>1. etc' = etc /\ op'.name = "reset-choices"
    BY <1>14 DEF ResetChoice, WalletInv
  <2> QED
    BY <1>0, <2>1, RollOther
<1>15. CASE \E user \in Users : LookUpOption(user)
  BY <1>15, RollStays DEF LookUpOption, fileVars
<1>16. CASE \E user \in Users : PreferFace(user)
  BY <1>16, RollStays DEF PreferFace, fileVars
<1>17. CASE \E user \in Users : StopPreferringFace(user)
  BY <1>17, RollStays DEF StopPreferringFace, fileVars
<1>18. CASE UNCHANGED pam_vars
  BY <1>18, RollStays DEF pam_vars
<1> QED
  BY <1>1, <1>2, <1>3, <1>4, <1>5, <1>6, <1>7, <1>8, <1>9, <1>10, <1>11, <1>12, <1>13, <1>14,
     <1>15, <1>16, <1>17, <1>18 DEF FilesNext

\* With nothing left to put back, every file is as it was.
LEMMA RollInvRestores == RollInv => RollbackRestores
<1> SUFFICES ASSUME RollInv, op.name = "rollback", op.todo = <<>> PROVE etc = op.before
  BY DEF RollbackRestores
<1>1. Mapped(etc) /\ Mapped(op.before) /\ Owing(op.todo, etc, op.before)
  BY DEF RollInv
<1>2. DOMAIN op.todo = {}
  OBVIOUS
<1>3. \A p \in Path : etc[p] = op.before[p]
  BY <1>1, <1>2 DEF Owing
<1> QED
  BY <1>1, <1>3, MappedSame

\* A failed enable leaves every file as it was, whichever step failed and
\* whatever earlier operations and the administrator left (enable's rollback).
THEOREM FailedEnableRestores == FilesSpec => []RollbackRestores
BY WalletInit, WalletStep, RollInit, RollStep, RollInvRestores, PTL DEF FilesSpec
==============================================================================
