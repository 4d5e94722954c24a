-------------------------- MODULE ReturnApplyProofs --------------------------
(***************************************************************************)
(* Proofs about ReturnApply for every number of edits, crashes and faults: *)
(* the type invariant, that nothing the user wrote is lost, that the       *)
(* journal covers the moved original, that the approved original is given  *)
(* up only by the user or by a recorded apply, and that a record of the    *)
(* movement tells the truth about the disk and is not taken back.          *)
(***************************************************************************)
EXTENDS ReturnApply, TLAPS

(* What is on disk at each step of the process.  The journal is durable    *)
(* from the moment the stage is written until both siblings are gone.      *)
DiskAtStep ==
    /\ pc = "begin" => src \in UserTrees
    /\ pc = "stage" => stage = NoTree
    /\ pc \in {"stage", "journalStaged", "check", "moveOriginal"} =>
          src \in UserTrees /\ backup = NoTree
    /\ pc \in {"journalStaged", "check", "moveOriginal", "journalMoved",
       "install",
               "recoverMove", "recoverReinstall", "recoverInstall"} =>
          stage = Result
    /\ pc = "recoverMove" => src \in UserTrees
    /\ pc \in {"journalInstalled", "commit", "clean", "removeBackup",
       "removeStage",
               "recoverVerify"} => src # NoTree
    /\ pc = "recoverRestore" => stage # Result /\ backup = Baseline
    /\ pc = "recoverDiscardStage" =>
          stage # Result /\ backup = NoTree /\ src \in UserTrees
    /\ pc = "removeBackup" => backup = Baseline
    /\ pc = "removeStage" => backup = NoTree

JournalAtStep ==
    /\ pc \in {"stage", "journalStaged", "check", "moveOriginal",
       "journalMoved",
               "install", "journalInstalled", "commit", "recoverMove",
               "recoverReinstall", "recoverVerify", "recoverInstall",
               "recoverRestore", "clean", "removeBackup", "removeStage"} =>
          dur.txn # "none"
    /\ pc \in ApplySteps \ {"begin"} \/ pc \in RecoverSteps
          \/ pc \in {"clean", "removeBackup", "removeStage"} =>
          mem.txn # "none"
    /\ pc \in {"clean", "removeBackup", "removeStage"} => mem.applied
    /\ pc = "finish" => mem.applied \/ (mem.txn = "none" /\ src \in UserTrees)
    /\ pc = "begin" => mem.txn = "none"

(* A record without a journal, in memory or in the envelope, describes a   *)
(* folder in place with no original aside and no complete result staged.   *)
Settled == src # NoTree /\ backup = NoTree /\ stage # Result

IInv ==
    /\ TypeOK
    /\ DiskAtStep
    /\ JournalAtStep
    /\ dur.txn = "none" => Settled
    /\ pc # "down" /\ mem.txn = "none" => Settled
    /\ pc # "down" /\ mem.txn # "none" /\ dur.txn = "none" => src \in UserTrees
    /\ EditsKept

-----------------------------------------------------------------------------
(* What a change of one part of the record keeps.                          *)
LEMMA UpdateFields ==
    \A r \in WorkspaceMovementRecordV1 :
        /\ r.applied \in BOOLEAN
        /\ \A s, c : /\ Status(r, s, c).txn = r.txn
                     /\ Status(r, s, c).applied = r.applied
                     /\ Status(r, s, c).result = r.result
                     /\ Status(r, s, c).state = s
                     /\ Status(r, s, c).code = c
        /\ \A s, c, v : /\ [Status(r, s, c) EXCEPT !.result = v].txn = r.txn
                        /\ [Status(r, s, c) EXCEPT !.result = v].applied = r.applied
                        /\ [Status(r, s, c) EXCEPT !.result = v].state = s
                        /\ [Status(r, s, c) EXCEPT !.result = v].code = c
        /\ \A t : /\ [r EXCEPT !.txn = t].txn = t
                  /\ [r EXCEPT !.txn = t].applied = r.applied
                  /\ [r EXCEPT !.txn = t].state = r.state
                  /\ [r EXCEPT !.txn = t].code = r.code
        /\ \A c : /\ [r EXCEPT !.code = c].txn = r.txn
                  /\ [r EXCEPT !.code = c].applied = r.applied
                  /\ [r EXCEPT !.code = c].state = r.state
                  /\ [r EXCEPT !.code = c].code = c
  BY Zenon DEF Status, WorkspaceMovementRecordV1

(* A changed record is a record.                                           *)
LEMMA UpdateType ==
    ASSUME NEW r \in WorkspaceMovementRecordV1
    PROVE  /\ \A s \in MovementStates, c \in Codes :
                 /\ Status(r, s, c) \in WorkspaceMovementRecordV1
                 /\ [Status(r, s, c) EXCEPT !.result = "rematerialized"] \in
                       WorkspaceMovementRecordV1
           /\ \A t \in WorkspaceApplyPhaseV1 \union {"none"} :
                 [r EXCEPT !.txn = t] \in WorkspaceMovementRecordV1
           /\ \A c \in Codes : [r EXCEPT !.code = c] \in WorkspaceMovementRecordV1
           /\ r.applied \in BOOLEAN
           /\ r.result \in {"none", "journalled", "rematerialized"}
<1>1. \A s \in MovementStates, c \in Codes :
        /\ Status(r, s, c) \in WorkspaceMovementRecordV1
        /\ [Status(r, s, c) EXCEPT !.result = "rematerialized"] \in
              WorkspaceMovementRecordV1
  BY Zenon DEF Status, WorkspaceMovementRecordV1
<1>2. \A t \in WorkspaceApplyPhaseV1 \union {"none"} :
        [r EXCEPT !.txn = t] \in WorkspaceMovementRecordV1
  BY DEF WorkspaceMovementRecordV1
<1>3. \A c \in Codes : [r EXCEPT !.code = c] \in WorkspaceMovementRecordV1
  BY DEF WorkspaceMovementRecordV1
<1>4. /\ r.applied \in BOOLEAN
      /\ r.result \in {"none", "journalled", "rematerialized"}
  BY Zenon DEF WorkspaceMovementRecordV1
<1> QED
  BY Zenon, <1>1, <1>2, <1>3, <1>4

(* What a restart loads without a journal is a record.                     *)
LEMMA RestoredType ==
    ASSUME NEW r \in WorkspaceMovementRecordV1
    PROVE  RestoredRecord(r) \in WorkspaceMovementRecordV1
  BY Zenon, UpdateType DEF RestoredRecord, MovementStates, Codes

(* What a commit writes.                                                   *)
LEMMA CommitType ==
    \A u \in {"none", "journalled", "rematerialized"} :
        /\ CommittedRecord(u) \in WorkspaceMovementRecordV1
        /\ CommittedRecord(u).txn = "Committed"
        /\ CommittedRecord(u).applied
  BY Zenon DEF CommittedRecord, WorkspaceMovementRecordV1, MovementStates, Codes,
         WorkspaceApplyPhaseV1

(* An abandoned attempt closes the journal.                                *)
LEMMA AbandonType ==
    AbandonStaged \in WorkspaceMovementRecordV1 /\ AbandonStaged.txn = "none"
  BY Zenon DEF AbandonStaged, WorkspaceMovementRecordV1, MovementStates, Codes,
         WorkspaceApplyPhaseV1

(* Every step leaves records in memory and in the envelope.                *)
LEMMA RecordStep ==
    TypeOK /\ [Next]_vars =>
        mem' \in WorkspaceMovementRecordV1 /\ dur' \in WorkspaceMovementRecordV1
<1> DEFINE Records ==
     mem' \in WorkspaceMovementRecordV1 /\ dur' \in WorkspaceMovementRecordV1
<1> SUFFICES ASSUME TypeOK, [Next]_vars PROVE Records
  BY Zenon
<1>a. mem \in WorkspaceMovementRecordV1 /\ dur \in WorkspaceMovementRecordV1
  BY Zenon DEF TypeOK
<1>b. ASSUME mem' \in WorkspaceMovementRecordV1, dur' = mem' \/ UNCHANGED dur
      PROVE  Records
  BY Zenon, <1>a, <1>b
<1>c. \A s \in MovementStates, c \in Codes :
        Status(mem, s, c) \in WorkspaceMovementRecordV1
  BY Zenon, <1>a, UpdateType
<1>d. \A t \in WorkspaceApplyPhaseV1 \union {"none"} :
        [mem EXCEPT !.txn = t] \in WorkspaceMovementRecordV1
  BY Zenon, <1>a, UpdateType
<1>1. CASE UNCHANGED <<mem, dur>>
  BY Zenon, <1>a, <1>1
<1>2. CASE ReceiveConflict
  BY Zenon, <1>a, <1>b, <1>2, UpdateType DEF ReceiveConflict, Persist,
     MovementStates, Codes
<1>3. CASE Retain
  <2>1. Status(mem, "Interrupted", "retention_failed") \in WorkspaceMovementRecordV1
    BY Zenon, <1>c DEF MovementStates, Codes
  <2> QED
    BY Zenon, <1>a, <1>b, <1>3, <2>1 DEF Retain, Goto
<1>4. CASE finalize_conflict_recovery \/ Reconcile
  <2>1. Status(mem, "ConflictRecoveryRequired", "source_changed") \in
          WorkspaceMovementRecordV1
    BY Zenon, <1>c DEF MovementStates, Codes
  <2>2. Status(mem, "ReturningResult", "result_return_retry_required") \in
          WorkspaceMovementRecordV1
    BY Zenon, <1>c DEF MovementStates, Codes
  <2> QED
    BY Zenon, <1>b, <1>4, <2>1, <2>2 DEF finalize_conflict_recovery, Reconcile,
       Persist
<1>5. CASE BeginApply
  <2>1. mem' \in WorkspaceMovementRecordV1
    BY <1>a, <1>5 DEF BeginApply, WorkspaceMovementRecordV1, MovementStates,
       Codes, WorkspaceApplyPhaseV1
  <2> QED
    BY Zenon, <1>b, <1>5, <2>1 DEF BeginApply, Persist
<1>6. CASE JournalStaged \/ JournalMoved \/ JournalInstalled
  <2>1. /\ [mem EXCEPT !.txn = "Staged"] \in WorkspaceMovementRecordV1
        /\ [mem EXCEPT !.txn = "OriginalMoved"] \in WorkspaceMovementRecordV1
        /\ [mem EXCEPT !.txn = "ResultInstalled"] \in WorkspaceMovementRecordV1
    BY Zenon, <1>d DEF WorkspaceApplyPhaseV1
  <2> QED
    BY Zenon, <1>a, <1>b, <1>6, <2>1 DEF JournalStaged, JournalMoved,
       JournalInstalled, Journal, Persist, Goto
<1>7. CASE CommitApply
  BY Zenon, <1>a, <1>b, <1>7, UpdateType, CommitType DEF CommitApply, Persist
<1>8. CASE RemoveStage
  <2>1. [mem EXCEPT !.txn = "none"] \in WorkspaceMovementRecordV1
    BY Zenon, <1>d
  <2> QED
    BY Zenon, <1>a, <1>b, <1>8, <2>1 DEF RemoveStage, IoError
<1>9. CASE Finish
  BY Zenon, <1>a, <1>b, <1>9 DEF Finish, Persist
<1>10. CASE RecognizeCommitted \/ RecoverInstall \/ RecoverVerify
  BY Zenon, <1>a, <1>b, <1>10, CommitType DEF RecognizeCommitted,
     RecoverInstall, RecoverVerify, mark_workspace_apply_committed, Fails,
     Goto, IoError
<1>11. CASE RecoverRestore \/ RecoverDiscardStage
  BY Zenon, <1>a, <1>b, <1>11, AbandonType DEF RecoverRestore,
     RecoverDiscardStage, Fails, Goto, IoError
<1>12. CASE RecoverFailed
  <2>1. InterruptedApply(mem) \in WorkspaceMovementRecordV1
    BY Zenon, <1>c DEF InterruptedApply, MovementStates, Codes
  <2> QED
    BY Zenon, <1>a, <1>b, <1>12, <2>1 DEF RecoverFailed, Persist, Goto
<1>13. CASE discard_retained_conflict_result \/ RecordDiscarded
  <2>1. Status(mem, "Cancelled", "discard_pending") \in WorkspaceMovementRecordV1
    BY Zenon, <1>c DEF MovementStates, Codes
  <2>2. [mem EXCEPT !.code = "discarded"] \in WorkspaceMovementRecordV1
    BY Zenon, <1>a, UpdateType DEF Codes
  <2> QED
    BY Zenon, <1>a, <1>b, <1>13, <2>1, <2>2 DEF discard_retained_conflict_result,
       RecordDiscarded, IoError
<1>14. CASE Restart
  BY Zenon, <1>a, <1>b, <1>14, RestoredType DEF Restart
<1> QED
  BY Zenon, <1>1, <1>2, <1>3, <1>4, <1>5, <1>6, <1>7, <1>8, <1>9, <1>10, <1>11,
     <1>12, <1>13, <1>14 DEF Next, Process, vars, ReceiveUnchanged,
     RefuseOccupiedPaths, stage_exact_workspace_result, CheckUnchanged,
     MoveOriginal, InstallResult, CleanupCheck, RemoveBackup, PlanRecovery,
     RecoverMove, finish_pending_conflict_discard, ResumeDiscard, Crash, Edit,
     DamageStage, Goto, IoError, Fails

(* Every step keeps the types.                                             *)
LEMMA TypeStep == TypeOK /\ [Next]_vars => TypeOK'
<1> SUFFICES ASSUME TypeOK, [Next]_vars PROVE TypeOK'
  BY Zenon
<1>a. mem' \in WorkspaceMovementRecordV1 /\ dur' \in WorkspaceMovementRecordV1
  BY Zenon, RecordStep
<1> USE <1>a, BoundsAssumption DEF TypeOK,
     Trees, UserTrees, NoTree, Result, Partial, Baseline, Steps, ApplySteps, RecoverSteps, CleanSteps, RetainSteps, DiscardSteps,
     Contexts, disk
<1>1. CASE ReceiveConflict
  BY <1>1 DEF ReceiveConflict, return_is_admitted, Persist, Fault
<1>2. CASE ReceiveUnchanged
  BY <1>2 DEF ReceiveUnchanged, return_is_admitted, Goto
<1>3. CASE Retain
  BY <1>3 DEF Retain, Goto, Fault
<1>4. CASE finalize_conflict_recovery
  BY <1>4 DEF finalize_conflict_recovery, Persist, Fault
<1>5. CASE BeginApply
  BY <1>5 DEF BeginApply, Persist, Fault
<1>6. CASE RefuseOccupiedPaths
  BY <1>6 DEF RefuseOccupiedPaths, Goto
<1>7. CASE stage_exact_workspace_result
  BY <1>7 DEF stage_exact_workspace_result, Goto, IoError, Fault
<1>8. CASE JournalStaged
  BY <1>8 DEF JournalStaged, Journal, Persist, Fault
<1>9. CASE CheckUnchanged
  BY <1>9 DEF CheckUnchanged, Goto, Fails, IoError, Fault
<1>10. CASE MoveOriginal
  BY <1>10 DEF MoveOriginal, CanMove, Goto, IoError, Fault
<1>11. CASE JournalMoved
  BY <1>11 DEF JournalMoved, Journal, Persist, Fault
<1>12. CASE InstallResult
  BY <1>12 DEF InstallResult, CanMove, Goto, Fails, IoError, Fault
<1>13. CASE JournalInstalled
  BY <1>13 DEF JournalInstalled, Journal, Persist, Fault, Goto
<1>14. CASE CommitApply
  BY <1>14 DEF CommitApply, Persist, Fault
<1>15. CASE CleanupCheck
  BY <1>15 DEF CleanupCheck, Goto, Fails, IoError, Fault
<1>16. CASE RemoveBackup
  BY <1>16 DEF RemoveBackup, Goto, IoError, Fault
<1>17. CASE RemoveStage
  BY <1>17 DEF RemoveStage, IoError, Fault
<1>18. CASE Finish
  BY <1>18 DEF Finish, Persist, Fault
<1>19. CASE RecognizeCommitted
  BY <1>19 DEF RecognizeCommitted, mark_workspace_apply_committed
<1>20. CASE PlanRecovery
  BY <1>20 DEF PlanRecovery, Goto, RecoveryPlan
<1>21. CASE RecoverMove
  BY <1>21 DEF RecoverMove, CanMove, Goto, IoError, Fault
<1>22. CASE RecoverInstall
  BY <1>22 DEF RecoverInstall, CanMove, Goto, Fails, IoError, Fault,
     mark_workspace_apply_committed
<1>23. CASE RecoverVerify
  BY <1>23 DEF RecoverVerify, Goto, mark_workspace_apply_committed
<1>24. CASE RecoverRestore
  BY <1>24 DEF RecoverRestore, CanMove, Fails, Goto, IoError, Fault
<1>25. CASE RecoverDiscardStage
  BY <1>25 DEF RecoverDiscardStage, IoError, Fault
<1>26. CASE RecoverFailed
  BY <1>26 DEF RecoverFailed, Goto, Persist, Fault, InterruptedApply
<1>27. CASE finish_pending_conflict_discard
  BY <1>27 DEF finish_pending_conflict_discard, Goto, IoError, Fault
<1>28. CASE RecordDiscarded
  BY <1>28 DEF RecordDiscarded, IoError, Fault
<1>29. CASE discard_retained_conflict_result
  BY <1>29 DEF discard_retained_conflict_result, IoError, Fault
<1>30. CASE ResumeDiscard
  BY <1>30 DEF ResumeDiscard, Goto
<1>31. CASE Crash
  BY <1>31 DEF Crash
<1>32. CASE Restart
  BY <1>32 DEF Restart, RestoredRecord
<1>33. CASE Reconcile
  BY <1>33 DEF Reconcile, Persist, Fault
<1>34. CASE Edit
  BY <1>34 DEF Edit
<1>35. CASE DamageStage
  BY <1>35 DEF DamageStage, Fault
<1>36. CASE UNCHANGED vars
  BY <1>36 DEF vars
<1> QED
  BY Zenon, <1>1, <1>2, <1>3, <1>4, <1>5, <1>6, <1>7, <1>8, <1>9, <1>10, <1>11, <1>12,
     <1>13, <1>14, <1>15, <1>16, <1>17, <1>18, <1>19, <1>20, <1>21, <1>22,
     <1>23, <1>24, <1>25, <1>26, <1>27, <1>28, <1>29, <1>30, <1>31, <1>32,
     <1>33, <1>34, <1>35, <1>36 DEF Next, Process

(* Type correctness of the apply, its recovery and its restart.            *)
THEOREM TypeCorrect == Spec => []TypeOK
<1>1. Init => TypeOK
  BY BoundsAssumption DEF Init, TypeOK, Trees, UserTrees, NoTree, Baseline,
     WorkspaceMovementRecordV1, MovementStates, Codes, Steps, Contexts
<1> QED
  BY <1>1, TypeStep, PTL DEF Spec

-----------------------------------------------------------------------------
(* What the steps that rewrite one part of the record leave in it.         *)
LEMMA WhatIsWritten ==
    ASSUME mem \in WorkspaceMovementRecordV1
    PROVE  /\ ReceiveConflict \/ RecordDiscarded =>
                 mem'.txn = mem.txn /\ mem'.applied = mem.applied
           /\ JournalStaged \/ JournalMoved =>
                 mem'.txn # "none" /\ mem'.applied = mem.applied
           /\ JournalInstalled =>
                 /\ mem'.txn # "none" \/ mem' = mem
                 /\ mem'.applied = mem.applied
           /\ RemoveStage => /\ mem'.txn = "none" \/ mem' = mem
                             /\ mem'.applied = mem.applied
<1> USE DEF WorkspaceMovementRecordV1
<1>1. ReceiveConflict => mem'.txn = mem.txn /\ mem'.applied = mem.applied
  BY DEF ReceiveConflict, Status
<1>2. RecordDiscarded => mem'.txn = mem.txn /\ mem'.applied = mem.applied
  BY DEF RecordDiscarded, IoError
<1>3. JournalStaged \/ JournalMoved =>
        mem'.txn # "none" /\ mem'.applied = mem.applied
  BY DEF JournalStaged, JournalMoved, Journal
<1>4. JournalInstalled => /\ mem'.txn # "none" \/ mem' = mem
                          /\ mem'.applied = mem.applied
  BY DEF JournalInstalled, Journal, Goto
<1>5. RemoveStage => /\ mem'.txn = "none" \/ mem' = mem
                     /\ mem'.applied = mem.applied
  BY DEF RemoveStage, IoError
<1> QED
  BY Zenon, <1>1, <1>2, <1>3, <1>4, <1>5

(* Every step keeps the inductive invariant.                               *)
LEMMA InvStep == IInv /\ [Next]_vars => IInv'
<1> SUFFICES ASSUME IInv, [Next]_vars PROVE IInv'
  BY Zenon
<1>a. /\ mem \in WorkspaceMovementRecordV1 /\ dur \in WorkspaceMovementRecordV1
      /\ mem.result \in {"none", "journalled", "rematerialized"}
      /\ user \in UserTrees /\ kept \subseteq UserTrees
  BY Zenon, UpdateType DEF IInv, TypeOK
<1>b. TypeOK'
  BY Zenon, TypeStep DEF IInv
<1> USE <1>a, <1>b, UpdateFields, CommitType, AbandonType, BoundsAssumption DEF
     IInv, DiskAtStep, JournalAtStep, Settled, EditsKept,
     UserTrees, NoTree, Result, Partial, Baseline, ApplySteps, RecoverSteps,
     disk
<1>1. CASE ReceiveConflict
  <2>1. mem'.txn = mem.txn /\ mem'.applied = mem.applied
    BY Zenon, <1>1, <1>a, WhatIsWritten
  <2>2. UNCHANGED <<disk, kept>> /\ pc = "idle"
    BY Zenon, <1>1 DEF ReceiveConflict
  <2>3. (dur' = mem' /\ pc' = "retain") \/ (UNCHANGED dur /\ pc' = "idle")
    BY Zenon, <1>1 DEF ReceiveConflict, Persist
  <2> QED
    BY <2>1, <2>2, <2>3
<1>2. CASE ReceiveUnchanged
  BY <1>2 DEF ReceiveUnchanged, return_is_admitted, Goto
<1>3. CASE Retain
  BY <1>3 DEF Retain, Goto, Fault
<1>4. CASE finalize_conflict_recovery
  BY <1>4 DEF finalize_conflict_recovery, Persist, Fault
<1>5. CASE BeginApply
  BY <1>5 DEF BeginApply, Persist, Fault
<1>6. CASE RefuseOccupiedPaths
  BY <1>6 DEF RefuseOccupiedPaths, Goto
<1>7. CASE stage_exact_workspace_result
  BY <1>7 DEF stage_exact_workspace_result, Goto, IoError, Fault
<1>8. CASE JournalStaged
  <2>1. mem'.txn # "none" /\ mem'.applied = mem.applied
    BY Zenon, <1>8, <1>a, WhatIsWritten
  <2> QED
    BY Zenon, <1>8, <2>1 DEF JournalStaged, Journal, Persist
<1>9. CASE CheckUnchanged
  BY <1>9 DEF CheckUnchanged, Goto, Fails, IoError, Fault
<1>10. CASE MoveOriginal
  BY <1>10 DEF MoveOriginal, CanMove, Goto, IoError, Fault
<1>11. CASE JournalMoved
  <2>1. mem'.txn # "none" /\ mem'.applied = mem.applied
    BY Zenon, <1>11, <1>a, WhatIsWritten
  <2> QED
    BY Zenon, <1>11, <2>1 DEF JournalMoved, Journal, Persist
<1>12. CASE InstallResult
  BY <1>12 DEF InstallResult, CanMove, Goto, Fails, IoError, Fault
<1>13. CASE JournalInstalled
  <2>1. (mem'.txn # "none" \/ mem' = mem) /\ mem'.applied = mem.applied
    BY Zenon, <1>13, <1>a, WhatIsWritten
  <2> QED
    BY <1>13, <2>1 DEF JournalInstalled, Journal, Persist, Goto
<1>14. CASE CommitApply
  BY <1>14 DEF CommitApply, Persist, Fault
<1>15. CASE CleanupCheck
  BY <1>15 DEF CleanupCheck, Goto, Fails, IoError, Fault
<1>16. CASE RemoveBackup
  BY <1>16 DEF RemoveBackup, Goto, IoError, Fault
<1>17. CASE RemoveStage
  <2>1. (mem'.txn = "none" \/ mem' = mem) /\ mem'.applied = mem.applied
    BY Zenon, <1>17, <1>a, WhatIsWritten
  <2> QED
    BY <1>17, <2>1 DEF RemoveStage, IoError
<1>18. CASE Finish
  BY <1>18 DEF Finish, Persist, Fault
<1>19. CASE RecognizeCommitted
  BY <1>19 DEF RecognizeCommitted, mark_workspace_apply_committed
<1>20. CASE PlanRecovery
  BY <1>20 DEF PlanRecovery, Goto, RecoveryPlan
<1>21. CASE RecoverMove
  BY <1>21 DEF RecoverMove, CanMove, Goto, IoError, Fault
<1>22. CASE RecoverInstall
  BY <1>22 DEF RecoverInstall, CanMove, Goto, Fails, IoError, Fault,
     mark_workspace_apply_committed
<1>23. CASE RecoverVerify
  BY <1>23 DEF RecoverVerify, Goto, mark_workspace_apply_committed
<1>24. CASE RecoverRestore
  BY <1>24 DEF RecoverRestore, CanMove, Fails, Goto, IoError, Fault
<1>25. CASE RecoverDiscardStage
  BY <1>25 DEF RecoverDiscardStage, IoError, Fault
<1>26. CASE RecoverFailed
  BY <1>26 DEF RecoverFailed, Goto, Persist, Fault, InterruptedApply
<1>27. CASE finish_pending_conflict_discard
  BY <1>27 DEF finish_pending_conflict_discard, Goto, IoError, Fault
<1>28. CASE RecordDiscarded
  <2>1. mem'.txn = mem.txn /\ mem'.applied = mem.applied
    BY Zenon, <1>28, <1>a, WhatIsWritten
  <2> QED
    BY <1>28, <2>1 DEF RecordDiscarded, IoError
<1>29. CASE discard_retained_conflict_result
  BY <1>29 DEF discard_retained_conflict_result, IoError, Fault
<1>30. CASE ResumeDiscard
  BY <1>30 DEF ResumeDiscard, Goto
<1>31. CASE Crash
  BY <1>31 DEF Crash
<1>32. CASE Restart
  BY <1>32 DEF Restart, RestoredRecord
<1>33. CASE Reconcile
  BY <1>33 DEF Reconcile, Persist, Fault
<1>34. CASE Edit
  BY <1>34 DEF Edit
<1>35. CASE DamageStage
  BY <1>35 DEF DamageStage, Fault
<1>36. CASE UNCHANGED vars
  BY <1>36 DEF vars
<1> QED
  BY Zenon, <1>1, <1>2, <1>3, <1>4, <1>5, <1>6, <1>7, <1>8, <1>9, <1>10, <1>11, <1>12,
     <1>13, <1>14, <1>15, <1>16, <1>17, <1>18, <1>19, <1>20, <1>21, <1>22,
     <1>23, <1>24, <1>25, <1>26, <1>27, <1>28, <1>29, <1>30, <1>31, <1>32,
     <1>33, <1>34, <1>35, <1>36 DEF Next, Process

(* The inductive invariant holds in every behaviour.                       *)
THEOREM Inductive == Spec => []IInv
<1>1. Init => IInv
  BY BoundsAssumption, TypeCorrect DEF Init, IInv, TypeOK, DiskAtStep,
     JournalAtStep,
     Settled, EditsKept, Trees, UserTrees, NoTree, Result, Baseline,
     WorkspaceMovementRecordV1, WorkspaceApplyPhaseV1, MovementStates, Codes,
        Steps,
     ApplySteps, RecoverSteps, Contexts
<1> QED
  BY <1>1, InvStep, PTL DEF Spec

(* Nothing the user wrote is lost, for any number of edits, crashes and    *)
(* I/O errors during an apply, its recovery and a conflict.                *)
THEOREM UserEditsSurvive == Spec => []EditsKept
<1>1. IInv => EditsKept
  BY Zenon DEF IInv
<1> QED
  BY <1>1, Inductive, PTL

(* While the envelope holds no journal the folder is in place.             *)
THEOREM JournalIsComplete == Spec => []JournalCoversMove
<1>1. IInv => JournalCoversMove
  BY Zenon DEF IInv, Settled, JournalCoversMove
<1> QED
  BY <1>1, Inductive, PTL

(* The steps that touch the folder or its backup.                          *)
LEMMA WhoMoves ==
    [Next]_vars =>
        \/ UNCHANGED <<src, backup>>
        \/ MoveOriginal \/ InstallResult \/ RemoveBackup \/ RecoverMove
        \/ RecoverInstall \/ RecoverRestore \/ Crash \/ Edit
  BY Zenon DEF Next, Process, vars, disk, ReceiveConflict, ReceiveUnchanged, Retain,
     finalize_conflict_recovery, BeginApply, RefuseOccupiedPaths,
     stage_exact_workspace_result, JournalStaged, JournalMoved, JournalInstalled,
     Journal, CheckUnchanged, CommitApply, CleanupCheck, RemoveStage, Finish,
     RecognizeCommitted, PlanRecovery, RecoverVerify, RecoverDiscardStage,
     RecoverFailed, finish_pending_conflict_discard, RecordDiscarded,
     discard_retained_conflict_result, ResumeDiscard, Restart, Reconcile, DamageStage

(* The folder or its backup is the approved original until an apply is     *)
(* recorded or the user edits it.                                          *)
LEMMA BaselineStep == IInv /\ [Next]_vars => BaselineKept
<1> SUFFICES ASSUME IInv, [Next]_vars PROVE BaselineKept
  BY Zenon
<1> USE DEF IInv, DiskAtStep, JournalAtStep, BaselineKept, UserTrees, NoTree,
     Partial, Baseline, disk
<1>1. CASE UNCHANGED <<src, backup>>
  BY Zenon, <1>1
<1>2. CASE MoveOriginal
  BY Zenon, <1>2 DEF MoveOriginal, CanMove
<1>3. CASE InstallResult
  BY <1>3 DEF InstallResult, CanMove
<1>4. CASE RemoveBackup
  BY Zenon, <1>4 DEF RemoveBackup
<1>5. CASE RecoverMove
  BY Zenon, <1>5 DEF RecoverMove, CanMove
<1>6. CASE RecoverInstall
  BY <1>6 DEF RecoverInstall, CanMove
<1>7. CASE RecoverRestore
  BY Zenon, <1>7 DEF RecoverRestore, CanMove
<1>8. CASE Crash
  BY Zenon, <1>8 DEF Crash
<1>9. CASE Edit
  BY <1>9 DEF Edit, TypeOK
<1> QED
  BY Zenon, <1>1, <1>2, <1>3, <1>4, <1>5, <1>6, <1>7, <1>8, <1>9, WhoMoves

(* The approved original survives every crash and I/O error until the      *)
(* record says applied.                                                    *)
THEOREM BaselineIsKept == Spec => BaselineReleasedOnlyByApply
<1>1. IInv /\ [Next]_vars => [BaselineKept]_vars
  BY Zenon, BaselineStep
<1> QED
  BY <1>1, Inductive, PTL DEF Spec, BaselineReleasedOnlyByApply

-----------------------------------------------------------------------------
(* What the record claims at each step.  Until the result is in place      *)
(* neither record says applied; a recovery that gave up found an applied   *)
(* record only over a folder the user changed.                             *)
ClaimAtStep ==
    /\ pc \in ApplySteps \/ pc \in RecoverSteps \ {"scan", "recoverFailed"} =>
          ~mem.applied /\ ~dur.applied
    /\ pc \in {"journalInstalled", "commit", "recoverVerify"} =>
          src \notin {Baseline, NoTree, Partial}
    /\ pc = "recoverFailed" /\ dur.applied => src # Result
    /\ pc \in {"retain", "finalize"} =>
          mem.state = "ApplyingResult" /\ mem.code = "retention_pending" /\ dur = mem
    /\ pc = "finalize" => retained = Result
    /\ pc \in {"discard", "discarded"} => mem.state = "Cancelled" /\ dur.state = "Cancelled"
    /\ pc = "discarded" => retained = NoTree

(* A record in itself: completed only when applied, and a discard under    *)
(* way is a cancelled movement.                                            *)
RecordSound(r) ==
    /\ r.state = "Completed" => r.applied
    /\ r.code = "discard_pending" => r.state = "Cancelled"

(* RecordMatchesDisk of the record in memory too, while the process runs.  *)
RInv ==
    /\ RecordMatchesDisk
    /\ ClaimAtStep
    /\ RecordSound(mem) /\ RecordSound(dur)
    /\ pc # "down" =>
          /\ mem.state = "ConflictRecoveryRequired" => retained = Result
          /\ mem.code = "discarded" => retained = NoTree
          /\ mem.state = "Cancelled" => dur.state = "Cancelled"
          /\ dur.state = "Completed" /\ src = Result => mem.state = "Completed"

(* What CompletedWhileInstalled says of one step.                          *)
CompletedKept ==
    dur.state = "Completed" /\ src = Result => dur'.state = "Completed"

(* What a commit and an abandoned attempt report.                          *)
LEMMA Reports ==
    /\ \A u \in {"none", "journalled", "rematerialized"} :
          CommittedRecord(u).state = "Completed" /\ CommittedRecord(u).code = "none"
    /\ AbandonStaged.state = "Interrupted" /\ ~AbandonStaged.applied
    /\ AbandonStaged.code = "result_apply_interrupted"
  BY Zenon DEF CommittedRecord, AbandonStaged

(* Every step keeps what the records claim, and a completed record while   *)
(* the result is in place.                                                 *)
LEMMA ClaimStep == IInv /\ RInv /\ [Next]_vars => RInv' /\ CompletedKept
<1> SUFFICES ASSUME IInv, RInv, [Next]_vars PROVE RInv' /\ CompletedKept
  BY Zenon
<1>a. /\ mem \in WorkspaceMovementRecordV1 /\ dur \in WorkspaceMovementRecordV1
      /\ mem.applied \in BOOLEAN /\ dur.applied \in BOOLEAN
      /\ mem.result \in {"none", "journalled", "rematerialized"}
      /\ user \in Nat /\ DiskAtStep
  BY DEF IInv, TypeOK, WorkspaceMovementRecordV1, UserTrees
<1> USE <1>a, UpdateFields, CommitType, AbandonType, Reports DEF
     DiskAtStep, RInv, CompletedKept, ClaimAtStep, RecordSound, RecordMatchesDisk,
     UserTrees, NoTree, Result, Partial, Baseline, MovementStates, Codes,
     ApplySteps, RecoverSteps, disk
<1> HIDE DEF IInv
<1>1. CASE ReceiveConflict
  <2>1. mem'.state = "ApplyingResult" /\ mem'.code = "retention_pending" /\ mem'.applied = mem.applied
    BY <1>1 DEF ReceiveConflict, WorkspaceMovementRecordV1
  <2>2. UNCHANGED <<src, retained>> /\ ~mem.applied /\ pc = "idle"
    BY Zenon, <1>1 DEF ReceiveConflict
  <2>3. (dur' = mem' /\ pc' = "retain") \/ (UNCHANGED dur /\ pc' = "idle")
    BY Zenon, <1>1 DEF ReceiveConflict, Persist
  <2> HIDE UpdateFields, CommitType, AbandonType, Reports
  <2>4. CASE dur' = mem' /\ pc' = "retain"
    BY Zenon, <2>1, <2>2, <2>4
  <2>5. CASE UNCHANGED dur /\ pc' = "idle"
    BY Zenon, <2>1, <2>2, <2>5
  <2>. QED
    BY Zenon, <2>3, <2>4, <2>5
<1>2. CASE ReceiveUnchanged
  BY <1>2 DEF ReceiveUnchanged, return_is_admitted, Goto
<1>3. CASE Retain
  BY <1>3 DEF Retain, Goto, Fault
<1>4. CASE finalize_conflict_recovery
  BY <1>4 DEF finalize_conflict_recovery, Persist, Fault
<1>5. CASE BeginApply
  BY <1>5 DEF WorkspaceMovementRecordV1, BeginApply, Persist, Fault
<1>6. CASE RefuseOccupiedPaths
  BY Zenon, <1>6 DEF RefuseOccupiedPaths, Goto
<1>7. CASE stage_exact_workspace_result
  BY <1>7 DEF stage_exact_workspace_result, Goto, IoError, Fault
<1>8. CASE JournalStaged
  <2>1. mem'.state = mem.state /\ mem'.code = mem.code /\ mem'.applied = mem.applied
    BY <1>8 DEF WorkspaceMovementRecordV1, JournalStaged, Journal, Goto, IoError
  <2>2. UNCHANGED <<src, retained>> /\ ~mem.applied /\ ~dur.applied
    BY Zenon, <1>8 DEF JournalStaged, Journal
  <2>3. (dur' = mem' /\ pc' = "check") \/ (UNCHANGED dur /\ pc' = "scan")
    BY Zenon, <1>8 DEF JournalStaged, Journal, Persist
  <2> HIDE UpdateFields, CommitType, AbandonType, Reports
  <2>4. pc # "down"
    BY Zenon, <1>8 DEF JournalStaged, Journal
  <2>5. CASE dur' = mem' /\ pc' = "check"
    BY Zenon, <2>1, <2>2, <2>4, <2>5
  <2>6. CASE UNCHANGED dur /\ pc' = "scan"
    BY Zenon, <2>1, <2>2, <2>4, <2>6
  <2>. QED
    BY Zenon, <2>3, <2>5, <2>6
<1>9. CASE CheckUnchanged
  BY <1>9 DEF CheckUnchanged, Goto, Fails, IoError, Fault
<1>10. CASE MoveOriginal
  BY <1>10 DEF MoveOriginal, CanMove, Goto, IoError, Fault
<1>11. CASE JournalMoved
  <2>1. mem'.state = mem.state /\ mem'.code = mem.code /\ mem'.applied = mem.applied
    BY <1>11 DEF WorkspaceMovementRecordV1, JournalMoved, Journal, Goto, IoError
  <2>2. UNCHANGED <<src, retained>> /\ ~mem.applied /\ ~dur.applied
    BY Zenon, <1>11 DEF JournalMoved, Journal
  <2>3. (dur' = mem' /\ pc' = "install") \/ (UNCHANGED dur /\ pc' = "scan")
    BY Zenon, <1>11 DEF JournalMoved, Journal, Persist
  <2> HIDE UpdateFields, CommitType, AbandonType, Reports
  <2>4. pc # "down"
    BY Zenon, <1>11 DEF JournalMoved, Journal
  <2>5. CASE dur' = mem' /\ pc' = "install"
    BY Zenon, <2>1, <2>2, <2>4, <2>5
  <2>6. CASE UNCHANGED dur /\ pc' = "scan"
    BY Zenon, <2>1, <2>2, <2>4, <2>6
  <2>. QED
    BY Zenon, <2>3, <2>5, <2>6
<1>12. CASE InstallResult
  BY <1>12 DEF InstallResult, CanMove, Goto, Fails, IoError, Fault
<1>13. CASE JournalInstalled
  <2>1. mem'.state = mem.state /\ mem'.code = mem.code /\ mem'.applied = mem.applied
    BY <1>13 DEF WorkspaceMovementRecordV1, JournalInstalled, Journal, Goto, IoError
  <2>. QED
    BY <1>13, <2>1 DEF JournalInstalled, Journal, Persist, Fault, Goto
<1>14. CASE CommitApply
  BY <1>14 DEF CommitApply, Persist, Fault
<1>15. CASE CleanupCheck
  BY <1>15 DEF CleanupCheck, Goto, Fails, IoError, Fault
<1>16. CASE RemoveBackup
  BY <1>16 DEF RemoveBackup, Goto, IoError, Fault
<1>17. CASE RemoveStage
  <2>1. mem'.state = mem.state /\ mem'.code = mem.code /\ mem'.applied = mem.applied
    BY <1>17 DEF WorkspaceMovementRecordV1, RemoveStage, IoError
  <2>. QED
    BY <1>17, <2>1 DEF RemoveStage, IoError, Fault
<1>18. CASE Finish
  BY <1>18 DEF Finish, Persist, Fault
<1>19. CASE RecognizeCommitted
  BY <1>19 DEF RecognizeCommitted, mark_workspace_apply_committed
<1>20. CASE PlanRecovery
  BY <1>20 DEF PlanRecovery, Goto, RecoveryPlan
<1>21. CASE RecoverMove
  BY <1>21 DEF RecoverMove, CanMove, Goto, IoError, Fault
<1>22. CASE RecoverInstall
  BY <1>22 DEF RecoverInstall, CanMove, Goto, Fails, IoError, Fault,
     mark_workspace_apply_committed
<1>23. CASE RecoverVerify
  BY <1>23 DEF RecoverVerify, Goto, mark_workspace_apply_committed
<1>24. CASE RecoverRestore
  BY <1>24 DEF RecoverRestore, CanMove, Fails, Goto, IoError, Fault
<1>25. CASE RecoverDiscardStage
  BY <1>25 DEF RecoverDiscardStage, IoError, Fault
<1>26. CASE RecoverFailed
  BY <1>26 DEF RecoverFailed, Goto, Persist, Fault, InterruptedApply
<1>27. CASE finish_pending_conflict_discard
  BY <1>27 DEF finish_pending_conflict_discard, Goto, IoError, Fault
<1>28. CASE RecordDiscarded
  BY <1>28 DEF WorkspaceMovementRecordV1, RecordDiscarded, IoError, Fault
<1>29. CASE discard_retained_conflict_result
  BY <1>29 DEF discard_retained_conflict_result, IoError, Fault
<1>30. CASE ResumeDiscard
  BY Zenon, <1>30 DEF ResumeDiscard, Goto
<1>31. CASE Crash
  BY <1>31 DEF Crash
<1>32. CASE Restart
  BY <1>32 DEF Restart, RestoredRecord
<1>33. CASE Reconcile
  BY <1>33 DEF Reconcile, Persist, Fault
<1>34. CASE Edit
  BY <1>34 DEF Edit
<1>35. CASE DamageStage
  BY Zenon, <1>35 DEF DamageStage, Fault
<1>36. CASE UNCHANGED vars
  BY <1>36 DEF vars
<1> QED
  BY Zenon, <1>1, <1>2, <1>3, <1>4, <1>5, <1>6, <1>7, <1>8, <1>9, <1>10, <1>11, <1>12,
     <1>13, <1>14, <1>15, <1>16, <1>17, <1>18, <1>19, <1>20, <1>21, <1>22,
     <1>23, <1>24, <1>25, <1>26, <1>27, <1>28, <1>29, <1>30, <1>31, <1>32,
     <1>33, <1>34, <1>35, <1>36 DEF Next, Process

(* The records' claims hold in every behaviour.                            *)
THEOREM ClaimsHold == Spec => []RInv
<1>1. Init => RInv
  BY DEF Init, RInv, ClaimAtStep, RecordSound, RecordMatchesDisk, NoTree, Result,
     Partial, Baseline, ApplySteps, RecoverSteps
<1> QED
  BY <1>1, ClaimStep, Inductive, PTL DEF Spec

(* An applied record stands over the result or a later edit of it, an      *)
(* offered conflict over a retained copy, a discarded one over none, for   *)
(* any number of crashes and failed writes between the two.                *)
THEOREM RecordIsTrue == Spec => []RecordMatchesDisk
<1>1. RInv => RecordMatchesDisk
  BY Zenon DEF RInv
<1> QED
  BY <1>1, ClaimsHold, PTL

(* A movement recorded as completed over its result is not reported        *)
(* otherwise by a retry, a recovery or a restart.                          *)
THEOREM CompletionStays == Spec => CompletedWhileInstalled
<1>1. IInv /\ RInv /\ [Next]_vars => [CompletedKept]_vars
  BY Zenon, ClaimStep
<1>2. Spec => [][CompletedKept]_vars
  BY <1>1, Inductive, ClaimsHold, PTL DEF Spec
<1> QED
  BY Zenon, <1>2 DEF CompletedWhileInstalled, CompletedKept
=============================================================================
