----------------------------- MODULE ReturnApply -----------------------------
(***************************************************************************)
(* The requester side of a workspace movement once the result Return has   *)
(* arrived: Pastey replaces the approved source folder by the returned     *)
(* tree through a journalled sequence of renames, or keeps the result      *)
(* aside when the user changed the folder in the meantime.                 *)
(*                                                                         *)
(* Three directories matter: the canonical folder `src`, and the two       *)
(* hidden siblings `stage` and `backup`.  A directory holds one tree.      *)
(* Trees 0, 1, 2, ... are the user's: 0 is the approved baseline and every *)
(* edit of the user at the canonical path makes the next one.              *)
(*                                                                         *)
(* `mem` is the movement record of the running process and `dur` the       *)
(* envelope in the database.  Every filesystem operation and every write   *)
(* of the envelope is a step of its own: the process can die, and the      *)
(* user can edit, between any two of them.                                 *)
(***************************************************************************)
EXTENDS Integers

CONSTANTS MaxEdits,    \* edits the user makes
          MaxCrashes,  \* times the process dies
          MaxFaults    \* filesystem or database operations that fail

ASSUME BoundsAssumption ==
    /\ MaxEdits \in Nat
    /\ MaxCrashes \in Nat
    /\ MaxFaults \in Nat

NoTree  == -1    \* no directory at this path
Result  == -2    \* exactly the returned tree
Partial == -3    \* an incomplete copy, or a directory half removed

UserTrees == 0 .. MaxEdits
Trees == UserTrees \union {NoTree, Result, Partial}
Baseline == 0

WorkspaceApplyPhaseV1 ==
    {"Staging", "Staged", "OriginalMoved", "ResultInstalled", "Committed"}

MovementStates ==
    {"ReturningResult", "ApplyingResult", "Completed",
     "ConflictRecoveryRequired", "Interrupted", "Cancelled"}

Codes ==
    {"none", "result_return_retry_required", "reconciliation_required",
     "retention_pending", "retention_required", "retention_failed",
     "result_apply_interrupted", "source_changed",
     "discard_pending", "discarded"}

RetentionCodes ==
    {"retention_pending", "retention_required", "retention_failed"}

(* `result` is record.result_identity: absent, the identity the journal    *)
(* holds, or that of another materialisation of the same content.          *)
WorkspaceMovementRecordV1 ==
    [state : MovementStates, code : Codes,
     txn : WorkspaceApplyPhaseV1 \union {"none"},
     applied : BOOLEAN, result : {"none", "journalled", "rematerialized"}]

ApplySteps ==
    {"begin", "stage", "journalStaged", "check", "moveOriginal",
     "journalMoved", "install", "journalInstalled", "commit"}
RecoverSteps ==
    {"scan", "recoverMove", "recoverReinstall", "recoverVerify",
     "recoverInstall", "recoverRestore", "recoverDiscardStage",
     "recoverFailed"}
CleanSteps == {"clean", "removeBackup", "removeStage", "finish"}
RetainSteps == {"retain", "finalize"}
DiscardSteps == {"discard", "discarded"}

Steps == {"idle", "down"} \union ApplySteps \union RecoverSteps
         \union CleanSteps \union RetainSteps \union DiscardSteps

Contexts == {"apply", "restart", "retry", "error"}

VARIABLES src, stage, backup,  \* the three directories
          retained,            \* the app-owned copy of a conflicted result and its row
          mem, dur,            \* movement record: in memory, in the envelope
          pc, ctx,             \* where the process is, and who called recovery
          user, kept,          \* last tree the user made; trees only the user may drop
          crashes, faults

disk == <<src, stage, backup>>
bounds == <<crashes, faults>>
vars == <<src, stage, backup, retained, mem, dur, pc, ctx, user, kept, crashes, faults>>

TypeOK ==
    /\ src \in Trees /\ stage \in Trees /\ backup \in Trees
    /\ retained \in {NoTree, Result}
    /\ mem \in WorkspaceMovementRecordV1 /\ dur \in WorkspaceMovementRecordV1
    /\ pc \in Steps /\ ctx \in Contexts
    /\ user \in UserTrees /\ kept \subseteq UserTrees
    /\ crashes \in 0 .. MaxCrashes /\ faults \in 0 .. MaxFaults

(* A Return is expected: the executor reported completion, or an           *)
(* authenticated reconciliation already named the exact result.            *)
Init ==
    /\ src = Baseline /\ stage = NoTree /\ backup = NoTree
    /\ retained = NoTree
    /\ \E code \in {"none", "result_return_retry_required"} :
          mem = [state |-> "ReturningResult", code |-> code, txn |-> "none",
                 applied |-> FALSE, result |-> "none"]
    /\ dur = mem
    /\ pc = "idle" /\ ctx = "apply"
    /\ user = Baseline /\ kept = {Baseline}
    /\ crashes = 0 /\ faults = 0

-----------------------------------------------------------------------------
(* Building blocks.                                                        *)

Fault == faults < MaxFaults /\ faults' = faults + 1

(* persist_envelope: the record reaches the envelope, or the write fails.  *)
Persist(ok, failed) ==
    \/ dur' = mem' /\ pc' = ok /\ UNCHANGED faults
    \/ Fault /\ pc' = failed /\ UNCHANGED dur

Goto(next) == pc' = next /\ UNCHANGED <<mem, dur, faults>>

IoError(next) == Fault /\ pc' = next /\ UNCHANGED <<mem, dur>>

(* An operation fails because the disk is not as it must be, or because of *)
(* an I/O error.                                                           *)
Fails(blocked, next) == (blocked /\ Goto(next)) \/ IoError(next)

(* fs::rename of a directory onto an existing one fails.                   *)
CanMove(from, to) == from # NoTree /\ to = NoTree

Status(r, state, code) == [r EXCEPT !.state = state, !.code = code]

InterruptedApply(r) == Status(r, "Interrupted", "result_apply_interrupted")

CommittedRecord(result) ==
    [state |-> "Completed", code |-> "none", txn |-> "Committed",
     applied |-> TRUE, result |-> result]

mark_workspace_apply_committed == CommittedRecord("journalled")

(* The journal is closed with nothing installed; the exact result stays    *)
(* retryable.                                                              *)
AbandonStaged ==
    [state |-> "Interrupted", code |-> "result_apply_interrupted", txn |-> "none",
     applied |-> FALSE, result |-> "journalled"]

-----------------------------------------------------------------------------
(* The Return arrives.                                                     *)

(* validate_workspace_transfer, Return phase: what a Return may still act  *)
(* on.  A Return already applied or already kept aside changes nothing.    *)
return_is_admitted(r) ==
    \/ r.state = "ReturningResult"
    \/ r.result # "none" /\ r.state \in {"ApplyingResult", "Interrupted"}
       /\ r.code \in RetentionCodes
    \/ /\ r.state = "Interrupted" /\ r.code = "result_apply_interrupted"
       /\ r.result = "journalled" \/ (r.result # "none" /\ r.txn = "none")

mutant_conflict_before_retention ==
    /\ pc = "idle" /\ return_is_admitted(mem) /\ ~mem.applied
    /\ src \notin {Baseline, NoTree}
    /\ mem' = [Status(mem, "ConflictRecoveryRequired", "source_changed") EXCEPT
                     !.result = "rematerialized"]
    /\ Persist("retain", "idle")
    /\ UNCHANGED <<disk, retained, ctx, user, kept, crashes>>

(* The source is no longer the approved baseline: the identity of the      *)
(* result is made durable before a copy of it is kept.                     *)
ReceiveConflict ==
    /\ pc = "idle" /\ return_is_admitted(mem) /\ ~mem.applied
    /\ src \notin {Baseline, NoTree}
    /\ mem' = [Status(mem, "ApplyingResult", "retention_pending") EXCEPT
                     !.result = "rematerialized"]
    /\ Persist("retain", "idle")
    /\ UNCHANGED <<disk, retained, ctx, user, kept, crashes>>

(* The source is unchanged: a journal left by an earlier attempt is        *)
(* settled first, then the exact apply begins.                             *)
ReceiveUnchanged ==
    /\ pc = "idle" /\ return_is_admitted(mem) /\ ~mem.applied
    /\ src = Baseline
    /\ IF mem.txn # "none" THEN Goto("scan") /\ ctx' = "retry"
                           ELSE Goto("begin") /\ ctx' = "apply"
    /\ UNCHANGED <<disk, retained, user, kept, crashes>>

(* retain_conflicted_workspace: the copy and its row, or neither.          *)
Retain ==
    /\ pc = "retain"
    /\ \/ retained' = Result /\ Goto("finalize")
       \/ Fault /\ mem' = Status(mem, "Interrupted", "retention_failed")
          /\ dur' = mem' /\ pc' = "idle" /\ UNCHANGED retained
    /\ UNCHANGED <<disk, ctx, user, kept, crashes>>

finalize_conflict_recovery ==
    /\ pc = "finalize"
    /\ mem' = Status(mem, "ConflictRecoveryRequired", "source_changed")
    /\ Persist("idle", "idle")
    /\ UNCHANGED <<disk, retained, ctx, user, kept, crashes>>

-----------------------------------------------------------------------------
(* apply_exact_workspace_result.                                           *)

mutant_intent_not_persisted ==
    /\ pc = "begin"
    /\ stage = NoTree /\ backup = NoTree
    /\ mem' = [state |-> "ApplyingResult", code |-> "none", txn |-> "Staging",
                applied |-> mem.applied, result |-> "journalled"]
    /\ pc' = "moveOriginal" /\ UNCHANGED <<dur, faults>>
    /\ UNCHANGED <<disk, retained, ctx, user, kept, crashes>>

BeginApply ==
    /\ pc = "begin"
    /\ stage = NoTree /\ backup = NoTree
    /\ mem' = [state |-> "ApplyingResult", code |-> "none", txn |-> "Staging",
                applied |-> mem.applied, result |-> "journalled"]
    /\ Persist("stage", "idle")
    /\ UNCHANGED <<disk, retained, ctx, user, kept, crashes>>

RefuseOccupiedPaths ==
    /\ pc = "begin"
    /\ ~(stage = NoTree /\ backup = NoTree)
    /\ Goto("idle")
    /\ UNCHANGED <<disk, retained, ctx, user, kept, crashes>>

stage_exact_workspace_result ==
    /\ pc = "stage"
    /\ \/ stage' = Result /\ Goto("journalStaged") /\ UNCHANGED ctx
       \/ stage' \in {NoTree, Partial} /\ IoError("scan") /\ ctx' = "error"
    /\ UNCHANGED <<src, backup, retained, user, kept, crashes>>

(* The three journal writes between filesystem steps.                      *)
Journal(at, phase, next) ==
    /\ pc = at
    /\ mem' = [mem EXCEPT !.txn = phase]
    /\ Persist(next, "scan")
    /\ ctx' = IF pc' = "scan" THEN "error" ELSE ctx
    /\ UNCHANGED <<disk, retained, user, kept, crashes>>

JournalStaged == Journal("journalStaged", "Staged", "check")
JournalMoved == Journal("journalMoved", "OriginalMoved", "install")

CheckUnchanged ==
    /\ pc = "check"
    /\ \/ src = Baseline /\ Goto("moveOriginal") /\ UNCHANGED ctx
       \/ Fails(src # Baseline, "scan") /\ ctx' = "error"
    /\ UNCHANGED <<disk, retained, user, kept, crashes>>

mutant_original_removed ==
    /\ pc = "moveOriginal"
    /\ src # NoTree /\ src' = NoTree /\ UNCHANGED backup
    /\ Goto("journalMoved") /\ UNCHANGED ctx
    /\ UNCHANGED <<stage, retained, user, kept, crashes>>

MoveOriginal ==
    /\ pc = "moveOriginal"
    /\ \/ /\ CanMove(src, backup)
          /\ backup' = src /\ src' = NoTree
          /\ Goto("journalMoved") /\ UNCHANGED ctx
       \/ IoError("scan") /\ ctx' = "error" /\ UNCHANGED <<src, backup>>
    /\ UNCHANGED <<stage, retained, user, kept, crashes>>

InstallResult ==
    /\ pc = "install"
    /\ \/ /\ CanMove(stage, src)
          /\ src' = stage /\ stage' = NoTree
          /\ Goto("journalInstalled") /\ UNCHANGED ctx
       \/ Fails(~CanMove(stage, src), "scan") /\ ctx' = "error" /\ UNCHANGED <<src, stage>>
    /\ UNCHANGED <<backup, retained, user, kept, crashes>>

(* The installed tree is read back before its journal entry is written.    *)
JournalInstalled ==
    \/ src = Result /\ Journal("journalInstalled", "ResultInstalled", "commit")
    \/ /\ pc = "journalInstalled" /\ src # Result
       /\ Goto("scan") /\ ctx' = "error"
       /\ UNCHANGED <<disk, retained, user, kept, crashes>>

CommitApply ==
    /\ pc = "commit"
    /\ mem' = CommittedRecord(mem.result)
    /\ Persist("clean", "scan")
    /\ ctx' = IF pc' = "scan" THEN "error" ELSE ctx
    /\ UNCHANGED <<disk, retained, user, kept, crashes>>

-----------------------------------------------------------------------------
(* finish_committed_apply_cleanup: both siblings are removed only while    *)
(* the canonical folder is the result and the backup the baseline.  Its    *)
(* failure is ignored by every caller and leaves the journal open.         *)

mutant_backup_not_compared ==
    /\ pc = "clean"
    /\ src = Result
    /\ Goto(IF backup = NoTree THEN "removeStage" ELSE "removeBackup")
    /\ UNCHANGED <<disk, retained, ctx, user, kept, crashes>>

CleanupCheck ==
    /\ pc = "clean"
    /\ \/ /\ src = Result /\ backup \in {Baseline, NoTree}
          /\ Goto(IF backup = NoTree THEN "removeStage" ELSE "removeBackup")
       \/ Fails(src # Result \/ backup \notin {Baseline, NoTree}, "finish")
    /\ UNCHANGED <<disk, retained, ctx, user, kept, crashes>>

RemoveBackup ==
    /\ pc = "removeBackup"
    /\ \/ backup' = NoTree /\ Goto("removeStage")
       \/ backup' \in {backup, Partial} /\ IoError("finish")
    /\ UNCHANGED <<src, stage, retained, ctx, user, kept, crashes>>

RemoveStage ==
    /\ pc = "removeStage"
    /\ \/ /\ stage' = NoTree
          /\ mem' = [mem EXCEPT !.txn = "none"]
          /\ pc' = "finish" /\ UNCHANGED <<dur, faults>>
       \/ stage' \in {stage, IF stage = NoTree THEN NoTree ELSE Partial}
          /\ IoError("finish")
    /\ UNCHANGED <<src, backup, retained, ctx, user, kept, crashes>>

(* What follows a finished apply or recovery: the record is written.  A    *)
(* retry that recovery did not complete goes on to a new attempt.          *)
Finish ==
    /\ pc = "finish"
    /\ UNCHANGED mem
    /\ Persist(IF ctx = "retry" /\ ~mem.applied THEN "begin" ELSE "idle",
               IF ctx = "restart" THEN "down" ELSE "idle")
    /\ UNCHANGED <<disk, retained, ctx, user, kept, crashes>>

-----------------------------------------------------------------------------
(* recover_workspace_apply_record: the three directories are read once,    *)
(* then acted on.                                                          *)

mutant_no_forward_recovery ==
    CASE src = Baseline /\ stage # Result /\ backup = NoTree -> "recoverDiscardStage"
      [] src = NoTree /\ stage # Result /\ backup = Baseline -> "recoverRestore"
      [] OTHER -> "recoverFailed"

RecoveryPlan ==
    CASE src = Baseline /\ stage = Result /\ backup = NoTree -> "recoverMove"
      [] src = NoTree /\ stage = Result /\ backup \in {Baseline, NoTree} -> "recoverInstall"
      [] src = NoTree /\ stage # Result /\ backup = Baseline -> "recoverRestore"
      [] src = Baseline /\ stage # Result /\ backup = NoTree -> "recoverDiscardStage"
      [] OTHER -> "recoverFailed"

RecognizeCommitted ==
    /\ pc = "scan" /\ src = Result
    /\ mem' = mark_workspace_apply_committed
    /\ pc' = "clean" /\ UNCHANGED <<dur, faults>>
    /\ UNCHANGED <<disk, retained, ctx, user, kept, crashes>>

mutant_committed_not_recognized ==
    /\ pc = "scan"
    /\ Goto(RecoveryPlan)
    /\ UNCHANGED <<disk, retained, ctx, user, kept, crashes>>

PlanRecovery ==
    /\ pc = "scan" /\ src # Result
    /\ Goto(RecoveryPlan)
    /\ UNCHANGED <<disk, retained, ctx, user, kept, crashes>>

RecoverMove ==
    /\ pc = "recoverMove"
    /\ \/ /\ CanMove(src, backup)
          /\ backup' = src /\ src' = NoTree /\ Goto("recoverReinstall")
       \/ IoError("recoverFailed") /\ UNCHANGED <<src, backup>>
    /\ UNCHANGED <<stage, retained, ctx, user, kept, crashes>>

(* Moving the staged result into place: read back after the original was   *)
(* moved by this recovery, taken as installed otherwise.                   *)
RecoverInstall ==
    /\ pc \in {"recoverReinstall", "recoverInstall"}
    /\ \/ /\ CanMove(stage, src)
          /\ src' = stage /\ stage' = NoTree
          /\ IF pc = "recoverReinstall"
             THEN Goto("recoverVerify")
             ELSE /\ mem' = mark_workspace_apply_committed
                  /\ pc' = "clean" /\ UNCHANGED <<dur, faults>>
       \/ Fails(~CanMove(stage, src), "recoverFailed") /\ UNCHANGED <<src, stage>>
    /\ UNCHANGED <<backup, retained, ctx, user, kept, crashes>>

RecoverVerify ==
    /\ pc = "recoverVerify"
    /\ IF src = Result
       THEN /\ mem' = mark_workspace_apply_committed
            /\ pc' = "clean" /\ UNCHANGED <<dur, faults>>
       ELSE Goto("recoverFailed")
    /\ UNCHANGED <<disk, retained, ctx, user, kept, crashes>>

mutant_restore_as_committed ==
    /\ pc = "recoverRestore"
    /\ CanMove(backup, src)
    /\ src' = backup /\ backup' = NoTree /\ stage' = NoTree
    /\ mem' = mark_workspace_apply_committed
    /\ pc' = "finish" /\ UNCHANGED <<dur, faults>>
    /\ UNCHANGED <<retained, ctx, user, kept, crashes>>

RecoverRestore ==
    /\ pc = "recoverRestore"
    /\ \/ /\ CanMove(backup, src)
          /\ src' = backup /\ backup' = NoTree
          /\ stage' \in {NoTree, stage}   \* removing the stage is best effort
          /\ mem' = AbandonStaged /\ pc' = "finish" /\ UNCHANGED <<dur, faults>>
       \/ Fails(~CanMove(backup, src), "recoverFailed") /\ UNCHANGED disk
    /\ UNCHANGED <<retained, ctx, user, kept, crashes>>

RecoverDiscardStage ==
    /\ pc = "recoverDiscardStage"
    /\ \/ /\ stage' = NoTree
          /\ mem' = AbandonStaged /\ pc' = "finish" /\ UNCHANGED <<dur, faults>>
       \/ stage' \in {stage, IF stage = NoTree THEN NoTree ELSE Partial}
          /\ IoError("recoverFailed")
    /\ UNCHANGED <<src, backup, retained, ctx, user, kept, crashes>>

(* A recovery that cannot prove a safe state reports it; one that a        *)
(* repeated Return asked for only returns its error.                       *)
RecoverFailed ==
    /\ pc = "recoverFailed"
    /\ IF ctx = "retry"
       THEN Goto("idle")
       ELSE /\ mem' = InterruptedApply(mem)
            /\ Persist("idle", IF ctx = "restart" THEN "down" ELSE "idle")
    /\ UNCHANGED <<disk, retained, ctx, user, kept, crashes>>

-----------------------------------------------------------------------------
(* Discarding a retained result: the marker is durable before anything is  *)
(* deleted.                                                                *)

discard_retained_conflict_result ==
    /\ pc = "idle"
    /\ mem.state = "ConflictRecoveryRequired" /\ retained = Result
    /\ \/ /\ mem' = Status(mem, "Cancelled", "discard_pending")
          /\ dur' = mem' /\ pc' = "discard" /\ UNCHANGED faults
       \/ IoError("idle")
    /\ UNCHANGED <<disk, retained, ctx, user, kept, crashes>>

(* The user may ask again when an earlier attempt did not finish.          *)
ResumeDiscard ==
    /\ pc = "idle"
    /\ mem.state = "Cancelled" /\ mem.code = "discard_pending"
    /\ Goto("discard")
    /\ UNCHANGED <<disk, retained, ctx, user, kept, crashes>>

finish_pending_conflict_discard ==
    /\ pc = "discard"
    /\ \/ retained' = NoTree /\ Goto("discarded")
       \/ retained' = retained /\ IoError("idle")
    /\ UNCHANGED <<disk, ctx, user, kept, crashes>>

RecordDiscarded ==
    /\ pc = "discarded"
    /\ \/ mem' = [mem EXCEPT !.code = "discarded"] /\ dur' = mem' /\ pc' = "idle"
          /\ UNCHANGED faults
       \/ IoError("idle")
    /\ UNCHANGED <<disk, retained, ctx, user, kept, crashes>>

-----------------------------------------------------------------------------
(* Crash and restart.                                                      *)

(* What a multi-file operation under way leaves behind.                    *)
Crash ==
    /\ pc # "down" /\ crashes < MaxCrashes
    /\ crashes' = crashes + 1
    /\ stage' \in CASE pc = "stage" -> {NoTree, Partial, Result}
                    [] pc \in {"removeStage", "recoverDiscardStage"} /\ stage # NoTree ->
                          {stage, Partial, NoTree}
                    [] OTHER -> {stage}
    /\ backup' \in IF pc = "removeBackup" THEN {backup, Partial, NoTree} ELSE {backup}
    /\ pc' = "down" /\ ctx' = "restart"
    /\ UNCHANGED <<src, retained, mem, dur, user, kept, faults>>

mutant_retention_not_restored(r) ==
    IF r.state = "ReturningResult" /\ r.code = "none"
    THEN Status(r, "Interrupted", "reconciliation_required")
    ELSE r

(* restore_durable_envelopes for a requester's record without a journal.   *)
RestoredRecord(r) ==
    CASE r.state = "ConflictRecoveryRequired" /\ retained = NoTree ->
            Status(r, "Interrupted", "retention_required")
      [] r.state = "ApplyingResult" /\ r.code = "retention_pending" /\ retained = Result ->
            Status(r, "ConflictRecoveryRequired", "source_changed")
      [] r.state = "ApplyingResult" /\ r.code = "retention_pending" /\ retained = NoTree ->
            Status(r, "Interrupted", "retention_required")
      [] r.state = "ReturningResult" /\ r.code = "none" ->
            Status(r, "Interrupted", "reconciliation_required")
      [] OTHER -> r

Restart ==
    /\ pc = "down"
    /\ IF dur.txn # "none"
       THEN mem' = dur /\ pc' = "scan" /\ UNCHANGED <<dur, faults>>
       ELSE /\ mem' = RestoredRecord(dur)
            /\ dur' = mem' /\ UNCHANGED faults
            /\ pc' = IF mem'.code = "discard_pending" THEN "discard" ELSE "idle"
    /\ ctx' = "restart"
    /\ UNCHANGED <<disk, retained, user, kept, crashes>>

(* record_remote_reconciliation: the executor names the result it still    *)
(* holds for an interrupted movement.                                      *)
Reconcile ==
    /\ pc = "idle"
    /\ mem.state = "Interrupted" /\ mem.code = "reconciliation_required"
    /\ mem' = Status(mem, "ReturningResult", "result_return_retry_required")
    /\ Persist("idle", "idle")
    /\ UNCHANGED <<disk, retained, ctx, user, kept, crashes>>

(* The user saves a file under the canonical path.  An edit on top of the  *)
(* user's own tree replaces it; one on top of the result, or where the     *)
(* folder is missing, does not.                                            *)
Edit ==
    /\ user < MaxEdits
    /\ user' = user + 1
    /\ src' = user'
    /\ kept' = (kept \ {src}) \union {user'}
    /\ UNCHANGED <<stage, backup, retained, mem, dur, pc, ctx, crashes, faults>>

(* Something else damages the staged copy, a hidden directory, while       *)
(* Pastey is not running.                                                  *)
DamageStage ==
    /\ pc = "down" /\ stage # NoTree /\ Fault
    /\ stage' \in {NoTree, Partial}
    /\ UNCHANGED <<src, backup, retained, mem, dur, pc, ctx, user, kept, crashes>>

Process ==
    \/ Retain \/ finalize_conflict_recovery
    \/ BeginApply \/ RefuseOccupiedPaths \/ stage_exact_workspace_result
    \/ JournalStaged \/ CheckUnchanged \/ MoveOriginal \/ JournalMoved
    \/ InstallResult \/ JournalInstalled \/ CommitApply
    \/ CleanupCheck \/ RemoveBackup \/ RemoveStage \/ Finish
    \/ RecognizeCommitted \/ PlanRecovery \/ RecoverMove \/ RecoverInstall
    \/ RecoverVerify \/ RecoverRestore \/ RecoverDiscardStage \/ RecoverFailed
    \/ finish_pending_conflict_discard \/ RecordDiscarded

Next ==
    \/ ReceiveConflict \/ ReceiveUnchanged
    \/ Process
    \/ discard_retained_conflict_result \/ ResumeDiscard
    \/ Crash \/ Restart \/ Reconcile \/ Edit \/ DamageStage

(* The process runs its steps to their end unless it dies, and Pastey is   *)
(* started again after it died.                                            *)
Spec == Init /\ [][Next]_vars
FairSpec == Spec /\ WF_vars(Process) /\ WF_vars(Restart)

-----------------------------------------------------------------------------
(* Properties.                                                             *)

(* Nothing the user wrote is lost: every edit the user did not replace     *)
(* themselves is at the canonical path or in the hidden backup, whatever   *)
(* the apply, its recovery, a crash or a conflict did around it.           *)
EditsKept == \A t \in kept \ {Baseline} : t \in {src, backup}

(* The journal covers the move: while the envelope holds no apply journal, *)
(* the folder is in place and no original sits in the hidden backup.       *)
JournalCoversMove == dur.txn = "none" => src # NoTree /\ backup = NoTree

(* The approved original is given up only by the user's own edit, or once  *)
(* the record says that the result was applied.                            *)
BaselineKept ==
    (Baseline \in {src, backup} /\ Baseline \notin {src', backup'})
        => (mem.applied \/ user' # user)
BaselineReleasedOnlyByApply == [][BaselineKept]_vars

(* The record tells the truth about the disk.  A record that says applied: *)
(* neither the original, a missing folder nor an incomplete copy is at the *)
(* canonical path.  A conflict offered to the user is backed by a retained *)
(* copy; a result reported discarded has none.                             *)
RecordMatchesDisk ==
    /\ mem.applied \/ dur.applied => src \notin {Baseline, NoTree, Partial}
    /\ dur.state = "ConflictRecoveryRequired" => retained = Result
    /\ dur.code = "discarded" => retained = NoTree

(* A movement recorded as completed is reported otherwise only after the   *)
(* user changed the folder.                                                *)
CompletedWhileInstalled ==
    [][ dur.state = "Completed" /\ src = Result => dur'.state = "Completed" ]_vars

(* The folder comes back: an original that was moved aside unchanged is    *)
(* followed by a folder at the canonical path, across crashes, unless a    *)
(* write or a rename fails and recovery waits for the next start.          *)
FolderComesBack ==
    src = NoTree /\ backup = Baseline ~> src # NoTree \/ faults > 0

(* No movement stays "applying" for ever, unless a write or a removal       *)
(* fails: then the record on disk waits for the next start of the Host.    *)
ApplyingEnds ==
    dur.state = "ApplyingResult" ~> dur.state # "ApplyingResult" \/ faults > 0

(* recover_workspace_apply_record keeps a committed journal "so startup    *)
(* can retry only this cleanup": a completed movement stays completed.     *)
CompletedIsFinal == [][ dur.state = "Completed" => dur'.state = "Completed" ]_vars
=============================================================================
