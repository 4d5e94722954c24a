------------------------ MODULE PlanAttemptTheorems ------------------------
(***************************************************************************)
(* Failures, faults and restarts keep the inductive invariant.  What        *)
(* follows: the safety invariants, what a step may never do, and that the   *)
(* protocol implements PlanLedger.                                          *)
(***************************************************************************)
EXTENDS PlanAttemptSteps, WellFoundedInduction

(* The interruption of a Host (Burn, restart, provider removed) ends its    *)
(* work in that way.                                                        *)
LEMMA InterruptStops ==
  ASSUME IInv, NEW h \in Bound, NEW S, S \subseteq MySteps(h), InterruptHost(h, S),
         work' \subseteq work, driving' \subseteq driving,
         UNCHANGED <<reviewed, review, commits, receipts, decided>>
  PROVE  HostStops(h)
<1>1. /\ recv' \in [Bound -> {"none"} \union Runnable \union Terminal]
      /\ \A g \in Bound \ {h} : recv'[g] = recv[g]
      /\ recv'[h] # recv[h] => recv[h] \in Runnable /\ recv'[h] \in Stopped
  BY Zenon DEF IInv, HostTyped, InterruptHost, EndIf, Terminal, Stopped
<1>2. /\ base' \in [Bound -> {"none", "accepted", "interrupted"}]
      /\ \A g \in Bound \ {h} : base'[g] = base[g]
      /\ base'[h] # base[h] => base[h] = "accepted" /\ base'[h] = "interrupted"
      /\ base'[h] # "accepted"
  BY Zenon DEF IInv, HostTyped, InterruptHost, EndIf
<1>3. /\ worker' \in [Bound -> {"none"} \union Active \union Stopped]
      /\ \A g \in Bound \ {h} : worker'[g] = worker[g]
      /\ worker'[h] # worker[h] => worker[h] \in Active /\ worker'[h] \in Stopped
  BY Zenon DEF IInv, HostTyped, InterruptHost, EndIf, Stopped
<1>4. /\ dispatch' \in [Steps -> {"none", "dispatching"} \union Terminal]
      /\ \A s \in Steps : dispatch'[s] # dispatch[s]
           => dispatch[s] = "dispatching" /\ dispatch'[s] = "interrupted" /\ Runner[s] = h
  BY Zenon DEF IInv, StepTyped, InterruptHost, EndDispatch, Terminal, Stopped, MySteps
<1>5. /\ claim' \in [Steps -> {"none", "claimed", "completed", "interrupted"}]
      /\ \A s \in Steps : claim'[s] # claim[s] => claim[s] = "claimed" /\ claim'[s] = "interrupted"
  BY Zenon DEF IInv, StepTyped, InterruptHost, EndClaims
<1>. QED
  BY Zenon, <1>1, <1>2, <1>3, <1>4, <1>5 DEF HostStops

(* The interruption of the requester's rows keeps them coherent.            *)
LEMMA RequesterInterrupted ==
  ASSUME IInv, NEW h, NEW b, InterruptRequester(h, b),
         UNCHANGED <<readiness, admission, decided, commits>>
  PROVE  /\ RequesterTyped' /\ StatusIsCoherent'
         /\ attempt' # attempt => attempt \in Live /\ attempt' = "interrupted"
<1>1. attempt' # attempt => attempt \in Live /\ attempt' = "interrupted"
  BY Zenon DEF InterruptRequester
<1>2. /\ steps' \in [Steps -> {"pending", "eligible"} \union Terminal]
      /\ \A s \in Steps : steps'[s] = "completed" <=> steps[s] = "completed"
  BY Zenon DEF IInv, RequesterTyped, InterruptRequester, Terminal, Stopped
<1>3. RequesterTyped'
  BY Zenon, <1>2 DEF IInv, RequesterTyped, InterruptRequester, Terminal, Stopped
<1>4. StatusIsCoherent'
  BY Zenon, <1>2 DEF IInv, State, Ledgers, StatusIsCoherent, InterruptRequester, Live
<1>. QED
  BY Zenon, <1>1, <1>3, <1>4

(* Its failure keeps the invariant.                                         *)
LEMMA ExternalFailsKeeps == ASSUME IInv, fail_receiver_external PROVE IInv'
<1>1. PICK s \in work :
        /\ UNCHANGED mishaps \/ Hit("step_fails")
        /\ work' = work \ {s} /\ dispatch' = EndDispatch({s}, "failed")
        /\ recv' = EndIf(recv, Runner[s], {"running"}, "failed")
        /\ ReportFailure(Runner[s], s, base[Runner[s]] = "accepted")
  BY Zenon DEF fail_receiver_external
<1>. DEFINE h == Runner[s]
<1>2. /\ s \in Steps /\ s \in 0..StepCount /\ h \in Bound
      /\ dispatch[s] \notin {"none", "completed"} /\ attempt # "none"
  BY Zenon, Working
<1>3. Counted'
  BY <1>1, HitCounted, FailureHeard, ReportCounted, Zenon DEF IInv, Counted, fail_receiver_external
<1>4. RequesterTyped'
  BY Zenon, RequesterFrame DEF IInv, fail_receiver_external
<1>5. /\ recv' \in [Bound -> {"none"} \union Runnable \union Terminal]
      /\ \A g \in Bound \ {h} : recv'[g] = recv[g]
      /\ recv'[h] # recv[h] => recv[h] \in Runnable /\ recv'[h] \in Stopped
  BY Zenon, <1>1, <1>2 DEF IInv, HostTyped, EndIf, Terminal, Stopped, Runnable
<1>6. /\ dispatch' \in [Steps -> {"none", "dispatching"} \union Terminal]
      /\ \A r \in Steps : dispatch'[r] # dispatch[r]
           => dispatch[r] = "dispatching" /\ dispatch'[r] = "failed" /\ Runner[r] = h
      /\ dispatch'[s] \in Stopped
  BY Zenon, <1>1, <1>2 DEF IInv, StepTyped, EndDispatch, Terminal, Stopped
<1>. HIDE DEF h
<1>7. HostStops(h)
  BY <1>1, <1>2, <1>5, <1>6, Zenon
     DEF IInv, HostTyped, StepTyped, HostStops, fail_receiver_external, reqVars, h
<1>8. StatusIsCoherent'
  BY Zenon DEF IInv, State, Ledgers, StatusIsCoherent, fail_receiver_external, reqVars
<1>9. HostTyped' /\ StepTyped' /\ State' /\ Grows
  <2>1. h \in Bound
    BY Zenon, <1>2 DEF h
  <2>. QED
    BY Zenon, <1>2, <1>7, <1>8, <2>1, Stops DEF fail_receiver_external, reqVars
<1>10. Flight'
  BY Zenon, <1>1, <1>2, <1>9, FailureReported DEF h
<1>. QED
  BY Zenon, <1>3, <1>4, <1>9, <1>10 DEF IInv

(* A worker attempt that fails takes its dispatch, base and receiver along.  *)
LEMMA FailWorkerKeeps ==
  ASSUME IInv, NEW s \in work, NEW st \in {"failed", "interrupted"},
         FailWorker(Runner[s], s, st), work' = work \ {s},
         UNCHANGED claim \/ claim' = EndClaims({s}), UNCHANGED mishaps \/ Hit("step_fails"),
         UNCHANGED <<planVars, reqVars, reviewed, review, commits, receipts, driving, fresh,
                     expired>>
  PROVE  IInv'
<1>. DEFINE h == Runner[s]
<1>1. s \in Steps /\ s \in 0..StepCount /\ h \in Bound /\ attempt # "none"
  BY Zenon, Working
<1>2. PICK b : ReportFailure(h, s, b)
  BY Zenon DEF FailWorker
<1>3. Counted'
  BY <1>2, HitCounted, FailureHeard, ReportCounted, Zenon DEF IInv, Counted
<1>4. RequesterTyped'
  BY Zenon, RequesterFrame DEF IInv
<1>5. /\ recv' \in [Bound -> {"none"} \union Runnable \union Terminal]
      /\ \A g \in Bound \ {h} : recv'[g] = recv[g]
      /\ recv'[h] # recv[h] => /\ recv[h] \in Runnable /\ recv'[h] \in Stopped
                               /\ worker[h] \in Active
  BY Zenon, <1>1 DEF IInv, HostTyped, FailWorker, EndIf, Terminal, Stopped
<1>6. /\ base' \in [Bound -> {"none", "accepted", "interrupted"}]
      /\ \A g \in Bound \ {h} : base'[g] = base[g]
      /\ base'[h] # base[h] => base[h] = "accepted" /\ base'[h] = "interrupted"
      /\ worker[h] \in Active => base'[h] # "accepted"
  BY Zenon, <1>1 DEF IInv, HostTyped, FailWorker, EndIf
<1>7. /\ worker' \in [Bound -> {"none"} \union Active \union Stopped]
      /\ \A g \in Bound \ {h} : worker'[g] = worker[g]
      /\ worker'[h] # worker[h] => worker[h] \in Active /\ worker'[h] \in Stopped
  BY Zenon, <1>1 DEF IInv, HostTyped, FailWorker, EndIf, Stopped
<1>8. /\ dispatch' \in [Steps -> {"none", "dispatching"} \union Terminal]
      /\ \A r \in Steps : dispatch'[r] # dispatch[r]
           => /\ dispatch[r] = "dispatching" /\ dispatch'[r] \in {"failed", "interrupted"}
              /\ Runner[r] = h
  BY Zenon, <1>1 DEF IInv, StepTyped, FailWorker, EndDispatch, Terminal, Stopped
<1>9. /\ claim' \in [Steps -> {"none", "claimed", "completed", "interrupted"}]
      /\ \A r \in Steps : claim'[r] # claim[r] => claim[r] = "claimed" /\ claim'[r] = "interrupted"
  BY Zenon DEF IInv, StepTyped, EndClaims
<1>. HIDE DEF h
<1>10. HostStops(h)
  BY Zenon, <1>5, <1>6, <1>7, <1>8, <1>9 DEF HostStops, reqVars
<1>11. StatusIsCoherent'
  BY Zenon DEF IInv, State, Ledgers, StatusIsCoherent, reqVars
<1>12. HostTyped' /\ StepTyped' /\ State' /\ Grows
  <2>1. h \in Bound
    BY Zenon, <1>1 DEF h
  <2>. QED
    BY Zenon, <1>1, <1>10, <1>11, <2>1, Stops DEF reqVars
<1>13. Flight'
  BY Zenon, <1>1, <1>2, <1>12, FailureReported DEF h
<1>. QED
  BY Zenon, <1>3, <1>4, <1>12, <1>13 DEF IInv

(* The completion of a managed step keeps the invariant.                    *)
LEMMA ManagedDoneKeeps == ASSUME IInv, complete_dispatch_after_core PROVE IInv'
<1>1. PICK s \in work :
        /\ Op[s] = "managed" /\ claim[s] = "completed" /\ work' = work \ {s}
        /\ \/ /\ dispatch[s] = "dispatching"
              /\ dispatch' = [dispatch EXCEPT ![s] = "completed"]
              /\ worker' = EndIf(worker, Runner[s], {"running"}, "waiting")
              /\ Report(Msg("result", Runner[s], s, "none")) /\ UNCHANGED <<base, recv>>
           \/ FailWorker(Runner[s], s, "interrupted")
  BY Zenon DEF complete_dispatch_after_core
<1>2. CASE FailWorker(Runner[s], s, "interrupted")
  BY Zenon, <1>1, <1>2, FailWorkerKeeps DEF complete_dispatch_after_core, envVars
<1>3. CASE ~FailWorker(Runner[s], s, "interrupted")
  <2>1. Runner[s] \in Bound
    BY Zenon, Working
  <2>2. /\ worker' \in [Bound -> {"none"} \union Active \union Stopped]
        /\ \A g \in Bound : worker'[g] = worker[g]
                             \/ (worker[g] \in Active /\ worker'[g] \in Active)
    BY Zenon, <1>1, <1>3, <2>1 DEF IInv, HostTyped, EndIf, Active
  <2>. QED
    BY Zenon, <1>1, <1>3, <2>2, Completed DEF complete_dispatch_after_core
<1>. QED
  BY Zenon, <1>2, <1>3

(* The failure of a worker keeps the invariant.                             *)
LEMMA WorkerFailsKeeps == ASSUME IInv, WorkerFails PROVE IInv'
<1>1. PICK s \in work :
        /\ work' = work \ {s} /\ claim' = EndClaims({s})
        /\ UNCHANGED mishaps \/ Hit("step_fails")
        /\ \/ \E st \in {"failed", "interrupted"} : FailWorker(Runner[s], s, st)
           \/ UNCHANGED <<worker, dispatch, base, recv, tasks, wire, unheard>>
  BY Zenon DEF WorkerFails
<1>2. CASE \E st \in {"failed", "interrupted"} : FailWorker(Runner[s], s, st)
  BY Zenon, <1>1, <1>2, FailWorkerKeeps DEF WorkerFails
<1>3. CASE UNCHANGED <<worker, dispatch, base, recv, tasks, wire, unheard>>
  <2>1. Runner[s] \in Bound /\ attempt # "none"
    BY Zenon, Working
  <2>2. /\ claim' \in [Steps -> {"none", "claimed", "completed", "interrupted"}]
        /\ \A r \in Steps : claim'[r] # claim[r]
             => claim[r] = "claimed" /\ claim'[r] = "interrupted"
    BY Zenon, <1>1 DEF IInv, StepTyped, EndClaims
  <2>3. HostStops(Runner[s])
    BY <1>1, <1>3, <2>2, Zenon DEF IInv, HostTyped, StepTyped, HostStops, WorkerFails, reqVars
  <2>4. StatusIsCoherent'
    BY Zenon DEF IInv, State, Ledgers, StatusIsCoherent, WorkerFails, reqVars
  <2>5. HostTyped' /\ StepTyped' /\ State' /\ Grows
    BY Zenon, <2>1, <2>3, <2>4, Stops DEF WorkerFails, reqVars
  <2>6. Counted' /\ RequesterTyped'
    BY Zenon, <1>1, <1>3, HitCounted, ReportCounted, RequesterFrame DEF IInv, Counted, WorkerFails
  <2>7. Flight'
    BY Zenon, <1>3, <2>5, Kept DEF IInv, Flight
  <2>. QED
    BY Zenon, <2>5, <2>6, <2>7 DEF IInv
<1>. QED
  BY Zenon, <1>1, <1>2, <1>3
-----------------------------------------------------------------------------
(* Faults.                                                                  *)

(* Breaking the sessions of a Host keeps their type.                        *)
LEMMA CutTyped == ASSUME Counted, NEW h \in Bound PROVE Cut(h) \in [Bound -> BOOLEAN]
  BY Zenon DEF Counted, Cut

(* Burn, restart and provider removal keep the counters typed.              *)
LEMMA FaultCounted ==
  ASSUME Counted, NEW f, Hit(f), NEW b, Unheard(b), fresh' \in [Bound -> BOOLEAN],
         UNCHANGED <<planVars, expired>>
  PROVE  Counted'
<1>1. mishaps' \in 0..MaxMishaps /\ unheard' \in BOOLEAN
  BY HitCounted, UnheardTyped DEF Counted
<1>. QED
  BY Zenon, <1>1 DEF Counted, planVars

(* The Burn of a room keeps the invariant.                                  *)
LEMMA PurgeKeeps == ASSUME IInv, NEW h \in Bound, purge_room(h) PROVE IInv'
<1>1. Counted'
  BY Zenon, CutTyped, FaultCounted DEF IInv, purge_room
<1>2. HostStops(h)
  BY Zenon, InterruptStops DEF purge_room
<1>3. /\ RequesterTyped' /\ StatusIsCoherent'
      /\ attempt' # attempt => attempt \in Live /\ attempt' = "interrupted"
  BY RequesterInterrupted, Zenon DEF purge_room
<1>4. HostTyped' /\ StepTyped' /\ State' /\ Grows
  BY Zenon, <1>2, <1>3, Stops DEF purge_room
<1>5. Flight'
  BY Zenon, <1>4, Kept DEF IInv, Flight, purge_room
<1>. QED
  BY Zenon, <1>1, <1>3, <1>4, <1>5 DEF IInv

(* A restart keeps the invariant.                                           *)
LEMMA RestartKeeps == ASSUME IInv, NEW h \in Bound, Restart(h) PROVE IInv'
<1>1. Counted'
  <2>1. fresh' \in [Bound -> BOOLEAN]
    BY Zenon, CutTyped DEF IInv, Counted, Restart
  <2>. QED
    BY Zenon, <2>1, FaultCounted DEF IInv, Restart
<1>2. PICK clean \in BOOLEAN :
        /\ InterruptRequester(h, clean)
        /\ InterruptHost(h, IF clean THEN MySteps(h) ELSE Managed(h))
  BY Zenon DEF Restart
<1>3. (IF clean THEN MySteps(h) ELSE Managed(h)) \subseteq MySteps(h)
  BY Zenon DEF MySteps, Managed
<1>4. HostStops(h)
  BY Zenon, <1>2, <1>3, InterruptStops DEF Restart
<1>5. /\ RequesterTyped' /\ StatusIsCoherent'
      /\ attempt' # attempt => attempt \in Live /\ attempt' = "interrupted"
  BY Zenon, <1>2, RequesterInterrupted DEF Restart
<1>6. HostTyped' /\ StepTyped' /\ State' /\ Grows
  BY Zenon, <1>4, <1>5, Stops DEF Restart
<1>7. tasks' \subseteq tasks /\ wire' \subseteq wire
  BY Zenon DEF Restart
<1>8. Flight'
  BY Zenon, <1>6, <1>7, Kept DEF IInv, Flight
<1>. QED
  BY Zenon, <1>1, <1>5, <1>6, <1>8 DEF IInv

(* The removal of the worker provider keeps the invariant.                  *)
LEMMA ProviderKeeps == ASSUME IInv, NEW h \in Bound, delete_worker_provider_config(h) PROVE IInv'
<1>1. PICK b : ReportFailure(h, 0, b)
  BY Zenon DEF delete_worker_provider_config
<1>2. Counted'
  BY <1>1, HitCounted, FailureHeard, ReportCounted, Zenon
     DEF IInv, Counted, delete_worker_provider_config
<1>3. RequesterTyped'
  BY Zenon, RequesterFrame DEF IInv, delete_worker_provider_config
<1>4. Managed(h) \subseteq MySteps(h)
  BY Zenon DEF MySteps, Managed
<1>5. HostStops(h)
  BY Zenon, <1>4, InterruptStops DEF delete_worker_provider_config, reqVars
<1>6. StatusIsCoherent' /\ attempt' = attempt /\ admission' = admission
  BY Zenon DEF IInv, State, Ledgers, StatusIsCoherent, delete_worker_provider_config, reqVars
<1>7. attempt # "none"
  BY Zenon DEF IInv, State, Promises, delete_worker_provider_config, Active
<1>8. HostTyped' /\ StepTyped' /\ State' /\ Grows
  BY Zenon, <1>5, <1>6, <1>7, Stops
<1>9. Flight'
  <2>1. 0 \in 0..StepCount
    BY PlanAssumption
  <2>. QED
    BY Zenon, <1>1, <1>8, <2>1, FailureReported
<1>. QED
  BY Zenon, <1>2, <1>3, <1>8, <1>9 DEF IInv

-----------------------------------------------------------------------------
(* The invariant holds in every state.                                      *)

(* The initial state satisfies the inductive invariant.                     *)
LEMMA InitIInv == Init => IInv
<1>. SUFFICES ASSUME Init PROVE IInv
  BY Zenon
<1>. USE DEF Init
<1>1. Counted /\ RequesterTyped
  <2>1. clock \in 0..MaxClock /\ approvedAt \in 0..MaxClock /\ mishaps \in 0..MaxMishaps
    BY PlanAssumption
  <2>2. fresh \in [Bound -> BOOLEAN] /\ {expired, unheard} \subseteq BOOLEAN
    BY Zenon
  <2>3. RequesterTyped
    BY Zenon DEF RequesterTyped
  <2>. QED
    BY Zenon, <2>1, <2>2, <2>3 DEF Counted
<1>2. HostTyped /\ StepTyped
  BY Zenon DEF HostTyped, StepTyped
<1>3. Flight
  BY Zenon DEF Flight
<1>4. Promises
  BY Zenon DEF Promises
<1>5. Ledgers
  <2>1. 1 \in Steps
    BY PlanAssumption DEF Steps
  <2>. QED
    BY Zenon, <2>1 DEF Ledgers, StatusIsCoherent
<1>6. Execution /\ Halted
  BY Zenon DEF Execution, CommittedMeansDone, Halted, Stopped
<1>. QED
  BY Zenon, <1>1, <1>2, <1>3, <1>4, <1>5, <1>6 DEF IInv, State

(* A stuttering step keeps it.                                              *)
LEMMA StutterKeeps == IInv /\ UNCHANGED vars => IInv'
<1>. SUFFICES ASSUME IInv, UNCHANGED vars PROVE IInv'
  BY Zenon
<1>1. Counted' /\ RequesterTyped' /\ HostTyped' /\ StepTyped'
  BY Zenon, CountedFrame, RequesterFrame, HostFrame, StepFrame DEF IInv, vars
<1>2. State' /\ Grows
  BY Zenon, Quiet DEF IInv, vars, hostVars
<1>3. Flight'
  BY Zenon, <1>2, Kept DEF IInv, Flight, vars
<1>. QED
  BY Zenon, <1>1, <1>2, <1>3 DEF IInv

(* Every step keeps the inductive invariant.                                *)
LEMMA NextIInv == Ordered /\ IInv /\ [Next]_vars => IInv'
<1>. SUFFICES ASSUME Ordered, IInv, [Next]_vars PROVE IInv'
  BY Zenon
<1>1. CASE User
  BY Zenon, <1>1, TickKeeps, ApproveKeeps, BeginKeeps, UserCancelKeeps DEF User
<1>2. CASE System
  BY Zenon, <1>2, ReviewKeeps, CheckKeeps, StartKeeps, CommitKeeps, StepCommitKeeps, CancelKeeps,
     RefusedKeeps, PrevalidateKeeps, ReadinessKeeps, PreparedKeeps, ResultKeeps, FailureKeeps,
     SpawnKeeps, DriveKeeps, LandingKeeps, ExternalDoneKeeps, ExternalFailsKeeps, ClaimKeeps,
     ManagedDoneKeeps, WorkerFailsKeeps DEF System
<1>3. CASE Environment
  BY Zenon, <1>3, ExpireKeeps, LostKeeps, PurgeKeeps, RestartKeeps, ProviderKeeps, SessionKeeps
     DEF Environment
<1>4. CASE UNCHANGED vars
  BY Zenon, <1>4, StutterKeeps
<1>. QED
  BY Zenon, <1>1, <1>2, <1>3, <1>4 DEF Next
-----------------------------------------------------------------------------

(* What the steps of the refinement look at: rows move forward only.        *)
Forward ==
  /\ \A h \in Bound : recv'[h] # recv[h] => recv[h] \in Runnable /\ recv'[h] # "none"
  /\ \A s \in Steps : dispatch'[s] # dispatch[s]
                        => dispatch[s] = "dispatching" /\ dispatch'[s] # "none"
  /\ \A s \in Steps : claim'[s] # claim[s] => claim[s] \in {"none", "claimed"}
  /\ decided' = decided /\ commits'[Requester] = commits[Requester]
(* A step that neither promises, decides, starts nor records.               *)
Ordinary == /\ Forward
            /\ attempt' # attempt => \/ attempt \in Live /\ attempt' \in Stopped
                                     \/ attempt = "checking_readiness" /\ attempt' = "preparing"

FinalStep ==
  /\ attempt \in Terminal => attempt' = attempt
  /\ \A h \in Bound : recv[h] \in Terminal => recv'[h] = recv[h]
  /\ \A s \in Steps : /\ dispatch[s] \in Terminal => dispatch'[s] = dispatch[s]
                      /\ claim[s] \in Terminal => claim'[s] = claim[s]
StartStep ==
  \A s \in Steps : dispatch[s] = "none" /\ dispatch'[s] # "none"
                     => recv[Runner[s]] = "running" /\ base[Runner[s]] = "accepted"
LedgerStep == [Ledger!Next]_(Ledger!vars)
Facts == FinalStep /\ StartStep /\ LedgerStep

(* Rows that only move forward leave terminal rows alone and start nothing. *)
LEMMA ForwardFinal ==
  ASSUME Forward, attempt \in Terminal => attempt' = attempt PROVE FinalStep /\ StartStep
<1>1. FinalStep
  BY Zenon DEF Forward, FinalStep, Terminal, Stopped, Runnable
<1>2. StartStep
  BY Zenon DEF Forward, StartStep
<1>. QED
  BY Zenon, <1>1, <1>2

(* Nor do they add a promise or a started step.                             *)
LEMMA ForwardRows ==
  ASSUME Forward
  PROVE  /\ {h \in Bound : recv'[h] # "none"} = {h \in Bound : recv[h] # "none"}
         /\ {s \in Steps : dispatch'[s] # "none"} = {s \in Steps : dispatch[s] # "none"}
<1>1. \A h \in Bound : recv'[h] # "none" <=> recv[h] # "none"
  BY Zenon DEF Forward, Runnable
<1>2. \A s \in Steps : dispatch'[s] # "none" <=> dispatch[s] # "none"
  BY Zenon DEF Forward
<1>. QED
  BY Zenon, <1>1, <1>2

(* An ordinary step is a Stop or a stutter of the ledger.                   *)
LEMMA OrdinaryFacts == ASSUME Ordinary PROVE Facts
<1>1. attempt \in Terminal => attempt' = attempt
  BY Zenon DEF Ordinary, Terminal, Stopped, Live
<1>2. FinalStep /\ StartStep
  BY Zenon, <1>1, ForwardFinal DEF Ordinary
<1>3. /\ {h \in Bound : recv'[h] # "none"} = {h \in Bound : recv[h] # "none"}
      /\ {s \in Steps : dispatch'[s] # "none"} = {s \in Steps : dispatch[s] # "none"}
      /\ decided' = decided /\ commits'[Requester] = commits[Requester]
  BY Zenon, ForwardRows DEF Ordinary, Forward
<1>4. CASE attempt \in Live /\ attempt' \in Stopped
  <2>1. Ledger!Stop
    BY Zenon, <1>3, <1>4 DEF Ledger!Stop, Live, Stopped
  <2>. QED
    BY Zenon, <1>2, <2>1 DEF Facts, LedgerStep, Ledger!Next
<1>5. CASE attempt' = attempt \/ (attempt = "checking_readiness" /\ attempt' = "preparing")
  <2>1. UNCHANGED Ledger!vars
    BY Zenon, <1>3, <1>5 DEF Ledger!vars, Stopped
  <2>. QED
    BY Zenon, <1>2, <2>1 DEF Facts, LedgerStep
<1>. QED
  BY Zenon, <1>4, <1>5 DEF Ordinary
-----------------------------------------------------------------------------
(* Ordinary steps.                                                          *)

(* A step that changes none of the rows is ordinary.                        *)
LEMMA StillOrdinary ==
  ASSUME UNCHANGED <<attempt, decided, recv, commits, dispatch, claim>> PROVE Ordinary
  BY Zenon DEF Ordinary, Forward

(* Such are the steps of the user, the reviews and checks, the landings,    *)
(* and the faults of delivery.                                              *)
LEMMA StillSteps ==
  ASSUME \/ UNCHANGED vars \/ Tick \/ approve \/ DeliverReview \/ DeliverCheck \/ DeliveryRefused
         \/ Prevalidate \/ register_transfer_landing \/ Expire \/ LoseMessage
         \/ \E h \in Bound : SessionReplaced(h)
  PROVE  Ordinary
<1>1. UNCHANGED <<attempt, decided, recv, commits, dispatch, claim>>
  BY Zenon DEF vars, Tick, approve, DeliverReview, DeliverCheck, DeliveryRefused, Prevalidate,
         register_transfer_landing, Expire, LoseMessage, SessionReplaced, reqVars, hostVars,
         stepVars
<1>. QED
  BY Zenon, <1>1, StillOrdinary

(* Steps of the requester that change nothing on a Host.                    *)
LEMMA RequesterOrdinary ==
  ASSUME UNCHANGED <<decided, recv, commits, dispatch, claim>>,
         attempt' # attempt => \/ attempt \in Live /\ attempt' \in Stopped
                               \/ attempt = "checking_readiness" /\ attempt' = "preparing"
  PROVE  Ordinary
  BY Zenon DEF Ordinary, Forward

(* The requester's steps that neither decide nor commit are ordinary.       *)
LEMMA RequesterSteps ==
  ASSUME \/ accept_requester_readiness \/ accept_requester_step_failure
         \/ spawn_native_v2_events \/ cancel_native_v2_product_attempt
  PROVE  Ordinary
<1>1. UNCHANGED <<decided, recv, commits, dispatch, claim>>
  BY Zenon DEF accept_requester_readiness, accept_requester_step_failure, spawn_native_v2_events,
         cancel_native_v2_product_attempt, hostVars, stepVars
<1>2. CASE accept_requester_readiness
  BY Zenon, <1>1, <1>2, RequesterOrdinary DEF accept_requester_readiness, AcceptsReadiness, Live, Stopped
<1>3. CASE accept_requester_step_failure
  BY Zenon, <1>1, <1>3, RequesterOrdinary
     DEF accept_requester_step_failure, terminate_requester_attempt, MayTerminate, Stopped
<1>4. CASE spawn_native_v2_events
  BY <1>1, <1>4, RequesterOrdinary, Zenon
     DEF spawn_native_v2_events, terminate_requester_attempt, MayTerminate, Stopped
<1>5. CASE cancel_native_v2_product_attempt
  BY Zenon, <1>1, <1>5, RequesterOrdinary
     DEF cancel_native_v2_product_attempt, terminate_requester_attempt, MayTerminate, Stopped
<1>. QED
  BY Zenon, <1>2, <1>3, <1>4, <1>5

(* A Host taking a commit, a step commit or a cancellation is ordinary:     *)
(* recv moves from runnable to running, completed or cancelled.             *)
LEMMA HostSteps ==
  ASSUME IInv, DeliverCommit \/ DeliverStepCommit \/ DeliverCancel
  PROVE  Ordinary
<1>1. CASE DeliverCommit
  <2>1. PICK t \in Ready("commit") :
          /\ Accepts(Head(t.items)) /\ recv' = [recv EXCEPT ![Head(t.items).host] = "running"]
    BY <1>1, Zenon DEF DeliverCommit
  <2>2. Head(t.items).host \in Bound /\ Head(t.items).kind = "commit"
    BY Zenon, Item DEF IInv
  <2>3. recv[Head(t.items).host] = "prepared"
    BY Zenon, <2>1, <2>2 DEF Accepts, accept_receiver_commit
  <2>4. \A g \in Bound : recv'[g] # recv[g] => recv[g] \in Runnable /\ recv'[g] # "none"
    BY Zenon, <2>1, <2>2, <2>3 DEF IInv, HostTyped, Runnable
  <2>. QED
    BY Zenon, <1>1, <2>4 DEF Ordinary, Forward, DeliverCommit, reqVars, stepVars
<1>2. CASE DeliverStepCommit
  <2>1. PICK t \in Ready("step") :
          LET h == Head(t.items).host  c == commits[h] \union {Head(t.items).step} IN
          /\ Accepts(Head(t.items)) /\ commits' = [commits EXCEPT ![h] = c]
          /\ recv' = IF AllDone(c) THEN [recv EXCEPT ![h] = "completed"] ELSE recv
    BY <1>2, Zenon DEF DeliverStepCommit
  <2>. DEFINE h == Head(t.items).host
  <2>2. /\ h \in Bound /\ Head(t.items).kind = "step"
        /\ Head(t.items).step \in commits[Requester]
    BY Zenon, Item DEF IInv, Fact
  <2>3. recv[h] = "running"
    BY Zenon, <2>1, <2>2 DEF Accepts, accept_receiver_step_commit, MayCommitStep
  <2>4. commits'[Requester] = commits[Requester]
    BY Zenon, <2>1, <2>2 DEF IInv, HostTyped
  <2>5. \A g \in Bound : recv'[g] # recv[g] => recv[g] \in Runnable /\ recv'[g] # "none"
    BY Zenon, <2>1, <2>2, <2>3 DEF IInv, HostTyped, Runnable
  <2>. QED
    BY <1>2, <2>4, <2>5, Zenon DEF Ordinary, Forward, DeliverStepCommit, reqVars, stepVars
<1>3. CASE DeliverCancel
  <2>1. PICK h, S, T :
          /\ recv' # recv => recv' = [recv EXCEPT ![h] = "cancelled"] /\ recv[h] \in Runnable
          /\ dispatch' = EndDispatch(S, "cancelled") /\ claim' \in {claim, EndClaims(T)}
    BY <1>3, Zenon DEF DeliverCancel, accept_receiver_cancel
  <2>2. \A g \in Bound : recv'[g] # recv[g] => recv[g] \in Runnable /\ recv'[g] # "none"
    BY Zenon, <2>1 DEF IInv, HostTyped
  <2>3. \A s \in Steps : /\ dispatch'[s] # dispatch[s]
                             => dispatch[s] = "dispatching" /\ dispatch'[s] # "none"
                         /\ claim'[s] # claim[s] => claim[s] \in {"none", "claimed"}
    BY Zenon, <2>1 DEF IInv, StepTyped, EndDispatch, EndClaims
  <2>. QED
    BY <1>3, <2>2, <2>3, Zenon DEF Ordinary, Forward, DeliverCancel, reqVars
<1>. QED
  BY Zenon, <1>1, <1>2, <1>3
(* A receiver, a dispatch or a claim that ends was not terminal before.     *)
LEMMA RecvEnds ==
  ASSUME IInv, NEW h \in Bound, NEW live, live \subseteq Runnable, NEW st \in Stopped,
         recv' = EndIf(recv, h, live, st)
  PROVE  \A g \in Bound : recv'[g] # recv[g] => recv[g] \in Runnable /\ recv'[g] # "none"
  BY Zenon DEF IInv, HostTyped, EndIf, Stopped

(* Ending dispatches moves only those under way.                            *)
LEMMA DispatchEnds ==
  ASSUME IInv, NEW S, NEW st \in Stopped, dispatch' = EndDispatch(S, st)
  PROVE  \A s \in Steps : dispatch'[s] # dispatch[s]
                             => dispatch[s] = "dispatching" /\ dispatch'[s] # "none"
  BY Zenon DEF IInv, StepTyped, EndDispatch, Stopped

(* Ending claims moves only those that are open.                            *)
LEMMA ClaimsEnd ==
  ASSUME IInv, NEW S, claim' = EndClaims(S)
  PROVE  \A s \in Steps : claim'[s] # claim[s] => claim[s] \in {"none", "claimed"}
  BY Zenon DEF IInv, StepTyped, EndClaims

(* The failure of a worker moves rows forward only.                         *)
LEMMA FailWorkerForward ==
  ASSUME IInv, NEW h \in Bound, NEW s, NEW st \in {"failed", "interrupted"}, FailWorker(h, s, st)
  PROVE  /\ \A g \in Bound : recv'[g] # recv[g] => recv[g] \in Runnable /\ recv'[g] # "none"
         /\ \A r \in Steps : dispatch'[r] # dispatch[r]
                                => dispatch[r] = "dispatching" /\ dispatch'[r] # "none"
<1>1. st \in Stopped
  BY Zenon DEF Stopped
<1>2. recv' = recv \/ recv' = EndIf(recv, h, Runnable, st)
  BY Zenon DEF FailWorker
<1>3. dispatch' = dispatch \/ dispatch' = EndDispatch({s}, st)
  BY Zenon DEF FailWorker
<1>. QED
  BY Zenon, <1>1, <1>2, <1>3, RecvEnds, DispatchEnds

(* The steps of running work, finished or failed, are ordinary.             *)
LEMMA RunningSteps ==
  ASSUME IInv, \/ complete_external_dispatch \/ fail_receiver_external \/ claim_v2_managed_step
               \/ finalize_v2 \/ complete_dispatch_after_core \/ WorkerFails
  PROVE  Ordinary
<1>1. CASE complete_external_dispatch
  <2>1. \A s \in Steps : dispatch'[s] # dispatch[s]
                            => dispatch[s] = "dispatching" /\ dispatch'[s] # "none"
    BY Zenon, <1>1 DEF complete_external_dispatch, IInv, StepTyped
  <2>. QED
    BY Zenon, <1>1, <2>1 DEF complete_external_dispatch, Ordinary, Forward, reqVars, hostVars
<1>2. CASE fail_receiver_external
  <2>1. PICK s \in work : /\ dispatch' = EndDispatch({s}, "failed")
                          /\ recv' = EndIf(recv, Runner[s], {"running"}, "failed")
    BY Zenon, <1>2 DEF fail_receiver_external
  <2>2. Runner[s] \in Bound /\ {"running"} \subseteq Runnable /\ "failed" \in Stopped
    BY Zenon, Working DEF Runnable, Stopped
  <2>3. \A g \in Bound : recv'[g] # recv[g] => recv[g] \in Runnable /\ recv'[g] # "none"
    BY Zenon, <2>1, <2>2, RecvEnds
  <2>4. \A r \in Steps : dispatch'[r] # dispatch[r]
                            => dispatch[r] = "dispatching" /\ dispatch'[r] # "none"
    BY Zenon, <2>1, <2>2, DispatchEnds
  <2>. QED
    BY Zenon, <1>2, <2>3, <2>4 DEF fail_receiver_external, Ordinary, Forward, reqVars
<1>3. CASE claim_v2_managed_step \/ finalize_v2
  <2>1. \A s \in Steps : claim'[s] # claim[s] => claim[s] \in {"none", "claimed"}
    BY Zenon, <1>3 DEF claim_v2_managed_step, finalize_v2, CanFinalize, IInv, StepTyped
  <2>. QED
    BY Zenon, <1>3, <2>1 DEF claim_v2_managed_step, finalize_v2, Ordinary, Forward, reqVars, hostVars
<1>4. CASE complete_dispatch_after_core
  <2>1. PICK s \in work :
          \/ /\ dispatch[s] = "dispatching" /\ UNCHANGED recv
             /\ dispatch' = [dispatch EXCEPT ![s] = "completed"]
          \/ FailWorker(Runner[s], s, "interrupted")
    BY Zenon, <1>4 DEF complete_dispatch_after_core
  <2>2. Runner[s] \in Bound
    BY Zenon, Working
  <2>3. \A g \in Bound : recv'[g] # recv[g] => recv[g] \in Runnable /\ recv'[g] # "none"
    BY Zenon, <2>1, <2>2, FailWorkerForward
  <2>4. \A r \in Steps : dispatch'[r] # dispatch[r]
                            => dispatch[r] = "dispatching" /\ dispatch'[r] # "none"
    BY Zenon, <2>1, <2>2, FailWorkerForward DEF IInv, StepTyped
  <2>. QED
    BY Zenon, <1>4, <2>3, <2>4 DEF complete_dispatch_after_core, Ordinary, Forward, reqVars
<1>5. CASE WorkerFails
  <2>1. PICK s \in work :
          /\ claim' = EndClaims({s})
          /\ \/ \E st \in {"failed", "interrupted"} : FailWorker(Runner[s], s, st)
             \/ UNCHANGED <<dispatch, recv>>
    BY Zenon, <1>5 DEF WorkerFails
  <2>2. Runner[s] \in Bound
    BY Zenon, Working
  <2>3. /\ \A g \in Bound : recv'[g] # recv[g] => recv[g] \in Runnable /\ recv'[g] # "none"
        /\ \A r \in Steps : dispatch'[r] # dispatch[r]
                               => dispatch[r] = "dispatching" /\ dispatch'[r] # "none"
    BY Zenon, <2>1, <2>2, FailWorkerForward
  <2>4. \A r \in Steps : claim'[r] # claim[r] => claim[r] \in {"none", "claimed"}
    BY Zenon, <2>1, ClaimsEnd
  <2>. QED
    BY Zenon, <1>5, <2>3, <2>4 DEF WorkerFails, Ordinary, Forward, reqVars
<1>. QED
  BY Zenon, <1>1, <1>2, <1>3, <1>4, <1>5

(* Burn, restart and provider removal are ordinary.                         *)
LEMMA FaultSteps ==
  ASSUME IInv, NEW h \in Bound,
         purge_room(h) \/ Restart(h) \/ delete_worker_provider_config(h)
  PROVE  Ordinary
<1>1. PICK S : InterruptHost(h, S)
  BY Zenon DEF purge_room, Restart, delete_worker_provider_config
<1>2. \A g \in Bound : recv'[g] # recv[g] => recv[g] \in Runnable /\ recv'[g] # "none"
  BY Zenon, <1>1, RecvEnds DEF InterruptHost, Stopped
<1>3. /\ \A r \in Steps : dispatch'[r] # dispatch[r]
                             => dispatch[r] = "dispatching" /\ dispatch'[r] # "none"
      /\ \A r \in Steps : claim'[r] # claim[r] => claim[r] \in {"none", "claimed"}
  BY Zenon, <1>1, DispatchEnds, ClaimsEnd DEF InterruptHost, Stopped
<1>4. /\ decided' = decided /\ commits' = commits
      /\ attempt' # attempt => attempt \in Live /\ attempt' \in Stopped
  BY Zenon DEF purge_room, Restart, delete_worker_provider_config, InterruptRequester, reqVars, Stopped
<1>. QED
  BY Zenon, <1>2, <1>3, <1>4 DEF Ordinary, Forward
-----------------------------------------------------------------------------
(* The steps the ledger knows.                                              *)

(* The start of an attempt is the ledger's Begin.                           *)
LEMMA BeginFacts == ASSUME prepare_requester_attempt PROVE Facts
<1>1. Forward /\ attempt = "none" /\ attempt' = "checking_readiness"
  BY Zenon DEF prepare_requester_attempt, Forward, hostVars, stepVars
<1>2. FinalStep /\ StartStep
  BY Zenon, <1>1, ForwardFinal DEF Terminal, Stopped
<1>3. Ledger!Begin
  BY Zenon, <1>1, ForwardRows DEF Forward, Ledger!Begin, Stopped
<1>. QED
  BY Zenon, <1>2, <1>3 DEF Facts, LedgerStep, Ledger!Next

(* A Host accepting the start (accept_attempt_start) is the ledger's        *)
(* Promise.                                                                 *)
LEMMA PromiseFacts == ASSUME IInv, DeliverStart PROVE Facts
<1>1. PICK t \in Ready("start") :
        /\ Accepts(Head(t.items)) /\ recv' = [recv EXCEPT ![Head(t.items).host] = "prepared"]
  BY Zenon DEF DeliverStart
<1>. DEFINE h == Head(t.items).host
<1>2. t \in tasks /\ h \in Bound /\ Head(t.items).kind = "start"
  BY Zenon, Item DEF IInv
<1>3. recv[h] = "none" /\ attempt # "none"
  BY Zenon, <1>1, <1>2 DEF IInv, State, Promises, Accepts, accept_attempt_start
<1>. HIDE DEF h
<1>4. h \in Bound /\ recv'[h] = "prepared" /\ \A g \in Bound \ {h} : recv'[g] = recv[g]
  BY Zenon, <1>1, <1>2 DEF IInv, HostTyped, h
<1>5. UNCHANGED <<attempt, decided, commits, dispatch, claim>>
  BY Zenon DEF DeliverStart, reqVars, stepVars
<1>6. FinalStep /\ StartStep
  BY Zenon, <1>3, <1>4, <1>5 DEF FinalStep, StartStep, Terminal, Stopped
<1>7. {g \in Bound : recv'[g] # "none"} = {g \in Bound : recv[g] # "none"} \union {h}
  BY Zenon, <1>4
<1>8. Ledger!Promise(h)
  BY Zenon, <1>3, <1>5, <1>7 DEF Ledger!Promise, RequesterTyped, IInv, Live, Terminal
<1>. QED
  BY Zenon, <1>4, <1>6, <1>8 DEF Facts, LedgerStep, Ledger!Next

(* The last prepared answer (accept_requester_prepared) is the ledger's     *)
(* Decide.                                                                  *)
LEMMA DecideFacts == ASSUME IInv, accept_requester_prepared PROVE Facts
<1>1. PICK e \in Inbox("prepared") :
        \/ UNCHANGED <<attempt, decided>>
        \/ /\ attempt = "preparing" /\ LastPrepared(e[2].host)
           /\ attempt' = "running" /\ decided' = TRUE
  BY Zenon DEF accept_requester_prepared, AcceptsPrepared
<1>2. e[2].host \in Bound /\ recv[e[2].host] # "none"
  BY Zenon, Event DEF IInv, Fact
<1>3. UNCHANGED <<recv, commits, dispatch, claim>>
  BY Zenon DEF accept_requester_prepared, hostVars, stepVars
<1>4. CASE UNCHANGED <<attempt, decided>>
  BY Zenon, <1>3, <1>4, StillOrdinary, OrdinaryFacts
<1>5. CASE ~UNCHANGED <<attempt, decided>>
  <2>1. FinalStep /\ StartStep
    BY Zenon, <1>1, <1>3, <1>5 DEF FinalStep, StartStep, Terminal, Stopped
  <2>2. {g \in Bound : recv[g] # "none"} = Bound
    BY Zenon, <1>1, <1>2, <1>5 DEF IInv, State, Promises, LastPrepared
  <2>3. Ledger!Decide
    BY Zenon, <1>1, <1>3, <1>5, <2>2 DEF Ledger!Decide, Stopped
  <2>. QED
    BY Zenon, <2>1, <2>3 DEF Facts, LedgerStep, Ledger!Next
<1>. QED
  BY Zenon, <1>4, <1>5

(* An accepted result (accept_requester_step_result) is the ledger's        *)
(* Record.                                                                  *)
LEMMA RecordFacts == ASSUME IInv, accept_requester_step_result PROVE Facts
<1>1. PICK e \in Inbox("result") :
        \/ UNCHANGED <<commits, attempt>>
        \/ LET s == e[2].step
               done == [steps EXCEPT ![s] = "completed"]
               complete == \A r \in Steps : done[r] = "completed" IN
           /\ AcceptsResult(e[2])
           /\ commits' = [commits EXCEPT ![Requester] = @ \union {s}]
           /\ attempt' = IF complete THEN "completed" ELSE attempt
  BY Zenon DEF accept_requester_step_result
<1>. DEFINE s == e[2].step
<1>2. s \in Steps /\ dispatch[s] = "completed"
  BY Zenon, Event DEF IInv, Fact, Done
<1>3. UNCHANGED <<recv, decided, dispatch, claim>>
  BY Zenon DEF accept_requester_step_result, stepVars
<1>4. CASE UNCHANGED <<commits, attempt>>
  BY Zenon, <1>3, <1>4, StillOrdinary, OrdinaryFacts
<1>5. CASE ~UNCHANGED <<commits, attempt>>
  <2>1. attempt = "running" /\ s \notin commits[Requester]
    BY Zenon, <1>1, <1>5 DEF AcceptsResult
  <2>2. commits'[Requester] = commits[Requester] \union {s}
    BY Zenon, <1>1, <1>5 DEF IInv, HostTyped
  <2>3. (\A r \in Steps : [steps EXCEPT ![s] = "completed"][r] = "completed")
          <=> commits'[Requester] = Steps
    <3>1. /\ \A r \in Steps : steps[r] = "completed" <=> r \in commits[Requester]
          /\ steps \in [Steps -> {"pending", "eligible"} \union Terminal]
          /\ commits[Requester] \subseteq Steps
      BY Zenon DEF IInv, State, Ledgers, StatusIsCoherent, RequesterTyped, HostTyped
    <3>2. \A r \in Steps : [steps EXCEPT ![s] = "completed"][r] = "completed"
                              <=> r \in commits[Requester] \union {s}
      BY Zenon, <1>2, <3>1
    <3>. QED
      BY <1>2, <2>2, <3>1, <3>2
  <2>. HIDE DEF s
  <2>4. attempt' = IF commits'[Requester] = Steps THEN "completed" ELSE "running"
    BY Zenon, <1>1, <1>5, <2>1, <2>3 DEF s
  <2>5. FinalStep /\ StartStep
    BY Zenon, <1>3, <2>1 DEF FinalStep, StartStep, Terminal, Stopped
  <2>6. Ledger!Record(s)
    BY Zenon, <1>2, <1>3, <2>1, <2>2, <2>4 DEF Ledger!Record, Stopped
  <2>. QED
    BY Zenon, <1>2, <2>5, <2>6 DEF Facts, LedgerStep, Ledger!Next, s
<1>. QED
  BY Zenon, <1>4, <1>5

(* A dispatch (drive_receiver_attempt) is the ledger's Start.               *)
LEMMA StartFacts == ASSUME IInv, Ordered, drive_receiver_attempt PROVE Facts
<1>1. PICK h \in driving :
        \/ UNCHANGED dispatch
        \/ /\ CanDrive(h)
           /\ dispatch' = [dispatch EXCEPT ![FirstEligible(h)] = "dispatching"]
  BY Zenon DEF drive_receiver_attempt
<1>2. UNCHANGED <<attempt, decided, recv, commits, claim>>
  BY Zenon DEF drive_receiver_attempt, reqVars
<1>3. CASE UNCHANGED dispatch
  BY Zenon, <1>2, <1>3, StillOrdinary, OrdinaryFacts
<1>4. CASE ~UNCHANGED dispatch
  <2>0. PICK s \in Steps : s = FirstEligible(h)
    BY Zenon, <1>1, <1>4, DriveStarts
  <2>1. /\ h \in Bound /\ s \in Steps /\ Runner[s] = h /\ dispatch[s] = "none"
        /\ recv[h] = "running" /\ base[h] = "accepted" /\ decided
        /\ 1..(s - 1) \subseteq commits[h]
    BY Zenon, <1>1, <1>4, <2>0, DriveStarts
  <2>2. dispatch'[s] = "dispatching" /\ \A r \in Steps \ {s} : dispatch'[r] = dispatch[r]
    BY Zenon, <1>1, <1>4, <2>0, <2>1 DEF IInv, StepTyped
  <2>3. FinalStep /\ StartStep
    BY Zenon, <1>2, <2>1, <2>2 DEF FinalStep, StartStep, Terminal, Stopped
  <2>4. Deps[s] \subseteq commits[Requester]
    BY Zenon, <2>1, PlanAssumption DEF IInv, State, Ledgers
  <2>5. {r \in Steps : dispatch'[r] # "none"} = {r \in Steps : dispatch[r] # "none"} \union {s}
    BY Zenon, <2>1, <2>2
  <2>6. Ledger!Start(s)
    BY Zenon, <1>2, <2>1, <2>4, <2>5 DEF Ledger!Start
  <2>. QED
    BY Zenon, <2>3, <2>6 DEF Facts, LedgerStep, Ledger!Next
<1>. QED
  BY Zenon, <1>3, <1>4

(* Every step keeps terminal rows, starts steps on running Hosts only and   *)
(* is a step of the ledger.                                                 *)
LEMMA NextFacts == Ordered /\ IInv /\ [Next]_vars => Facts
<1>. SUFFICES ASSUME Ordered, IInv, [Next]_vars PROVE Facts
  BY Zenon
<1>1. CASE Tick \/ approve \/ UNCHANGED vars
  BY Zenon, <1>1, StillSteps, OrdinaryFacts
<1>2. CASE prepare_requester_attempt
  BY Zenon, <1>2, BeginFacts
<1>3. CASE cancel_native_v2_product_attempt
  BY Zenon, <1>3, RequesterSteps, OrdinaryFacts
<1>4. CASE System
  <2>1. CASE \/ DeliverReview \/ DeliverCheck \/ DeliveryRefused \/ Prevalidate
             \/ register_transfer_landing
    BY Zenon, <2>1, StillSteps, OrdinaryFacts
  <2>2. CASE \/ accept_requester_readiness \/ accept_requester_step_failure
             \/ spawn_native_v2_events
    BY Zenon, <2>2, RequesterSteps, OrdinaryFacts
  <2>3. CASE DeliverCommit \/ DeliverStepCommit \/ DeliverCancel
    BY Zenon, <2>3, HostSteps, OrdinaryFacts
  <2>4. CASE \/ complete_external_dispatch \/ fail_receiver_external \/ claim_v2_managed_step
             \/ finalize_v2 \/ complete_dispatch_after_core \/ WorkerFails
    BY Zenon, <2>4, RunningSteps, OrdinaryFacts
  <2>. QED
    BY <1>4, <2>1, <2>2, <2>3, <2>4, PromiseFacts, DecideFacts, RecordFacts, StartFacts, Zenon
       DEF System
<1>5. CASE Environment
  <2>1. CASE Expire \/ LoseMessage \/ \E h \in Bound : SessionReplaced(h)
    BY Zenon, <2>1, StillSteps, OrdinaryFacts
  <2>. QED
    BY Zenon, <1>5, <2>1, FaultSteps, OrdinaryFacts DEF Environment
<1>. QED
  BY Zenon, <1>1, <1>2, <1>3, <1>4, <1>5 DEF Next, User

-----------------------------------------------------------------------------
(* A non-empty set of steps has a first one.                                *)
LEMMA StepsOrdered == Ordered
<1>. SUFFICES ASSUME NEW T \in SUBSET Steps, T # {}
              PROVE  \E s \in T : \A r \in T : s <= r
  BY Zenon DEF Ordered
<1>1. Steps \subseteq Nat
  BY PlanAssumption DEF Steps
<1>2. \E x \in T : \A y \in T : ~(<<y, x>> \in OpToRel(<, Nat))
  BY <1>1, NatLessThanWellFounded, WFMin, Zenon
<1>3. PICK x \in T : \A y \in T : ~(<<y, x>> \in OpToRel(<, Nat))
  BY <1>2, Zenon
<1>4. \A y \in T : ~(y < x)
  BY <1>1, <1>3, Zenon DEF OpToRel
<1>5. \A y \in T : x \in Nat /\ y \in Nat
  BY <1>1, <1>3, Zenon
<1>6. \A y \in T : x <= y
  BY <1>4, <1>5
<1>. QED
  BY <1>3, <1>6, Zenon

(* The inductive invariant holds in every reachable state.                  *)
THEOREM Invariant == Spec => []IInv
<1>1. IInv /\ [Next]_vars => IInv'
  BY Zenon, NextIInv, StepsOrdered
<1>. QED
  BY <1>1, InitIInv, PTL DEF Spec

(* Every variable keeps its type, for any Plan and any number of faults.    *)
THEOREM TypeCorrect == Spec => []TypeOK
  BY Invariant, Typed, PTL

(* No Host's ledger runs ahead of the requester's, ledgers are closed under *)
(* dependencies, and a finished Host belongs to a finished attempt          *)
(* (accept_receiver_step_commit).                                           *)
THEOREM Agreement == Spec => []LedgersAgree
<1>1. IInv => LedgersAgree
  BY Zenon DEF IInv, State, Ledgers, LedgersAgree, StatusIsCoherent
<1>. QED
  BY <1>1, Invariant, PTL

(* What the requester committed was really done: dispatched once, completed *)
(* by the Core, received by the destination (accept_requester_step_result). *)
THEOREM CommitsAreReal == Spec => []CommittedMeansDone
<1>1. IInv => CommittedMeansDone
  BY Zenon DEF IInv, State, Execution
<1>. QED
  BY <1>1, Invariant, PTL

(* The revision shows the state of its attempt, and the attempt is complete *)
(* exactly when its steps are (terminate_requester_attempt and the rest).   *)
THEOREM Coherence == Spec => []StatusIsCoherent
<1>1. IInv => StatusIsCoherent
  BY Zenon DEF IInv, State, Ledgers
<1>. QED
  BY <1>1, Invariant, PTL

(* A cancellation leaves a step the Core has completed alone                *)
(* (cancel_worker_attempt).                                                 *)
THEOREM CoreSurvives == Spec => []CoreCompletionSurvivesCancel
<1>1. IInv => CoreCompletionSurvivesCancel
  BY Zenon DEF IInv, State, Execution, CoreCompletionSurvivesCancel
<1>. QED
  BY <1>1, Invariant, PTL

(* Terminal rows of the requester, the receivers, the dispatches and the     *)
(* claims never change again, whatever late event or restart follows.       *)
THEOREM TerminalStays == Spec => TerminalIsFinal
<1>1. IInv /\ [Next]_vars => FinalStep
  BY Zenon, NextFacts, StepsOrdered DEF Facts
<1>. QED
  BY <1>1, Invariant, PTL DEF Spec, TerminalIsFinal, FinalStep

(* A step starts only while the receiver attempt of its Host is running     *)
(* (drive_receiver_attempt).                                                *)
THEOREM StartsWhileRunning == Spec => StartsOnlyWhileRunning
<1>1. IInv /\ [Next]_vars => StartStep
  BY Zenon, NextFacts, StepsOrdered DEF Facts
<1>. QED
  BY <1>1, Invariant, PTL DEF Spec, StartsOnlyWhileRunning, StartStep

(* The initial states map to the ledger's initial state.                    *)
LEMMA LedgerInit == Init => Ledger!Init
  BY PlanAssumption DEF Init, Ledger!Init

(* The protocol, with its messages, tasks, faults and restarts, implements  *)
(* the ledger that PlanLedger describes.                                    *)
THEOREM Refinement == Spec => ImplementsLedger
<1>1. IInv /\ [Next]_vars => [Ledger!Next]_(Ledger!vars)
  BY Zenon, NextFacts, StepsOrdered DEF Facts, LedgerStep
<1>. QED
  BY <1>1, LedgerInit, Invariant, PTL DEF Spec, ImplementsLedger, Ledger!Spec

(* Read as a ledger, an attempt is safe: nothing starts before every Host   *)
(* has promised and the requester has decided, a step starts after its      *)
(* predecessors are recorded, and only what started is recorded.            *)
THEOREM LedgerSafe == Spec => []Ledger!Safe
<1>1. IInv => Ledger!Safe
  <2>. SUFFICES ASSUME IInv PROVE Ledger!Safe
    BY Zenon
  <2>1. /\ \A s \in Steps : dispatch[s] # "none" => decided /\ 1..(s - 1) \subseteq commits[Runner[s]]
        /\ \A s \in commits[Requester] : dispatch[s] = "completed"
    BY Zenon DEF IInv, State, Execution, CommittedMeansDone
  <2>2. /\ decided => \A h \in Bound : recv[h] # "none"
        /\ \A h \in Bound : commits[h] \subseteq commits[Requester]
        /\ commits[Requester] \subseteq Steps
    BY Zenon, PlanAssumption DEF IInv, State, Promises, Ledgers, HostTyped
  <2>3. \A s \in Steps : dispatch[s] # "none" => Deps[s] \subseteq commits[Requester]
    BY Zenon, <2>1, <2>2, PlanAssumption
  <2>4. attempt = "completed" => commits[Requester] = Steps
    BY Zenon, <2>2 DEF IInv, State, Ledgers, StatusIsCoherent
  <2>. QED
    BY Zenon, <2>1, <2>2, <2>3, <2>4 DEF Ledger!Safe, Stopped
<1>. QED
  BY <1>1, Invariant, PTL
=============================================================================
