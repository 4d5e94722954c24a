------------------------- MODULE PlanAttemptSteps -------------------------
(***************************************************************************)
(* The steps of the Hosts, of the dispatches and of completed work keep the *)
(* inductive invariant of PlanAttemptProofs.                                *)
(***************************************************************************)
EXTENDS PlanAttemptProofs

(* What was done for the committed steps stays done.                        *)
LEMMA CommitsKept == ASSUME IInv, Grows, commits' = commits PROVE CommittedMeansDone'
<1>1. commits[Requester] \subseteq Steps
  BY Zenon, PlanAssumption DEF IInv, HostTyped
<1>2. \A s \in commits[Requester] : Done(s)
  BY Zenon DEF IInv, State, Execution, CommittedMeansDone, Done
<1>. QED
  BY Zenon, <1>1, <1>2 DEF Grows, CommittedMeansDone, Done

(* The requester commits a result, completing the attempt with the last one. *)
LEMMA Committed ==
  ASSUME IInv, NEW s \in Steps, Done(s), attempt = "running", s \notin commits[Requester],
         \A d \in Deps[s] : steps[d] = "completed",
         LET done == [steps EXCEPT ![s] = "completed"]
             complete == \A r \in Steps : done[r] = "completed" IN
           /\ commits' = [commits EXCEPT ![Requester] = @ \union {s}]
           /\ steps' = IF complete THEN done ELSE project_eligible(done)
           /\ attempt' = IF complete THEN "completed" ELSE attempt
           /\ revision' = IF complete THEN "completed" ELSE revision,
         UNCHANGED <<readiness, admission, decided, reviewed, review, base, recv, worker,
                     stepVars, driving>>
  PROVE  RequesterTyped' /\ HostTyped' /\ State' /\ Grows
<1>. DEFINE done == [steps EXCEPT ![s] = "completed"]
            complete == \A r \in Steps : done[r] = "completed"
<1>1. /\ done \in [Steps -> {"pending", "eligible"} \union Terminal]
      /\ done[s] = "completed" /\ \A r \in Steps \ {s} : done[r] = steps[r]
  BY Zenon DEF IInv, RequesterTyped, Terminal
<1>. HIDE DEF done
<1>2. /\ steps' \in [Steps -> {"pending", "eligible"} \union Terminal]
      /\ \A r \in Steps : steps'[r] = "completed" <=> done[r] = "completed"
  BY <1>1, Projected, Zenon DEF done
<1>3. attempt' = (IF complete THEN "completed" ELSE "running")
  BY Zenon DEF done
<1>4. revision' = attempt'
  BY Zenon, <1>3 DEF IInv, State, Ledgers, StatusIsCoherent, done
<1>5. RequesterTyped'
  BY <1>2, <1>3, <1>4, Zenon DEF IInv, RequesterTyped, Live, Terminal
<1>6. /\ commits' \in [Bound \union {Requester} -> SUBSET Steps]
      /\ commits'[Requester] = commits[Requester] \union {s}
      /\ \A h \in Bound \ {Requester} : commits'[h] = commits[h]
  BY Zenon DEF IInv, HostTyped
<1>7. HostTyped'
  BY Zenon, <1>6 DEF IInv, HostTyped
<1>8. Promises'
  BY Zenon, <1>3 DEF IInv, State, Promises
<1>9. StatusIsCoherent'
  <2>1. \A r \in Steps : steps[r] = "completed" <=> r \in commits[Requester]
    BY Zenon DEF IInv, State, Ledgers, StatusIsCoherent
  <2>2. \A r \in Steps : steps'[r] = "completed" <=> r \in commits'[Requester]
    BY <1>1, <1>2, <1>6, <2>1, Zenon
  <2>3. attempt' = "completed" <=> \A r \in Steps : steps'[r] = "completed"
    BY <1>2, <1>3, Zenon
  <2>. QED
    BY <1>4, <2>2, <2>3, Zenon DEF StatusIsCoherent
<1>10. \A h \in Bound : /\ commits'[h] \subseteq commits'[Requester]
                        /\ \A r \in commits'[h] : Deps[r] \subseteq commits'[h]
                        /\ recv'[h] = "completed" => Steps \subseteq commits'[h]
  <2>1. Deps[s] \subseteq commits[Requester]
    BY Zenon, PlanAssumption DEF IInv, State, Ledgers, StatusIsCoherent
  <2>. QED
    BY Zenon, <1>6, <2>1 DEF IInv, State, Ledgers, DepsIn
<1>11. Ledgers'
  BY Zenon, <1>9, <1>10 DEF Ledgers, DepsIn
<1>12. Execution'
  <2>1. CommittedMeansDone'
    BY Zenon, <1>6 DEF IInv, State, Execution, CommittedMeansDone, Done, stepVars
  <2>2. \A r \in Steps : commits[Runner[r]] \subseteq commits'[Runner[r]]
    BY Zenon, <1>6, PlanAssumption
  <2>. QED
    BY Zenon, <2>1, <2>2 DEF IInv, State, Execution, stepVars
<1>13. Halted'
  BY Zenon, <1>6 DEF IInv, State, Halted, Dead, Done, stepVars, Stopped
<1>14. Grows
  BY Zenon, <1>6 DEF Grows, Done, stepVars, Stopped
<1>. QED
  BY Zenon, <1>5, <1>7, <1>8, <1>11, <1>12, <1>13, <1>14 DEF State

(* A step result keeps the invariant.                                       *)
LEMMA ResultKeeps == ASSUME IInv, accept_requester_step_result PROVE IInv'
<1>1. PICK e \in Inbox("result") :
        LET s == e[2].step
            done == [steps EXCEPT ![s] = "completed"]
            complete == \A r \in Steps : done[r] = "completed" IN
        \/ /\ AcceptsResult(e[2])
           /\ commits' = [commits EXCEPT ![Requester] = @ \union {s}]
           /\ steps' = IF complete THEN done ELSE project_eligible(done)
           /\ attempt' = IF complete THEN "completed" ELSE attempt
           /\ revision' = IF complete THEN "completed" ELSE revision
           /\ Heard(e, ToAll("step", s, "none")) /\ UNCHANGED unheard
        \/ /\ ~AcceptsResult(e[2]) /\ Ignored(e)
           /\ UNCHANGED <<commits, steps, attempt, revision>>
  BY Zenon DEF accept_requester_step_result
<1>2. e[2].step \in Steps /\ Done(e[2].step)
  BY Zenon, Event DEF IInv, Fact
<1>3. CASE Ignored(e) /\ UNCHANGED <<commits, steps, attempt, revision>>
  BY Zenon, <1>3, IgnoredKeeps DEF accept_requester_step_result, reqVars, hostVars
<1>4. CASE ~(Ignored(e) /\ UNCHANGED <<commits, steps, attempt, revision>>)
  <2>1. RequesterTyped' /\ HostTyped' /\ State' /\ Grows
    BY Zenon, <1>1, <1>2, <1>4, Committed DEF accept_requester_step_result, AcceptsResult
  <2>2. Counted' /\ StepTyped'
    BY Zenon, <1>1, <1>4, CountedFrame, StepFrame DEF IInv, accept_requester_step_result
  <2>3. e[2].step \in commits'[Requester]
    BY <1>1, <1>4 DEF IInv, HostTyped
  <2>4. ToAll("step", e[2].step, "none") \in Seq(Good')
    <3>1. "step" \in Kinds /\ e[2].step \in 0..StepCount /\ "none" \in Notes
      BY <1>2, PlanAssumption DEF Kinds, Notes, Steps
    <3>2. \A h \in Bound : Fact(Msg("step", h, e[2].step, "none"))'
      BY Zenon, <1>2, <2>3 DEF Fact, Msg
    <3>. QED
      BY Zenon, <3>1, <3>2, ToAllGood
  <2>5. Flight'
    BY Zenon, <1>1, <1>4, <2>1, <2>4, Kept, HeardQueued DEF IInv, Flight
  <2>. QED
    BY Zenon, <2>1, <2>2, <2>5 DEF IInv
<1>. QED
  BY Zenon, <1>3, <1>4
-----------------------------------------------------------------------------
(* The Hosts.                                                               *)

(* A delivered start keeps the invariant.                                   *)
LEMMA StartKeeps == ASSUME IInv, DeliverStart PROVE IInv'
<1>1. PICK t \in Ready("start") :
        LET h == Head(t.items).host IN
        /\ Accepts(Head(t.items)) /\ Reply(t, Msg("prepared", h, 0, "prepared"))
        /\ base' = [base EXCEPT ![h] = "accepted"]
        /\ recv' = [recv EXCEPT ![h] = "prepared"]
        /\ worker' = [worker EXCEPT ![h] = IF HasManaged(h) THEN "accepted" ELSE "none"]
  BY Zenon DEF DeliverStart
<1>u. UNCHANGED <<planVars, reqVars, reviewed, review, commits, stepVars, driving, fresh,
                  expired>>
  BY Zenon DEF DeliverStart
<1>. DEFINE h == Head(t.items).host
<1>2. t \in tasks /\ t.items # <<>> /\ h \in Bound /\ Head(t.items).kind = "start"
  BY Zenon, Item DEF IInv
<1>3. base[h] = "none" /\ recv[h] = "none" /\ worker[h] = "none" /\ attempt # "none"
  BY Zenon, <1>1, <1>2 DEF IInv, State, Promises, Accepts, accept_attempt_start
<1>. HIDE DEF h
<1>4. /\ base' \in [Bound -> {"none", "accepted", "interrupted"}]
      /\ base'[h] = "accepted" /\ \A g \in Bound \ {h} : base'[g] = base[g]
  BY Zenon, <1>1, <1>2 DEF IInv, HostTyped, h
<1>5. /\ recv' \in [Bound -> {"none"} \union Runnable \union Terminal]
      /\ recv'[h] = "prepared" /\ \A g \in Bound \ {h} : recv'[g] = recv[g]
  BY Zenon, <1>1, <1>2 DEF IInv, HostTyped, h, Runnable
<1>6. /\ worker' \in [Bound -> {"none"} \union Active \union Stopped]
      /\ \A g \in Bound \ {h} : worker'[g] = worker[g]
  BY Zenon, <1>1, <1>2 DEF IInv, HostTyped, h, Active
<1>7. HostTyped'
  BY Zenon, <1>u, <1>4, <1>5, <1>6 DEF IInv, HostTyped
<1>8. Counted' /\ RequesterTyped' /\ StepTyped'
  BY Zenon, <1>u, <1>1, ReplyCounted, RequesterFrame, StepFrame DEF IInv
<1>9. Promises'
  BY Zenon, <1>u, <1>3, <1>4, <1>5, <1>6 DEF IInv, State, Promises, reqVars
<1>10. Ledgers' /\ Grows
  BY Zenon, <1>u, <1>5 DEF IInv, State, Ledgers, StatusIsCoherent, DepsIn, reqVars, stepVars,
              Grows, Done
<1>11. Execution'
  <2>1. \A s \in Steps : Op[s] = "managed" /\ dispatch[s] = "cancelled" => Runner[s] # h
    BY Zenon, <1>3 DEF IInv, State, Execution
  <2>. QED
    BY Zenon, <1>u, <1>6, <2>1, PlanAssumption
       DEF IInv, State, Execution, CommittedMeansDone, reqVars, stepVars
<1>12. Halted'
  BY <1>u, <1>4, <1>5, <1>6 DEF IInv, State, Halted, Dead, reqVars, stepVars, Stopped
<1>13. Msg("prepared", h, 0, "prepared") \in Good'
  <2>1. "prepared" \in Kinds /\ 0 \in 0..StepCount /\ "prepared" \in Notes
    BY PlanAssumption DEF Kinds, Notes
  <2>2. h \in Bound
    BY Zenon, <1>2 DEF h
  <2>3. Msg("prepared", h, 0, "prepared") \in Msgs
    BY Zenon, <2>1, <2>2, MsgType
  <2>4. Fact(Msg("prepared", h, 0, "prepared"))'
    BY Zenon, <1>5 DEF Fact, Msg
  <2>. QED
    BY Zenon, <2>3, <2>4 DEF Good
<1>14. Flight'
  BY Zenon, <1>1, <1>2, <1>10, <1>13, Kept, ReplyQueued DEF IInv, Flight, h
<1>. QED
  BY Zenon, <1>7, <1>8, <1>9, <1>10, <1>11, <1>12, <1>14 DEF IInv, State

(* The delivered decision keeps the invariant.                              *)
LEMMA CommitKeeps == ASSUME IInv, DeliverCommit PROVE IInv'
<1>1. PICK t \in Ready("commit") :
        LET h == Head(t.items).host IN
        /\ Accepts(Head(t.items)) /\ Answered(t, Tail(t.items))
        /\ recv' = [recv EXCEPT ![h] = "running"] /\ driving' = driving \union {h}
  BY Zenon DEF DeliverCommit
<1>u. UNCHANGED <<planVars, reqVars, reviewed, review, base, worker, commits, stepVars, wire,
                  fresh, expired>>
  BY Zenon DEF DeliverCommit
<1>. DEFINE h == Head(t.items).host
<1>2. t \in tasks /\ h \in Bound /\ Head(t.items).kind = "commit" /\ Fact(Head(t.items))
      /\ Tail(t.items) \in Seq(Good)
  BY Zenon, Item DEF IInv
<1>3. decided /\ recv[h] = "prepared" /\ attempt # "none"
  BY Zenon, <1>1, <1>2 DEF IInv, State, Promises, Accepts, accept_receiver_commit, Fact
<1>. HIDE DEF h
<1>4. /\ recv' \in [Bound -> {"none"} \union Runnable \union Terminal]
      /\ recv'[h] = "running" /\ \A g \in Bound \ {h} : recv'[g] = recv[g]
  BY Zenon, <1>1, <1>2 DEF IInv, HostTyped, h, Runnable
<1>5. HostTyped' /\ driving' = driving \union {h}
  BY Zenon, <1>u, <1>1, <1>2, <1>4 DEF IInv, HostTyped, h
<1>6. Counted' /\ RequesterTyped' /\ StepTyped'
  BY Zenon, <1>u, <1>1, AnsweredCounted, RequesterFrame, StepFrame DEF IInv
<1>7. Promises'
  BY Zenon, <1>u, <1>3, <1>4, <1>5 DEF IInv, State, Promises, reqVars
<1>8. Ledgers' /\ Grows
  BY Zenon, <1>u, <1>4 DEF IInv, State, Ledgers, StatusIsCoherent, DepsIn, reqVars, stepVars,
              Grows, Done
<1>9. Execution'
  BY Zenon, <1>u DEF IInv, State, Execution, CommittedMeansDone, reqVars, stepVars
<1>10. Halted'
  BY Zenon, <1>u, <1>4 DEF IInv, State, Halted, Dead, reqVars, stepVars, Stopped
<1>11. Tail(t.items) \in Seq(Good')
  BY Zenon, <1>2, <1>8, GoodGrows, SeqGrows
<1>12. Flight'
  BY <1>u, <1>1, <1>2, <1>8, <1>11, Kept, AnsweredQueued, Zenon DEF IInv, Flight
<1>. QED
  BY Zenon, <1>5, <1>6, <1>7, <1>8, <1>9, <1>10, <1>12 DEF IInv, State

(* A delivered step commit keeps the invariant.                             *)
LEMMA StepCommitKeeps == ASSUME IInv, DeliverStepCommit PROVE IInv'
<1>1. PICK t \in Ready("step") :
        LET h == Head(t.items).host  c == commits[h] \union {Head(t.items).step} IN
        /\ Accepts(Head(t.items)) /\ Answered(t, Tail(t.items))
        /\ commits' = [commits EXCEPT ![h] = c]
        /\ recv' = IF AllDone(c) THEN [recv EXCEPT ![h] = "completed"] ELSE recv
        /\ driving' = driving \union {h}
  BY Zenon DEF DeliverStepCommit
<1>u. UNCHANGED <<planVars, reqVars, reviewed, review, base, worker, stepVars, wire, fresh,
                  expired>>
  BY Zenon DEF DeliverStepCommit
<1>. DEFINE h == Head(t.items).host
            s == Head(t.items).step
<1>2. t \in tasks /\ h \in Bound /\ Head(t.items).kind = "step" /\ Fact(Head(t.items))
      /\ Tail(t.items) \in Seq(Good)
  BY Zenon, Item DEF IInv
<1>3. /\ s \in Steps /\ s \in commits[Requester] /\ recv[h] = "running" /\ attempt # "none"
      /\ Deps[s] \subseteq commits[h] /\ decided
  BY Zenon, <1>1, <1>2 DEF IInv, State, Promises, Accepts, accept_receiver_step_commit, MayCommitStep,
                    DepsIn, Fact
<1>. HIDE DEF h, s
<1>4. /\ recv' \in [Bound -> {"none"} \union Runnable \union Terminal]
      /\ recv'[h] = (IF Steps \subseteq commits[h] \union {s} THEN "completed" ELSE "running")
      /\ \A g \in Bound \ {h} : recv'[g] = recv[g]
  BY Zenon, <1>1, <1>2, <1>3 DEF IInv, HostTyped, h, s, Terminal, AllDone
<1>5. /\ commits' \in [Bound \union {Requester} -> SUBSET Steps]
      /\ commits'[h] = commits[h] \union {s} /\ commits'[Requester] = commits[Requester]
      /\ \A g \in Bound \ {h} : commits'[g] = commits[g]
  BY Zenon, <1>1, <1>2, <1>3 DEF IInv, HostTyped, h, s
<1>6. HostTyped' /\ driving' = driving \union {h}
  BY <1>u, <1>1, <1>2, <1>4, <1>5, Zenon DEF IInv, HostTyped, h
<1>7. Counted' /\ RequesterTyped' /\ StepTyped'
  BY Zenon, <1>u, <1>1, AnsweredCounted, RequesterFrame, StepFrame DEF IInv
<1>8. Promises'
  BY Zenon, <1>u, <1>3, <1>4, <1>6 DEF IInv, State, Promises, reqVars
<1>9. Ledgers'
  <2>1. StatusIsCoherent'
    BY Zenon, <1>u, <1>5 DEF IInv, State, Ledgers, StatusIsCoherent, reqVars
  <2>2. \A g \in Bound : /\ commits[g] \subseteq commits[Requester]
                         /\ \A r \in commits[g] : Deps[r] \subseteq commits[g]
                         /\ recv[g] = "completed" => Steps \subseteq commits[g]
    BY Zenon DEF IInv, State, Ledgers, DepsIn
  <2>3. \A g \in Bound : /\ commits'[g] \subseteq commits'[Requester]
                         /\ \A r \in commits'[g] : Deps[r] \subseteq commits'[g]
                         /\ recv'[g] = "completed" => Steps \subseteq commits'[g]
    BY Zenon, <1>3, <1>4, <1>5, <2>2
  <2>. QED
    BY Zenon, <2>1, <2>3 DEF Ledgers, DepsIn
<1>10. Grows
  BY Zenon, <1>u, <1>4, <1>5 DEF Grows, Done, reqVars, stepVars
<1>11. Execution'
  <2>1. \A r \in Steps : commits[Runner[r]] \subseteq commits'[Runner[r]]
    BY Zenon, <1>5, PlanAssumption
  <2>. QED
    BY Zenon, <1>u, <1>5, <2>1 DEF IInv, State, Execution, CommittedMeansDone, reqVars,
                      stepVars
<1>12. Halted'
  BY Zenon, <1>u, <1>4, <1>5 DEF IInv, State, Halted, Dead, reqVars, stepVars, Stopped
<1>13. Tail(t.items) \in Seq(Good')
  BY Zenon, <1>2, <1>10, GoodGrows, SeqGrows
<1>14. Flight'
  BY <1>u, <1>1, <1>2, <1>10, <1>13, Kept, AnsweredQueued, Zenon DEF IInv, Flight
<1>. QED
  BY Zenon, <1>6, <1>7, <1>8, <1>9, <1>10, <1>11, <1>12, <1>14 DEF IInv, State
(* A cancellation and every other way of ending what a Host runs.           *)
LEMMA Ended ==
  ASSUME StepTyped, NEW S, NEW st \in Stopped
  PROVE  /\ EndDispatch(S, st) \in [Steps -> {"none", "dispatching"} \union Terminal]
         /\ EndClaims(S) \in [Steps -> {"none", "claimed", "completed", "interrupted"}]
         /\ \A s \in Steps :
              /\ EndDispatch(S, st)[s] = (IF s \in S /\ dispatch[s] = "dispatching" THEN st
                                         ELSE dispatch[s])
              /\ EndClaims(S)[s] = (IF s \in S /\ claim[s] = "claimed" THEN "interrupted"
                                    ELSE claim[s])
  BY Zenon DEF StepTyped, EndDispatch, EndClaims, Terminal

(* EndIf changes the row of one Host only.                                  *)
LEMMA RowEnded ==
  ASSUME NEW T, NEW row \in [Bound -> T], NEW h \in Bound, NEW live, NEW st \in T
  PROVE  /\ EndIf(row, h, live, st) \in [Bound -> T]
         /\ EndIf(row, h, live, st)[h] = (IF row[h] \in live THEN st ELSE row[h])
         /\ \A g \in Bound \ {h} : EndIf(row, h, live, st)[g] = row[g]
  BY Zenon DEF EndIf

(* A delivered cancellation keeps the invariant.                            *)
LEMMA CancelKeeps == ASSUME IInv, DeliverCancel PROVE IInv'
<1>1. PICK t \in Ready("cancel") :
       LET m == Head(t.items)
           h == m.host
           all == accept_receiver_cancel(h, m.note) /\ ~expired
           live == cancel_worker_attempt(h)
           S == (IF all THEN External(h) ELSE {}) \union (IF live THEN Managed(h) ELSE {})
       IN
       /\ Accepts(m) /\ Answered(t, Tail(t.items))
       /\ recv' = IF all THEN [recv EXCEPT ![h] = "cancelled"] ELSE recv
       /\ dispatch' = EndDispatch(S, "cancelled")
       /\ worker' = IF live THEN [worker EXCEPT ![h] = "cancelled"] ELSE worker
       /\ base' = IF live THEN EndIf(base, h, {"accepted"}, "interrupted") ELSE base
       /\ claim' = IF live THEN EndClaims(Managed(h)) ELSE claim
  BY Zenon DEF DeliverCancel
<1>u. UNCHANGED <<planVars, reqVars, reviewed, review, commits, receipts, work, wire, driving,
                  fresh, expired>>
  BY Zenon DEF DeliverCancel
<1>. DEFINE m == Head(t.items)
            h == m.host
            all == accept_receiver_cancel(h, m.note) /\ ~expired
            live == cancel_worker_attempt(h)
            S == (IF all THEN External(h) ELSE {}) \union (IF live THEN Managed(h) ELSE {})
<1>2. t \in tasks /\ h \in Bound /\ Head(t.items).kind = "cancel" /\ Fact(Head(t.items))
      /\ Tail(t.items) \in Seq(Good)
  BY Zenon, Item DEF IInv
<1>3. attempt \in Stopped
  BY Zenon, <1>2 DEF Fact
<1>4. /\ recv' \in [Bound -> {"none"} \union Runnable \union Terminal]
      /\ \A g \in Bound \ {h} : recv'[g] = recv[g]
      /\ \/ recv'[h] = recv[h] /\ recv[h] \in Terminal /\ ~all
         \/ recv'[h] = "cancelled" /\ recv[h] \in Runnable
  BY <1>1, <1>2, Zenon DEF IInv, HostTyped, Terminal, Stopped, Accepts, accept_receiver_cancel
<1>5. /\ worker' \in [Bound -> {"none"} \union Active \union Stopped]
      /\ \A g \in Bound \ {h} : worker'[g] = worker[g]
      /\ live => worker[h] \in Active /\ worker'[h] = "cancelled"
      /\ ~live => worker' = worker
  BY Zenon, <1>1, <1>2 DEF IInv, HostTyped, Stopped, cancel_worker_attempt
<1>6. /\ base' \in [Bound -> {"none", "accepted", "interrupted"}]
      /\ \A g \in Bound \ {h} : base'[g] = base[g]
      /\ live => base'[h] \in {base[h], "interrupted"}
      /\ ~live => base' = base
  <2>1. EndIf(base, h, {"accepted"}, "interrupted")
          \in [Bound -> {"none", "accepted", "interrupted"}]
    BY Zenon, <1>2 DEF IInv, HostTyped, EndIf
  <2>2. /\ EndIf(base, h, {"accepted"}, "interrupted")[h] \in {base[h], "interrupted"}
        /\ \A g \in Bound \ {h} : EndIf(base, h, {"accepted"}, "interrupted")[g] = base[g]
    BY Zenon, <1>2 DEF IInv, HostTyped, EndIf
  <2>. QED
    BY Zenon, <1>1, <2>1, <2>2 DEF IInv, HostTyped
<1>. HIDE DEF S
<1>7. /\ dispatch' \in [Steps -> {"none", "dispatching"} \union Terminal]
      /\ \A s \in Steps : dispatch'[s] = IF s \in S /\ dispatch[s] = "dispatching"
                                          THEN "cancelled" ELSE dispatch[s]
  BY <1>1, Ended DEF IInv, S, Stopped
<1>8. /\ claim' \in [Steps -> {"none", "claimed", "completed", "interrupted"}]
      /\ \A s \in Steps : claim'[s] = IF live /\ s \in Managed(h) /\ claim[s] = "claimed"
                                       THEN "interrupted" ELSE claim[s]
  BY <1>1, Ended DEF IInv, StepTyped, Stopped
<1>9. \A s \in S : Runner[s] = h /\ (Op[s] = "managed" => live /\ s \in Managed(h))
  BY Zenon DEF S, External, Managed
<1>10. live => \A s \in Managed(h) : ~(dispatch[s] = "dispatching" /\ claim[s] = "completed")
  BY Zenon DEF cancel_worker_attempt
<1>11. worker[h] \in Active /\ ~live
         => \E s \in Steps : Runner[s] = h /\ dispatch[s] = "dispatching"
  BY Zenon DEF cancel_worker_attempt, Managed
<1>. HIDE DEF all, live, h, m
<1>12. HostTyped' /\ StepTyped'
  BY <1>u, <1>4, <1>5, <1>6, <1>7, <1>8, Zenon DEF IInv, HostTyped, StepTyped
<1>13. Counted' /\ RequesterTyped'
  BY Zenon, <1>u, <1>1, AnsweredCounted, RequesterFrame DEF IInv
<1>14. Promises'
  <2>1. /\ attempt' = attempt /\ decided' = decided /\ admission' = admission
        /\ driving' = driving
    BY Zenon, <1>u DEF reqVars
  <2>2. ASSUME NEW g \in Bound
        PROVE  /\ recv[g] # "none" => recv'[g] # "none" /\ recv'[g] \in {recv[g], "cancelled"}
               /\ recv'[g] # "none" => recv[g] # "none"
               /\ worker'[g] # "none" => worker[g] # "none"
               /\ base[g] # "none" => base'[g] # "none"
    BY Zenon, <1>4, <1>5, <1>6 DEF Active, Stopped, Runnable, Terminal
  <2>. QED
    BY Zenon, <1>3, <2>1, <2>2 DEF IInv, State, Promises, Stopped
<1>15. Ledgers'
  BY Zenon, <1>u, <1>4 DEF IInv, State, Ledgers, StatusIsCoherent, DepsIn, reqVars
<1>16. Grows
  BY Zenon, <1>u, <1>4, <1>7, <1>8 DEF Grows, Done, reqVars, Terminal, Stopped
<1>17. CommittedMeansDone'
  BY Zenon, <1>u, <1>16, CommitsKept
<1>18. \A s \in Steps : Op[s] = "managed" /\ dispatch'[s] = "cancelled"
         => worker'[Runner[s]] = "cancelled" /\ claim'[s] \in {"none", "interrupted"}
  <2>. SUFFICES ASSUME NEW s \in Steps, Op[s] = "managed", dispatch'[s] = "cancelled"
                PROVE  worker'[Runner[s]] = "cancelled" /\ claim'[s] \in {"none", "interrupted"}
    BY Zenon
  <2>1. Runner[s] \in Bound
    BY Zenon, PlanAssumption
  <2>2. CASE dispatch[s] = "cancelled"
    BY Zenon, <1>5, <1>8, <2>1, <2>2 DEF IInv, State, Execution, Active
  <2>3. CASE dispatch[s] # "cancelled"
    BY Zenon, <1>5, <1>7, <1>8, <1>9, <1>10, <2>1, <2>3 DEF IInv, StepTyped
  <2>. QED
    BY Zenon, <2>2, <2>3
<1>19. Execution'
  <2>1. decided' = decided /\ commits' = commits /\ work' = work
    BY Zenon, <1>u DEF reqVars
  <2>2. \A s \in Steps : /\ dispatch'[s] # "none" => dispatch[s] # "none"
                         /\ dispatch[s] \notin {"none", "completed"}
                              => dispatch'[s] \notin {"none", "completed"}
                         /\ claim'[s] # "none" => claim[s] # "none"
    BY Zenon, <1>7, <1>8
  <2>. QED
    BY Zenon, <1>17, <1>18, <2>1, <2>2 DEF IInv, State, Execution
<1>20. Halted'
  <2>. SUFFICES ASSUME NEW g \in Bound, recv'[g] \in Stopped, base'[g] = "accepted",
                       worker'[g] \in Active
                PROVE  \E s \in Steps : Runner[s] = g /\ Dead(s)'
    BY Zenon DEF Halted
  <2>1. \A s \in Steps : Dead(s) => Dead(s)'
    BY <1>u, <1>3, <1>7, Zenon DEF Dead, reqVars, Stopped
  <2>2. CASE recv[g] \in Stopped
    BY Zenon, <1>4, <1>5, <1>6, <2>1, <2>2 DEF IInv, State, Halted, Active
  <2>3. CASE recv[g] \notin Stopped
    <3>1. g = h /\ ~live /\ worker[g] \in Active
      BY Zenon, <1>4, <1>5, <2>3 DEF Active
    <3>2. PICK s \in Steps : Runner[s] = h /\ dispatch[s] = "dispatching"
      BY Zenon, <1>11, <3>1
    <3>3. s \notin commits[Requester] /\ dispatch'[s] # "none"
      BY Zenon, <1>7, <3>2 DEF IInv, State, Execution, CommittedMeansDone
    <3>. QED
      BY Zenon, <1>u, <1>3, <3>1, <3>2, <3>3 DEF Dead, reqVars
  <2>. QED
    BY Zenon, <2>2, <2>3
<1>21. Tail(t.items) \in Seq(Good')
  BY Zenon, <1>2, <1>16, GoodGrows, SeqGrows
<1>22. Flight'
  BY <1>u, <1>1, <1>2, <1>16, <1>21, Kept, AnsweredQueued, Zenon DEF IInv, Flight
<1>. QED
  BY Zenon, <1>12, <1>13, <1>14, <1>15, <1>16, <1>19, <1>20, <1>22 DEF IInv, State
-----------------------------------------------------------------------------
(* Starting steps.                                                          *)

(* A drive takes the first step that its Host has not committed.            *)
LEMMA InOrder ==
  ASSUME IInv, Ordered, NEW h \in Bound, Eligible(h) # {}
  PROVE  /\ FirstEligible(h) \in Steps \ commits[h]
         /\ 1..(FirstEligible(h) - 1) \subseteq commits[h]
         /\ \A r \in Steps \ commits[h] : FirstEligible(h) <= r
<1>. DEFINE s == FirstEligible(h)
            T == Steps \ commits[h]
<1>0. Steps = 1..StepCount /\ StepCount \in Nat
  BY Zenon, PlanAssumption DEF Steps
<1>1. Eligible(h) \subseteq T /\ Eligible(h) \subseteq Steps
  BY Zenon DEF Eligible
<1>2. \E x \in Eligible(h) : \A r \in Eligible(h) : x <= r
  BY Zenon, <1>1 DEF Ordered
<1>3. s \in Eligible(h) /\ \A r \in Eligible(h) : s <= r
  BY Zenon, <1>2 DEF FirstEligible
<1>. HIDE DEF s
<1>4. T # {}
  BY Zenon, <1>1, <1>3
<1>5. PICK u \in T : \A r \in T : u <= r
  BY <1>4, Zenon DEF Ordered
<1>6. 1..(u - 1) \subseteq commits[h]
  BY <1>0, <1>5
<1>7. u \in Eligible(h)
  BY Zenon, <1>5, <1>6, PlanAssumption DEF Eligible, DepsIn
<1>8. s = u
  BY <1>0, <1>1, <1>3, <1>5, <1>7
<1>. QED
  BY Zenon, <1>5, <1>6, <1>8 DEF s

(* It starts that step only on a Host whose receiver attempt is running.    *)
LEMMA DriveStarts ==
  ASSUME IInv, Ordered, NEW h \in driving, CanDrive(h)
  PROVE  LET s == FirstEligible(h) IN
         /\ h \in Bound /\ s \in Steps /\ Runner[s] = h /\ dispatch[s] = "none"
         /\ recv[h] = "running" /\ base[h] = "accepted" /\ decided
         /\ s \notin commits[h] /\ 1..(s - 1) \subseteq commits[h]
         /\ Op[s] = "managed" => worker[h] \in Active
<1>. DEFINE s == FirstEligible(h)
<1>0. h \in Bound /\ \A r \in Steps : r \in Nat
  BY PlanAssumption DEF IInv, HostTyped, Steps
<1>1. s \in Steps /\ s \notin commits[h] /\ 1..(s - 1) \subseteq commits[h]
      /\ \A r \in Steps \ commits[h] : s <= r
  BY Zenon, <1>0, InOrder DEF CanDrive
<1>2. /\ Runner[s] = h /\ dispatch[s] = "none" /\ base[h] = "accepted"
      /\ Op[s] = "managed" => worker[h] \in Active
      /\ Op[s] # "managed" => recv[h] = "running"
  BY Zenon DEF CanDrive, reserve_next_dispatch, reserve_external_dispatch
<1>. HIDE DEF s
<1>3. recv[h] \notin {"none", "prepared"}
  BY Zenon, <1>0 DEF IInv, State, Promises
<1>4. recv[h] # "completed"
  BY Zenon, <1>0, <1>1 DEF IInv, State, Ledgers
<1>5. recv[h] \notin Stopped
  <2>. SUFFICES ASSUME recv[h] \in Stopped, worker[h] \in Active PROVE FALSE
    BY Zenon, <1>2 DEF Stopped
  <2>1. PICK r \in Steps : Runner[r] = h /\ Dead(r)
    BY Zenon, <1>0, <1>2 DEF IInv, State, Halted
  <2>2. dispatch[r] # "none" /\ r \notin commits[h] /\ 1..(r - 1) \subseteq commits[h]
    BY Zenon, <1>0, <2>1 DEF IInv, State, Ledgers, Execution, Dead
  <2>3. s <= r /\ ~(s \in 1..(r - 1)) /\ r \in Nat /\ s \in Nat /\ s >= 1
    BY <1>0, <1>1, <2>1, <2>2 DEF Steps
  <2>4. s = r
    BY <2>3
  <2>. QED
    BY Zenon, <1>2, <2>2, <2>4
<1>6. recv[h] = "running"
  BY Zenon, <1>0, <1>3, <1>4, <1>5 DEF IInv, HostTyped, Runnable, Terminal
<1>7. decided
  BY Zenon, <1>0, <1>6 DEF IInv, State, Promises
<1>. QED
  BY Zenon, <1>0, <1>1, <1>2, <1>6, <1>7 DEF s

(* A drive of the receiver keeps the invariant.                             *)
LEMMA DriveKeeps == ASSUME IInv, Ordered, drive_receiver_attempt PROVE IInv'
<1>1. PICK h \in driving :
        /\ driving' = driving \ {h}
        /\ \/ UNCHANGED <<dispatch, work, worker>>
           \/ /\ CanDrive(h)
              /\ LET s == FirstEligible(h) IN
                 /\ dispatch' = [dispatch EXCEPT ![s] = "dispatching"]
                 /\ work' = work \union {s}
                 /\ worker' = IF Op[s] = "managed" THEN [worker EXCEPT ![h] = "running"]
                              ELSE worker
  BY Zenon DEF drive_receiver_attempt
<1>u. UNCHANGED <<planVars, reqVars, reviewed, review, base, recv, commits, claim, receipts,
                  tasks, wire, envVars, unheard>>
  BY Zenon DEF drive_receiver_attempt
<1>2. Counted' /\ RequesterTyped'
  BY Zenon, <1>u, CountedFrame, RequesterFrame DEF IInv
<1>3. CASE UNCHANGED <<dispatch, work, worker>>
  <2>1. HostTyped' /\ StepTyped'
    BY Zenon, <1>u, <1>1, <1>3 DEF IInv, HostTyped, StepTyped
  <2>2. Promises' /\ Ledgers' /\ Grows
    BY Zenon, <1>u, <1>1, <1>3 DEF IInv, State, Promises, Ledgers, StatusIsCoherent, DepsIn, Grows, Done,
                      reqVars
  <2>3. Execution' /\ Halted'
    BY Zenon, <1>u, <1>3 DEF IInv, State, Execution, CommittedMeansDone, Halted, Dead,
                reqVars
  <2>4. Flight'
    BY Zenon, <1>u, <2>2, Kept DEF IInv, Flight
  <2>. QED
    BY Zenon, <1>2, <2>1, <2>2, <2>3, <2>4 DEF IInv, State
<1>4. CASE CanDrive(h) /\ ~UNCHANGED <<dispatch, work, worker>>
  <2>. DEFINE s == FirstEligible(h)
  <2>1. /\ h \in Bound /\ s \in Steps /\ Runner[s] = h /\ dispatch[s] = "none"
        /\ decided /\ 1..(s - 1) \subseteq commits[h]
        /\ Op[s] = "managed" => worker[h] \in Active
    BY Zenon, <1>4, DriveStarts
  <2>. HIDE DEF s
  <2>2. /\ dispatch' \in [Steps -> {"none", "dispatching"} \union Terminal]
        /\ dispatch'[s] = "dispatching" /\ \A r \in Steps \ {s} : dispatch'[r] = dispatch[r]
    BY Zenon, <1>1, <1>4, <2>1 DEF IInv, StepTyped, s
  <2>3. /\ worker' \in [Bound -> {"none"} \union Active \union Stopped]
        /\ \A g \in Bound : worker'[g] = worker[g]
                             \/ (worker[g] \in Active /\ worker'[g] = "running")
    BY Zenon, <1>1, <1>4, <2>1 DEF IInv, HostTyped, s, Active
  <2>4. work' = work \union {s} /\ HostTyped' /\ StepTyped'
    BY Zenon, <1>u, <1>1, <1>4, <2>1, <2>2, <2>3 DEF IInv, HostTyped, StepTyped, s
  <2>5. Promises' /\ Ledgers'
    BY Zenon, <1>u, <1>1, <2>3 DEF IInv, State, Promises, Ledgers, StatusIsCoherent, DepsIn, Active,
                      reqVars
  <2>6. Grows
    BY Zenon, <1>u, <2>1, <2>2 DEF Grows, Done, reqVars
  <2>7. CommittedMeansDone'
    BY Zenon, <1>u, <2>6, CommitsKept
  <2>8. Execution'
    <3>1. UNCHANGED <<decided, commits, claim>>
      BY Zenon, <1>u DEF reqVars
    <3>2. \A r \in Steps : Op[r] = "managed" /\ dispatch'[r] = "cancelled"
            => worker'[Runner[r]] = "cancelled" /\ claim'[r] \in {"none", "interrupted"}
      BY <2>2, <2>3, <3>1, PlanAssumption DEF IInv, State, Execution, Active
    <3>. QED
      BY <2>1, <2>2, <2>4, <2>7, <3>1, <3>2 DEF IInv, State, Execution
  <2>9. Halted'
    <3>1. \A r \in Steps : Dead(r) => Dead(r)'
      BY Zenon, <1>u, <2>1, <2>2 DEF Dead, reqVars
    <3>2. \A g \in Bound : worker'[g] \in Active => worker[g] \in Active
      BY Zenon, <2>3
    <3>. QED
      BY Zenon, <1>u, <3>1, <3>2 DEF IInv, State, Halted
  <2>10. Flight'
    BY Zenon, <1>u, <2>6, Kept DEF IInv, Flight
  <2>. QED
    BY Zenon, <1>2, <2>4, <2>5, <2>6, <2>8, <2>9, <2>10 DEF IInv, State
<1>. QED
  BY Zenon, <1>1, <1>3, <1>4
-----------------------------------------------------------------------------
(* Running and ending steps.                                                *)

(* A report of a justified event keeps every event in flight justified.     *)
LEMMA Reported ==
  ASSUME IInv, NEW m, Report(m), Grows, m \in Good'
  PROVE  Flight'
  BY Zenon, Kept, ReportQueued DEF IInv, Flight

(* A failure event is always justified.                                     *)
LEMMA FailureGood == ASSUME NEW h \in Bound, NEW s \in 0..StepCount
                     PROVE  Msg("failure", h, s, "none") \in Good'
<1>1. "failure" \in Kinds /\ "none" \in Notes
  BY Zenon DEF Kinds, Notes
<1>2. Msg("failure", h, s, "none") \in Msgs /\ Msg("failure", h, s, "none").kind = "failure"
  BY <1>1, MsgType
<1>. QED
  BY Zenon, <1>2 DEF Good, Fact, Msgs

(* Reporting a failure keeps every event in flight justified.               *)
LEMMA FailureReported ==
  ASSUME IInv, NEW h \in Bound, NEW s \in 0..StepCount, NEW b, ReportFailure(h, s, b), Grows
  PROVE  Flight'
<1>1. CASE Report(Msg("failure", h, s, "none"))
  BY Zenon, <1>1, FailureGood, Reported
<1>2. CASE UNCHANGED <<tasks, wire>>
  BY Zenon, <1>2, Kept DEF IInv, Flight
<1>. QED
  BY <1>1, <1>2, Zenon DEF ReportFailure

(* A report keeps the counters typed.                                       *)
LEMMA ReportCounted ==
  ASSUME Counted, mishaps' \in 0..MaxMishaps, UNCHANGED <<planVars, fresh, expired>>,
         UNCHANGED unheard \/ Unheard(TRUE)
  PROVE  Counted'
<1>1. unheard' \in BOOLEAN
  BY UnheardTyped, Zenon DEF Counted
<1>. QED
  BY Zenon, <1>1 DEF Counted, planVars

(* A report leaves the history variable alone or sets it.                   *)
LEMMA ReportHeard == ASSUME NEW m, Report(m) PROVE UNCHANGED unheard \/ Unheard(TRUE)
  BY Zenon DEF Report

(* So does a report of a failure.                                           *)
LEMMA FailureHeard ==
  ASSUME NEW h, NEW s, NEW b, ReportFailure(h, s, b) PROVE UNCHANGED unheard \/ Unheard(TRUE)
  BY ReportHeard, Zenon DEF ReportFailure

(* What is under way was dispatched, after the decision.                    *)
LEMMA Working == ASSUME IInv, NEW s \in work
                 PROVE  /\ s \in Steps /\ s \in 0..StepCount /\ Runner[s] \in Bound
                        /\ dispatch[s] \notin {"none", "completed"} /\ attempt # "none"
<1>1. s \in Steps /\ s \in 0..StepCount
  BY PlanAssumption DEF IInv, StepTyped, Steps
<1>2. dispatch[s] \notin {"none", "completed"}
  BY Zenon, <1>1 DEF IInv, State, Execution
<1>3. attempt # "none"
  BY Zenon, <1>1, <1>2 DEF IInv, State, Execution, Promises
<1>. QED
  BY Zenon, <1>1, <1>2, <1>3, PlanAssumption

(* A registered transfer landing keeps the invariant.                       *)
LEMMA LandingKeeps == ASSUME IInv, register_transfer_landing PROVE IInv'
<1>1. receipts \subseteq receipts' /\ receipts' \subseteq Steps
  BY Zenon DEF IInv, StepTyped, register_transfer_landing
<1>2. Counted' /\ RequesterTyped' /\ HostTyped' /\ StepTyped'
  BY Zenon, <1>1, CountedFrame, RequesterFrame, HostFrame
     DEF IInv, StepTyped, register_transfer_landing
<1>3. Promises' /\ Ledgers' /\ Halted'
  BY Zenon DEF IInv, State, Promises, Ledgers, StatusIsCoherent, DepsIn, Halted, Dead,
         register_transfer_landing, reqVars, hostVars
<1>4. Execution' /\ Grows
  BY Zenon, <1>1 DEF IInv, State, Execution, CommittedMeansDone, Grows, Done,
              register_transfer_landing, reqVars, hostVars
<1>5. Flight'
  BY Zenon, <1>4, Kept DEF IInv, Flight, register_transfer_landing
<1>. QED
  BY Zenon, <1>2, <1>3, <1>4, <1>5 DEF IInv, State

(* A claim of a managed step, and its completion by the Core, keep the      *)
(* invariant.                                                               *)
LEMMA ClaimKeeps == ASSUME IInv, claim_v2_managed_step \/ finalize_v2 PROVE IInv'
<1>1. PICK s \in work :
        /\ Op[s] = "managed"
        /\ \/ /\ claim[s] = "none" /\ worker[Runner[s]] = "running"
              /\ claim' = [claim EXCEPT ![s] = "claimed"]
           \/ claim[s] = "claimed" /\ claim' = [claim EXCEPT ![s] = "completed"]
  BY Zenon DEF claim_v2_managed_step, finalize_v2, LiveWorker, CanFinalize
<1>2. s \in Steps /\ dispatch[s] \notin {"none", "completed"}
  BY Zenon, Working
<1>3. UNCHANGED <<planVars, reqVars, hostVars, dispatch, receipts, work, tasks, wire, driving,
                  envVars, unheard>>
  BY Zenon DEF claim_v2_managed_step, finalize_v2
<1>4. /\ claim' \in [Steps -> {"none", "claimed", "completed", "interrupted"}]
      /\ \A r \in Steps \ {s} : claim'[r] = claim[r]
  BY Zenon, <1>1, <1>2 DEF IInv, StepTyped
<1>5. dispatch[s] # "cancelled"
  BY Zenon, <1>1, <1>2 DEF IInv, State, Execution
<1>6. Counted' /\ RequesterTyped' /\ HostTyped' /\ StepTyped'
  BY Zenon, <1>3, <1>4, CountedFrame, RequesterFrame, HostFrame DEF IInv, StepTyped
<1>7. Promises' /\ Ledgers' /\ Halted'
  BY Zenon, <1>3 DEF IInv, State, Promises, Ledgers, StatusIsCoherent, DepsIn, Halted, Dead, reqVars,
              hostVars
<1>8. Grows
  BY Zenon, <1>2, <1>3, <1>4 DEF Grows, Done, reqVars, hostVars
<1>9. Execution'
  <2>1. UNCHANGED <<decided, commits, dispatch, work, worker>>
    BY Zenon, <1>3 DEF reqVars, hostVars
  <2>2. CommittedMeansDone'
    BY Zenon, <1>8, <2>1, CommitsKept
  <2>. QED
    BY Zenon, <1>1, <1>2, <1>4, <1>5, <2>1, <2>2 DEF IInv, State, Execution
<1>10. Flight'
  BY Zenon, <1>3, <1>8, Kept DEF IInv, Flight
<1>. QED
  BY Zenon, <1>6, <1>7, <1>8, <1>9, <1>10 DEF IInv, State

(* A step's one dispatch completes, and the requester is told.              *)
LEMMA Completed ==
  ASSUME IInv, NEW s \in work, dispatch[s] = "dispatching",
         dispatch' = [dispatch EXCEPT ![s] = "completed"],
         Op[s] = "managed" => claim[s] = "completed", Op[s] = "transfer" => s \in receipts,
         Report(Msg("result", Runner[s], s, "none")), work' = work \ {s},
         worker' \in [Bound -> {"none"} \union Active \union Stopped],
         \A g \in Bound : worker'[g] = worker[g]
                          \/ (worker[g] \in Active /\ worker'[g] \in Active),
         UNCHANGED <<planVars, reqVars, reviewed, review, base, recv, commits, claim, receipts,
                     driving, envVars>>
  PROVE  IInv'
<1>1. s \in Steps /\ s \in 0..StepCount /\ Runner[s] \in Bound /\ attempt # "none"
  BY Zenon, Working
<1>2. /\ dispatch' \in [Steps -> {"none", "dispatching"} \union Terminal]
      /\ dispatch'[s] = "completed" /\ \A r \in Steps \ {s} : dispatch'[r] = dispatch[r]
  BY Zenon, <1>1 DEF IInv, StepTyped, Terminal
<1>3. Counted' /\ RequesterTyped' /\ HostTyped' /\ StepTyped'
  <2>1. mishaps' \in 0..MaxMishaps /\ UNCHANGED <<planVars, fresh, expired>>
    BY Zenon DEF IInv, Counted, envVars
  <2>2. Counted'
    BY <2>1, ReportCounted, ReportHeard, Zenon DEF IInv
  <2>. QED
    BY Zenon, <1>2, <2>2, RequesterFrame DEF IInv, HostTyped, StepTyped
<1>4. Promises' /\ Ledgers'
  BY Zenon, <1>1 DEF IInv, State, Promises, Ledgers, StatusIsCoherent, DepsIn, reqVars, Active
<1>5. Grows
  BY Zenon, <1>2 DEF Grows, Done, reqVars
<1>6. CommittedMeansDone'
  BY Zenon, <1>5, CommitsKept
<1>7. Execution'
  <2>1. decided' = decided /\ \A g \in Bound : worker[g] = "cancelled" => worker'[g] = "cancelled"
    BY Zenon DEF reqVars, Active
  <2>. QED
    BY <1>1, <1>2, <1>6, <2>1, PlanAssumption DEF IInv, State, Execution
<1>8. Halted'
  <2>1. s \notin commits[Requester]
    BY Zenon DEF IInv, State, Execution, CommittedMeansDone
  <2>2. \A r \in Steps : Dead(r) => Dead(r)'
    BY Zenon, <1>2, <2>1 DEF Dead, reqVars, Stopped
  <2>. QED
    BY Zenon, <2>2 DEF IInv, State, Halted, reqVars
<1>9. Msg("result", Runner[s], s, "none") \in Good'
  <2>1. "result" \in Kinds /\ "none" \in Notes
    BY Zenon DEF Kinds, Notes
  <2>2. Msg("result", Runner[s], s, "none") \in Msgs
    BY Zenon, <1>1, <2>1, MsgType
  <2>3. Done(s)'
    BY Zenon, <1>2 DEF Done
  <2>4. Fact(Msg("result", Runner[s], s, "none"))'
    BY Zenon, <1>1, <2>3 DEF Fact, Msg
  <2>. QED
    BY Zenon, <2>2, <2>4 DEF Good
<1>10. Flight'
  BY Zenon, <1>5, <1>9, Reported
<1>. QED
  BY Zenon, <1>3, <1>4, <1>5, <1>7, <1>8, <1>10 DEF IInv, State

(* The completion of a search or transfer keeps the invariant.              *)
LEMMA ExternalDoneKeeps == ASSUME IInv, complete_external_dispatch PROVE IInv'
<1>1. PICK s \in work :
        /\ Op[s] # "managed" /\ ExternalCanFinish(s) /\ work' = work \ {s}
        /\ \/ /\ dispatch[s] = "dispatching"
              /\ dispatch' = [dispatch EXCEPT ![s] = "completed"]
              /\ Report(Msg("result", Runner[s], s, "none"))
           \/ UNCHANGED <<dispatch, tasks, wire, unheard>>
  BY Zenon DEF complete_external_dispatch
<1>2. CASE UNCHANGED <<dispatch, tasks, wire, unheard>>
  <2>1. Counted' /\ RequesterTyped' /\ HostTyped' /\ StepTyped'
    BY Zenon, <1>1, <1>2, CountedFrame, RequesterFrame, HostFrame
       DEF IInv, StepTyped, complete_external_dispatch
  <2>2. Promises' /\ Ledgers' /\ Halted'
    BY Zenon, <1>2 DEF IInv, State, Promises, Ledgers, StatusIsCoherent, DepsIn, Halted, Dead, reqVars,
                hostVars, complete_external_dispatch
  <2>3. Execution' /\ Grows
    BY Zenon, <1>1, <1>2 DEF IInv, State, Execution, CommittedMeansDone, Grows, Done, reqVars,
                      hostVars, complete_external_dispatch
  <2>4. Flight'
    BY Zenon, <1>2, <2>3, Kept DEF IInv, Flight
  <2>. QED
    BY Zenon, <2>1, <2>2, <2>3, <2>4 DEF IInv, State
<1>3. CASE ~UNCHANGED <<dispatch, tasks, wire, unheard>>
  <2>1. Op[s] = "transfer" => s \in receipts
    BY Zenon, <1>1 DEF ExternalCanFinish
  <2>2. worker' = worker /\ worker \in [Bound -> {"none"} \union Active \union Stopped]
    BY Zenon DEF IInv, HostTyped, complete_external_dispatch, hostVars
  <2>. QED
    BY Zenon, <1>1, <1>3, <2>1, <2>2, Completed DEF complete_external_dispatch, hostVars
<1>. QED
  BY Zenon, <1>2, <1>3
(* The rows of the Host h end, each on its own terms, and never restart.  A  *)
(* receiver that ends takes its base or worker row along, or leaves a step   *)
(* that has ended.                                                          *)
HostStops(h) ==
  /\ recv' \in [Bound -> {"none"} \union Runnable \union Terminal]
  /\ base' \in [Bound -> {"none", "accepted", "interrupted"}]
  /\ worker' \in [Bound -> {"none"} \union Active \union Stopped]
  /\ dispatch' \in [Steps -> {"none", "dispatching"} \union Terminal]
  /\ claim' \in [Steps -> {"none", "claimed", "completed", "interrupted"}]
  /\ \A g \in Bound \ {h} : recv'[g] = recv[g] /\ base'[g] = base[g] /\ worker'[g] = worker[g]
  /\ recv'[h] # recv[h] => recv[h] \in Runnable /\ recv'[h] \in Stopped
  /\ base'[h] # base[h] => base[h] = "accepted" /\ base'[h] = "interrupted"
  /\ worker'[h] # worker[h] => worker[h] \in Active /\ worker'[h] \in Stopped
  /\ \A s \in Steps : dispatch'[s] # dispatch[s]
       => /\ dispatch[s] = "dispatching" /\ dispatch'[s] \in {"failed", "interrupted"}
          /\ Runner[s] = h
  /\ \A s \in Steps : claim'[s] # claim[s] => claim[s] = "claimed" /\ claim'[s] = "interrupted"
  /\ recv'[h] # recv[h] => \/ base'[h] # "accepted" \/ worker'[h] \notin Active
                           \/ \E s \in Steps : Runner[s] = h /\ dispatch'[s] \in Stopped
  /\ work' \subseteq work /\ driving' \subseteq driving
  /\ UNCHANGED <<reviewed, review, commits, receipts, decided>>

(* Ending the work of one Host, whatever the cause, keeps the state part of *)
(* the invariant: a dispatch that ends without a result is never committed. *)
LEMMA Stops ==
  ASSUME IInv, NEW h \in Bound, HostStops(h), UNCHANGED admission,
         attempt' # attempt => attempt \in Live /\ attempt' = "interrupted",
         StatusIsCoherent', attempt # "none"
  PROVE  HostTyped' /\ StepTyped' /\ State' /\ Grows
<1>1. HostTyped' /\ StepTyped'
  BY Zenon DEF IInv, HostTyped, StepTyped, HostStops
<1>2. attempt' # "none"
  BY Zenon DEF Live
<1>3. ASSUME NEW g \in Bound
      PROVE  /\ recv[g] # "none" <=> recv'[g] # "none"
             /\ recv'[g] = recv[g] \/ recv'[g] \in Stopped
             /\ base[g] # "none" => base'[g] # "none"
             /\ worker'[g] # "none" => worker[g] # "none"
  BY DEF HostStops, Runnable, Stopped, Active
<1>4. Promises'
  BY <1>2, <1>3 DEF IInv, State, Promises, HostStops, Live, Stopped
<1>5. Ledgers'
  BY Zenon, <1>3 DEF IInv, State, Ledgers, HostStops, DepsIn, Stopped
<1>6. Grows
  <2>1. \A s \in Steps : Done(s) => Done(s)'
    BY Zenon DEF Done, HostStops
  <2>. QED
    BY Zenon, <1>3, <2>1 DEF Grows, HostStops, Live, Stopped
<1>7. CommittedMeansDone'
  BY Zenon, <1>6, CommitsKept DEF HostStops
<1>8. Execution'
  <2>1. ASSUME NEW s \in Steps
        PROVE  /\ dispatch'[s] # "none" => dispatch[s] # "none"
               /\ dispatch[s] \notin {"none", "completed"} => dispatch'[s] \notin {"none", "completed"}
               /\ dispatch'[s] = "cancelled" => dispatch[s] = "cancelled"
               /\ claim'[s] # "none" => claim[s] # "none"
               /\ claim[s] \in {"none", "interrupted"} => claim'[s] \in {"none", "interrupted"}
    BY Zenon DEF HostStops
  <2>2. \A g \in Bound : worker[g] = "cancelled" => worker'[g] = "cancelled"
    BY Zenon DEF HostStops, Active
  <2>3. decided' = decided /\ commits' = commits /\ work' \subseteq work
    BY Zenon DEF HostStops
  <2>. QED
    BY Zenon, <1>7, <2>1, <2>2, <2>3, PlanAssumption DEF IInv, State, Execution
<1>9. Halted'
  <2>. SUFFICES ASSUME NEW g \in Bound, recv'[g] \in Stopped, base'[g] = "accepted",
                       worker'[g] \in Active
                PROVE  \E s \in Steps : Runner[s] = g /\ Dead(s)'
    BY Zenon DEF Halted
  <2>1. attempt \in Stopped => attempt' \in Stopped
    BY Zenon DEF Stopped
  <2>2. \A s \in Steps : Dead(s) => Dead(s)'
    BY Zenon, <2>1 DEF Dead, HostStops, Stopped
  <2>3. CASE recv'[g] = recv[g]
    <3>1. base[g] = "accepted"
      BY Zenon DEF HostStops
    <3>2. worker[g] \in Active
      BY Zenon DEF HostStops
    <3>. QED
      BY Zenon, <2>2, <2>3, <3>1, <3>2 DEF IInv, State, Halted
  <2>4. CASE recv'[g] # recv[g]
    <3>1. g = h
      BY Zenon, <2>4 DEF HostStops
    <3>2. PICK s \in Steps : Runner[s] = h /\ dispatch'[s] \in Stopped
      BY Zenon, <2>4, <3>1 DEF HostStops
    <3>3. s \notin commits'[Requester] /\ dispatch'[s] # "none"
      BY Zenon, <1>7, <3>2 DEF CommittedMeansDone, Stopped
    <3>. QED
      BY Zenon, <3>1, <3>2, <3>3 DEF Dead
  <2>. QED
    BY Zenon, <2>3, <2>4
<1>. QED
  BY Zenon, <1>1, <1>4, <1>5, <1>6, <1>8, <1>9 DEF State
=============================================================================
