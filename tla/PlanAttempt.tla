----------------------------- MODULE PlanAttempt -----------------------------
(***************************************************************************)
(* One attempt of an approved managed Plan: native_v2_orchestration.rs on   *)
(* the requester and on every bound Host, the managed worker coordinator    *)
(* that runs a Host's Transform and Execute steps, and the Room Control     *)
(* events between them.  The requester is itself a Host when a step binds   *)
(* it; it is then driven through direct local actions of the same tasks.    *)
(*                                                                         *)
(* Every table row below is durable.  Tasks, messages, wakeups and running  *)
(* work live in one process and are lost when it restarts.                  *)
(***************************************************************************)
EXTENDS Naturals, Sequences, FiniteSets

CONSTANTS
  Requester,   \* the Host whose user approved the Plan
  Order,       \* the bound Hosts, in ORDER BY participant_ref order
  StepCount,   \* steps are numbered in authored order
  Op,          \* Op[s]: "search", "transfer" or "managed"
  Runner,      \* Runner[s]: the Host that runs s (the source of a transfer)
  Dest,        \* Dest[s]: the destination of a transfer, else Runner[s]
  Deps,        \* Deps[s]: the steps s depends on
  Answers,     \* what a readiness check may find: "ready", "unavailable"
  Mishaps,     \* the faults that may happen in this instance
  MaxMishaps,  \* bound: how many of them
  MaxClock     \* bound: seconds that may pass before the attempt starts

VARIABLES
  (* the requester's product tables *)
  clock, approvedAt, \* seconds; when the approval was made
  revision,    \* native_v2_product_revisions.state
  attempt,     \* native_v2_product_attempts.state, "none" before the start
  steps,       \* native_v2_product_steps.state, per step
  readiness,   \* native_v2_product_hosts.readiness_state, per Host
  admission,   \* native_v2_product_hosts.admission_state, per Host
  decided,     \* history: the requester once opened the commit
  (* each Host's receiver tables *)
  reviewed,    \* the Hosts that stored the review (protocol_reviews)
  review,      \* native_v2_receiver_reviews.readiness_state
  base,        \* bridge_plan_v2_attempts.state
  recv,        \* native_v2_receiver_attempts.state
  worker,      \* bridge_plan_v2_worker_attempts.state
  commits,     \* native_v2_step_commits, per Host
  (* the tables of the Host that runs a step *)
  dispatch,    \* external or worker dispatch row of the step
  claim,       \* bridge_plan_v2_managed_step_claims.state
  receipts,    \* the transfers whose destination registered the landing
  work,        \* the steps a live task is running
  (* processes and wires *)
  tasks,       \* the requester's dispatch tasks
  wire,        \* Host-to-requester events in flight
  driving,     \* the Hosts with a spawned, not yet run drive_receiver_attempt
  fresh,       \* fresh[h]: the session captured for h is still current
  expired,     \* the attempt's expires_at has passed
  mishaps,     \* faults so far
  unheard      \* history: the requester lost or refused something it awaited

planVars == <<clock, approvedAt>>
reqVars  == <<revision, attempt, steps, readiness, admission, decided>>
hostVars == <<reviewed, review, base, recv, worker, commits>>
stepVars == <<dispatch, claim, receipts, work>>
envVars  == <<fresh, expired, mishaps>>
vars == <<planVars, reqVars, hostVars, stepVars, tasks, wire, driving, envVars,
          unheard>>

Bound == {Order[i] : i \in DOMAIN Order}
Steps == 1..StepCount
Local(h) == h = Requester

(* A Plan binds Hosts and names preceding steps only as dependencies.       *)
ASSUME PlanAssumption ==
  /\ StepCount \in Nat \ {0} /\ MaxMishaps \in Nat /\ MaxClock \in Nat
  /\ Order \in Seq(Bound) /\ Answers \subseteq {"ready", "unavailable"}
  /\ Op \in [Steps -> {"search", "transfer", "managed"}]
  /\ Runner \in [Steps -> Bound] /\ Dest \in [Steps -> Bound]
  /\ Deps \in [Steps -> SUBSET Steps] /\ \A s \in Steps : Deps[s] \subseteq 1..(s - 1)

Live     == {"checking_readiness", "preparing", "running"}
Stopped  == {"failed", "interrupted", "cancelled"}
Terminal == Stopped \union {"completed"}
Runnable == {"prepared", "running"}

(***************************************************************************)
(* Tasks.  A task is a queue of events dispatched one after the other.      *)
(* "begin" is the start command, "spawned" answers an inbound event,        *)
(* "direct" is a local step result or failure, "cancel" sends cancellations.*)
(* A task whose queue is empty has failed and will end the attempt.         *)
(***************************************************************************)
Msg(kind, h, s, note) == [kind |-> kind, host |-> h, step |-> s, note |-> note]
ToAll(kind, s, note) == [i \in DOMAIN Order |-> Msg(kind, Order[i], s, note)]
Task(kind, items) == IF items = <<>> THEN {} ELSE {[kind |-> kind, items |-> items]}
mutant_errors_swallowed(t) == {}
Failed(t) == IF t.kind \in {"begin", "spawned"}
             THEN {[kind |-> t.kind, items |-> <<>>]} ELSE {}
Ready(kind) == {t \in tasks : t.items # <<>> /\ Head(t.items).kind = kind}

(* One remote Host after the other gets the review and then the readiness   *)
(* request; the requester's own readiness is one local action.              *)
Offers(a, b) == [k \in 1..(2 * (b + 1 - a)) |->
                   Msg(IF k % 2 = 1 THEN "review" ELSE "check", Order[a + (k - 1) \div 2], 0, "none")]
FirstEvents ==
  IF Requester \notin Bound THEN Offers(1, Len(Order))
  ELSE LET p == CHOOSE i \in DOMAIN Order : Local(Order[i]) IN
       Offers(1, p - 1) \o <<Msg("check", Requester, 0, "none")>> \o Offers(p + 1, Len(Order))

AllFresh == \A h \in Bound : fresh[h]
AllDone(c) == Steps \subseteq c
DepsIn(s, c) == Deps[s] \subseteq c

Init ==
  /\ clock = 0 /\ approvedAt = 0 /\ revision = "draft" /\ attempt = "none"
  /\ steps = [s \in Steps |-> "pending"]
  /\ readiness = [h \in Bound |-> "pending"] /\ admission = [h \in Bound |-> "pending"]
  /\ decided = FALSE
  /\ reviewed = {} /\ review = [h \in Bound |-> "none"]
  /\ base = [h \in Bound |-> "none"] /\ recv = [h \in Bound |-> "none"]
  /\ worker = [h \in Bound |-> "none"]
  /\ commits = [h \in Bound \union {Requester} |-> {}]
  /\ dispatch = [s \in Steps |-> "none"] /\ claim = [s \in Steps |-> "none"]
  /\ receipts = {} /\ work = {}
  /\ tasks = {} /\ wire = {} /\ driving = {}
  /\ fresh = [h \in Bound |-> TRUE] /\ expired = FALSE /\ mishaps = 0 /\ unheard = FALSE

Tick == /\ clock < MaxClock /\ attempt = "none" /\ clock' = clock + 1
        /\ UNCHANGED <<approvedAt, reqVars, hostVars, stepVars, tasks, wire, driving,
                       envVars, unheard>>

approve ==
  /\ revision = "draft" /\ revision' = "approved" /\ approvedAt' = clock
  /\ UNCHANGED <<clock, attempt, steps, readiness, admission, decided, hostVars, stepVars,
                 tasks, wire, driving, envVars, unheard>>

(* The card asks for one day from now both when it approves and when it     *)
(* starts, and an attempt may not outlive its approval.                     *)
OneDay == 2
WithinApproval == approvedAt + OneDay >= clock + OneDay

prepare_requester_attempt ==
  /\ revision = "approved" /\ attempt = "none" /\ WithinApproval
  /\ attempt' = "checking_readiness" /\ revision' = "checking_readiness"
  /\ tasks' = tasks \union Task("begin", FirstEvents)
  /\ UNCHANGED <<planVars, steps, readiness, admission, decided, hostVars, stepVars, wire,
                 driving, envVars, unheard>>

(***************************************************************************)
(* The Hosts.  An inbound event is accepted only on the session captured    *)
(* for the attempt and before its expiry.                                   *)
(***************************************************************************)
Active == {"accepted", "running", "waiting"}
HasManaged(h) == \E s \in Steps : Runner[s] = h /\ Op[s] = "managed"
ReceiptHeld(h, s) == (Op[s] = "transfer" /\ Dest[s] = h) => s \in receipts
mutant_commit_out_of_order(h, s) == recv[h] = "running" /\ ReceiptHeld(h, s)
MayCommitStep(h, s) == recv[h] = "running" /\ DepsIn(s, commits[h]) /\ ReceiptHeld(h, s)

accept_readiness_request(h) == (Local(h) \/ h \in reviewed) /\ review[h] = "none"
accept_attempt_start(h) == review[h] = "ready" /\ base[h] = "none"
accept_receiver_commit(h) == base[h] = "accepted" /\ recv[h] = "prepared"
accept_receiver_step_commit(h, s) == base[h] = "accepted" /\ MayCommitStep(h, s)
mutant_cancels_finished(h, code) ==
  /\ recv[h] # "none"
  /\ code \in {"user_cancelled", "review_delivery_failed", "coordination_delivery_failed"}
accept_receiver_cancel(h, code) ==
  /\ recv[h] \in Runnable
  /\ code \in {"user_cancelled", "review_delivery_failed", "coordination_delivery_failed"}

(* A local cancellation that finds its receiver terminal is not an error.   *)
Accepts(m) ==
  /\ fresh[m.host]
  /\ \/ /\ ~expired
        /\ \/ m.kind = "review" /\ m.host \notin reviewed
           \/ m.kind = "check" /\ accept_readiness_request(m.host)
           \/ m.kind = "start" /\ accept_attempt_start(m.host)
           \/ m.kind = "commit" /\ accept_receiver_commit(m.host)
           \/ m.kind = "step" /\ accept_receiver_step_commit(m.host, m.step)
           \/ m.kind = "cancel" /\ accept_receiver_cancel(m.host, m.note)
     \/ m.kind = "cancel" /\ Local(m.host) /\ recv[m.host] \in Terminal

Hit(f) == f \in Mishaps /\ mishaps < MaxMishaps /\ mishaps' = mishaps + 1
Unheard(lost) == unheard' = (unheard \/ (lost /\ attempt \in Live))

(* The task t moves on to items, or ends in an error of its own.            *)
Advance(t, items) == tasks' = (tasks \ {t}) \union Task(t.kind, items)
Drop(t) == /\ tasks' = (tasks \ {t}) \union Failed(t)
           /\ Unheard(t.kind = "direct")

(* send_native_v2_intent waits for the answer of a remote Host; when that    *)
(* is lost the Host has acted and the requester's task fails.               *)
Answered(t, items) ==
  \/ Advance(t, items) /\ UNCHANGED <<mishaps, unheard>>
  \/ ~Local(Head(t.items).host) /\ Hit("answer_lost") /\ Drop(t)

(* What a Host has to tell: over the wire, or at the head of the local task. *)
Reply(t, m) == IF Local(m.host)
               THEN Answered(t, <<m>> \o Tail(t.items)) /\ UNCHANGED wire
               ELSE Answered(t, Tail(t.items)) /\ wire' = wire \union {m}

DeliverReview ==
  /\ \E t \in Ready("review") :
       LET h == Head(t.items).host IN
       /\ Accepts(Head(t.items)) /\ Answered(t, Tail(t.items))
       /\ reviewed' = reviewed \union {h}
  /\ UNCHANGED <<planVars, reqVars, review, base, recv, worker, commits, stepVars, wire,
                 driving, fresh, expired>>

(* The requester's own check stores the local authority snapshot as well.   *)
DeliverCheck ==
  /\ \E t \in Ready("check"), answer \in Answers :
       LET h == Head(t.items).host IN
       /\ Accepts(Head(t.items)) /\ Reply(t, Msg("readiness", h, 0, answer))
       /\ reviewed' = reviewed \union {h} /\ review' = [review EXCEPT ![h] = answer]
  /\ UNCHANGED <<planVars, reqVars, base, recv, worker, commits, stepVars, driving, fresh,
                 expired>>

DeliverStart ==
  /\ \E t \in Ready("start") :
       LET h == Head(t.items).host IN
       /\ Accepts(Head(t.items)) /\ Reply(t, Msg("prepared", h, 0, "prepared"))
       /\ base' = [base EXCEPT ![h] = "accepted"]
       /\ recv' = [recv EXCEPT ![h] = "prepared"]
       /\ worker' = [worker EXCEPT ![h] = IF HasManaged(h) THEN "accepted" ELSE "none"]
  /\ UNCHANGED <<planVars, reqVars, reviewed, review, commits, stepVars, driving, fresh,
                 expired>>

DeliverCommit ==
  /\ \E t \in Ready("commit") :
       LET h == Head(t.items).host IN
       /\ Accepts(Head(t.items)) /\ Answered(t, Tail(t.items))
       /\ recv' = [recv EXCEPT ![h] = "running"] /\ driving' = driving \union {h}
  /\ UNCHANGED <<planVars, reqVars, reviewed, review, base, worker, commits, stepVars, wire,
                 fresh, expired>>

DeliverStepCommit ==
  /\ \E t \in Ready("step") :
       LET h == Head(t.items).host  c == commits[h] \union {Head(t.items).step} IN
       /\ Accepts(Head(t.items)) /\ Answered(t, Tail(t.items))
       /\ commits' = [commits EXCEPT ![h] = c]
       /\ recv' = IF AllDone(c) THEN [recv EXCEPT ![h] = "completed"] ELSE recv
       /\ driving' = driving \union {h}
  /\ UNCHANGED <<planVars, reqVars, reviewed, review, base, worker, stepVars, wire, fresh,
                 expired>>

(* Ending what a Host runs: rows already terminal are never touched.        *)
External(h) == {s \in Steps : Runner[s] = h /\ Op[s] # "managed"}
Managed(h)  == {s \in Steps : Runner[s] = h /\ Op[s] = "managed"}
EndDispatch(S, state) ==
  [s \in Steps |-> IF s \in S /\ dispatch[s] = "dispatching" THEN state ELSE dispatch[s]]
EndClaims(S) ==
  [s \in Steps |-> IF s \in S /\ claim[s] = "claimed" THEN "interrupted" ELSE claim[s]]
EndIf(row, h, live, state) == IF row[h] \in live THEN [row EXCEPT ![h] = state] ELSE row

(* cancel_worker_attempt refuses once the Core has completed the running    *)
(* step, and when the Host has no live worker attempt.                      *)
mutant_cancel_after_core(h) == worker[h] \in Active
cancel_worker_attempt(h) ==
  /\ worker[h] \in Active
  /\ \A s \in Managed(h) : ~(dispatch[s] = "dispatching" /\ claim[s] = "completed")

(* The receiver attempt and external dispatches are cancelled if they may   *)
(* be; the worker attempt is cancelled on its own terms.                    *)
DeliverCancel ==
  /\ \E t \in Ready("cancel") :
       LET m == Head(t.items)
           h == m.host
           all == accept_receiver_cancel(h, m.note) /\ ~expired
           live == cancel_worker_attempt(h)
           S == (IF all THEN External(h) ELSE {}) \union (IF live THEN Managed(h) ELSE {})
       IN
       /\ Accepts(m) /\ Answered(t, Tail(t.items))
       /\ recv' = IF all THEN [recv EXCEPT ![h] = "cancelled"] ELSE recv
       /\ dispatch' = EndDispatch(S, "cancelled")
       /\ worker' = IF live THEN [worker EXCEPT ![h] = "cancelled"] ELSE worker
       /\ base' = IF live THEN EndIf(base, h, {"accepted"}, "interrupted") ELSE base
       /\ claim' = IF live THEN EndClaims(Managed(h)) ELSE claim
  /\ UNCHANGED <<planVars, reqVars, reviewed, review, commits, receipts, work, wire, driving,
                 fresh, expired>>

(* The Host refuses an event, denies the admission or cannot be reached.    *)
DeliveryRefused ==
  /\ \E t \in tasks :
       /\ t.items # <<>> /\ Head(t.items).kind \in
            {"review", "check", "start", "commit", "step", "cancel"}
       /\ \/ ~Accepts(Head(t.items)) /\ UNCHANGED mishaps
          \/ Accepts(Head(t.items)) /\ ~Local(Head(t.items).host) /\ Hit("lost")
          \/ Accepts(Head(t.items)) /\ Head(t.items).kind = "start" /\ Hit("denied")
       /\ Drop(t)
  /\ UNCHANGED <<planVars, reqVars, hostVars, stepVars, wire, driving, fresh, expired>>

(***************************************************************************)
(* The requester.  What it hears comes off the wire, or from the head of a  *)
(* local task.  Answering an event spawns a task; a local task goes on.     *)
(***************************************************************************)
NoTask == [kind |-> "wire", items |-> <<>>]
Inbox(kind) == {<<NoTask, m>> : m \in {w \in wire : w.kind = kind}}
                 \union {<<t, Head(t.items)>> : t \in Ready(kind)}
Heard(e, items) ==
  IF e[1] = NoTask
  THEN wire' = wire \ {e[2]} /\ tasks' = tasks \union Task("spawned", items)
  ELSE wire' = wire /\ Advance(e[1], Tail(e[1].items) \o items)
Ignored(e) ==
  IF e[1] = NoTask
  THEN wire' = wire \ {e[2]} /\ tasks' = tasks /\ Unheard(TRUE)
  ELSE wire' = wire /\ Drop(e[1])

(* Whether this answer will open the next phase is read, and every Host's   *)
(* session revalidated, before the transaction that applies it.             *)
LastReady(h) == \A g \in Bound \ {h} : readiness[g] = "ready"
mutant_any_other_prepared(h) == \E g \in Bound \ {h} : admission[g] = "prepared"
LastPrepared(h) == \A g \in Bound \ {h} : admission[g] = "prepared"
readiness_result_will_open_preparation(h) ==
  attempt = "checking_readiness" /\ readiness[h] = "pending" /\ LastReady(h)
prepared_result_will_open_commit(h) ==
  attempt = "preparing" /\ admission[h] = "pending" /\ LastPrepared(h)
WillOpen(m) == IF m.kind = "readiness" THEN readiness_result_will_open_preparation(m.host)
               ELSE prepared_result_will_open_commit(m.host)

Prevalidate ==
  /\ \E e \in Inbox("readiness") \union Inbox("prepared") :
       LET m == e[2]
           seen == [m EXCEPT !.note = IF WillOpen(m) THEN "open" ELSE "closed"] IN
       /\ m.note \in {"ready", "prepared"}
       /\ \/ ~expired /\ (WillOpen(m) => AllFresh) /\ UNCHANGED unheard
             /\ IF e[1] = NoTask
                THEN wire' = (wire \ {m}) \union {seen} /\ tasks' = tasks
                ELSE wire' = wire /\ Advance(e[1], <<seen>> \o Tail(e[1].items))
          \/ ~(~expired /\ (WillOpen(m) => AllFresh)) /\ Ignored(e)
  /\ UNCHANGED <<planVars, reqVars, hostVars, stepVars, driving, envVars>>

ReadinessKnown(m) == m.note \in {"open", "closed", "unavailable"}
AcceptsReadiness(m) ==
  /\ ~expired /\ fresh[m.host] /\ attempt = "checking_readiness"
  /\ readiness[m.host] = "pending"

(* A Host that is not ready fails the whole Plan.  The last ready Host opens *)
(* preparation, unless the answer was judged before its rival was applied.  *)
accept_requester_readiness ==
  /\ \E e \in Inbox("readiness") :
       LET m == e[2]
           last == LastReady(m.host) IN
       /\ ReadinessKnown(m)
       /\ \/ /\ AcceptsReadiness(m) /\ m.note = "unavailable"
             /\ readiness' = [readiness EXCEPT ![m.host] = "unavailable"]
             /\ attempt' = "failed" /\ revision' = "failed"
             /\ Heard(e, <<>>) /\ UNCHANGED unheard
          \/ /\ AcceptsReadiness(m) /\ m.note # "unavailable" /\ ~last
             /\ readiness' = [readiness EXCEPT ![m.host] = "ready"]
             /\ Heard(e, <<>>) /\ UNCHANGED <<attempt, revision, unheard>>
          \/ /\ AcceptsReadiness(m) /\ m.note = "open" /\ last
             /\ readiness' = [readiness EXCEPT ![m.host] = "ready"]
             /\ attempt' = "preparing" /\ revision' = "preparing"
             /\ Heard(e, ToAll("start", 0, "none")) /\ UNCHANGED unheard
          \/ /\ ~AcceptsReadiness(m) \/ (m.note = "closed" /\ last)
             /\ Ignored(e) /\ UNCHANGED <<readiness, attempt, revision>>
  /\ UNCHANGED <<planVars, steps, admission, decided, hostVars, stepVars, driving, envVars>>

project_eligible(state) ==
  [s \in Steps |-> IF state[s] = "pending" /\ \A d \in Deps[s] : state[d] = "completed"
                   THEN "eligible" ELSE state[s]]

AcceptsPrepared(m) ==
  /\ ~expired /\ fresh[m.host] /\ attempt = "preparing" /\ admission[m.host] = "pending"

accept_requester_prepared ==
  /\ \E e \in Inbox("prepared") :
       LET m == e[2]
           last == LastPrepared(m.host) IN
       /\ m.note \in {"open", "closed"}
       /\ \/ /\ AcceptsPrepared(m) /\ ~last
             /\ admission' = [admission EXCEPT ![m.host] = "prepared"]
             /\ Heard(e, <<>>) /\ UNCHANGED <<attempt, revision, steps, decided, unheard>>
          \/ /\ AcceptsPrepared(m) /\ last /\ m.note = "open"
             /\ admission' = [h \in Bound |-> "committed"]
             /\ attempt' = "running" /\ revision' = "running" /\ decided' = TRUE
             /\ steps' = project_eligible(steps)
             /\ Heard(e, ToAll("commit", 0, "none")) /\ UNCHANGED unheard
          \/ /\ ~AcceptsPrepared(m) \/ (last /\ m.note = "closed")
             /\ Ignored(e) /\ UNCHANGED <<admission, attempt, revision, steps, decided>>
  /\ UNCHANGED <<planVars, readiness, hostVars, stepVars, driving, envVars>>

(* A result that binds the requester's own Host must also pass the checks    *)
(* of that Host's receiver before the requester commits it.                 *)
BindsRequester(s) == Requester \in Bound /\ Requester \in {Runner[s], Dest[s]}
AcceptsResult(m) ==
  /\ AllFresh /\ ~expired /\ attempt = "running"
  /\ \A d \in Deps[m.step] : steps[d] = "completed"
  /\ BindsRequester(m.step) => MayCommitStep(Requester, m.step)
  /\ m.step \notin commits[Requester] /\ steps[m.step] \in {"pending", "eligible"}

accept_requester_step_result ==
  /\ \E e \in Inbox("result") :
       LET s == e[2].step
           done == [steps EXCEPT ![s] = "completed"]
           complete == \A r \in Steps : done[r] = "completed" IN
       \/ /\ AcceptsResult(e[2])
          /\ commits' = [commits EXCEPT ![Requester] = @ \union {s}]
          /\ steps' = IF complete THEN done ELSE project_eligible(done)
          /\ attempt' = IF complete THEN "completed" ELSE attempt
          /\ revision' = IF complete THEN "completed" ELSE revision
          /\ Heard(e, ToAll("step", s, "none")) /\ UNCHANGED unheard
       \/ /\ ~AcceptsResult(e[2]) /\ Ignored(e)
          /\ UNCHANGED <<commits, steps, attempt, revision>>
  /\ UNCHANGED <<planVars, readiness, admission, decided, reviewed, review, base, recv,
                 worker, stepVars, driving, envVars>>

(* Ending the attempt needs every Host's session to be current.             *)
MayTerminate == attempt \in Live /\ AllFresh
mutant_revision_left_live(state) ==
  /\ attempt' = state /\ UNCHANGED revision
  /\ steps' = [s \in Steps |-> IF steps[s] = "completed" THEN "completed" ELSE state]
  /\ admission' = [h \in Bound |-> "cancelled"]
terminate_requester_attempt(state) ==
  /\ attempt' = state /\ revision' = state
  /\ steps' = [s \in Steps |-> IF steps[s] = "completed" THEN "completed" ELSE state]
  /\ admission' = [h \in Bound |-> "cancelled"]

accept_requester_step_failure ==
  /\ \E e \in Inbox("failure") :
       LET ok == MayTerminate /\ (e[1] = NoTask => ~expired) IN
       \/ /\ ok /\ terminate_requester_attempt("failed")
          /\ Heard(e, ToAll("cancel", 0, "external_step_failed")) /\ UNCHANGED unheard
       \/ /\ ~ok /\ Ignored(e) /\ UNCHANGED <<attempt, revision, steps, admission>>
  /\ UNCHANGED <<planVars, readiness, decided, hostVars, stepVars, driving, envVars>>

(* A start or spawned task whose dispatch failed ends the attempt.          *)
spawn_native_v2_events ==
  /\ \E t \in tasks :
       LET code == IF t.kind = "begin" THEN "review_delivery_failed"
                   ELSE "coordination_delivery_failed" IN
       /\ t.items = <<>>
       /\ \/ /\ MayTerminate /\ terminate_requester_attempt("interrupted")
             /\ tasks' = (tasks \ {t}) \union Task("cancel", ToAll("cancel", 0, code))
             /\ UNCHANGED unheard
          \/ /\ ~MayTerminate /\ tasks' = tasks \ {t} /\ Unheard(TRUE)
             /\ UNCHANGED <<attempt, revision, steps, admission>>
  /\ UNCHANGED <<planVars, readiness, decided, hostVars, stepVars, wire, driving, envVars>>

cancel_native_v2_product_attempt ==
  /\ MayTerminate /\ terminate_requester_attempt("cancelled")
  /\ tasks' = tasks \union Task("cancel", ToAll("cancel", 0, "user_cancelled"))
  /\ UNCHANGED <<planVars, readiness, decided, hostVars, stepVars, wire, driving, envVars,
                 unheard>>

(***************************************************************************)
(* Running steps.  A drive looks for the first step that is neither         *)
(* committed nor waiting, and leaves when another Host runs it.             *)
(***************************************************************************)
Eligible(h) == {s \in Steps : s \notin commits[h] /\ DepsIn(s, commits[h])}
FirstEligible(h) == CHOOSE s \in Eligible(h) : \A r \in Eligible(h) : s <= r

(* Each step has one dispatch row, so it is started at most once; a search   *)
(* or transfer needs a running receiver, a managed step a live worker.      *)
mutant_reserve_when_stopped(h, s) == dispatch[s] = "none"
reserve_external_dispatch(h, s) == recv[h] = "running" /\ dispatch[s] = "none"
reserve_next_dispatch(h, s) == /\ worker[h] \in Active /\ claim[s] # "completed"
                               /\ dispatch[s] = "none"
CanDrive(h) ==
  /\ base[h] = "accepted" /\ Eligible(h) # {} /\ Runner[FirstEligible(h)] = h
  /\ IF Op[FirstEligible(h)] = "managed" THEN reserve_next_dispatch(h, FirstEligible(h))
     ELSE reserve_external_dispatch(h, FirstEligible(h))

drive_receiver_attempt ==
  /\ \E h \in driving :
       /\ driving' = driving \ {h}
       /\ \/ /\ ~CanDrive(h) /\ UNCHANGED <<dispatch, work, worker>>
          \/ /\ CanDrive(h)
             /\ LET s == FirstEligible(h) IN
                /\ dispatch' = [dispatch EXCEPT ![s] = "dispatching"]
                /\ work' = work \union {s}
                /\ worker' = IF Op[s] = "managed" THEN [worker EXCEPT ![h] = "running"]
                             ELSE worker
  /\ UNCHANGED <<planVars, reqVars, reviewed, review, base, recv, commits, claim, receipts,
                 tasks, wire, envVars, unheard>>

(* A Host reports on its captured session only; its own requester is told    *)
(* directly, and nobody handles an error of that telling.                   *)
Report(m) ==
  IF ~fresh[m.host] THEN UNCHANGED <<tasks, wire>> /\ Unheard(TRUE)
  ELSE IF Local(m.host)
  THEN tasks' = tasks \union Task("direct", <<m>>) /\ UNCHANGED <<wire, unheard>>
  ELSE wire' = wire \union {m} /\ UNCHANGED <<tasks, unheard>>

(* A failure is reported only while the base attempt is still accepted.     *)
ReportFailure(h, s, accepted) ==
  IF accepted THEN Report(Msg("failure", h, s, "none"))
  ELSE UNCHANGED <<tasks, wire>> /\ Unheard(TRUE)

validate_transfer_landing(s) ==
  LET d == Dest[s] IN
  /\ base[d] = "accepted" /\ ~expired /\ fresh[d] /\ fresh[Runner[s]]
  /\ DepsIn(s, commits[d]) /\ s \notin commits[d]

register_transfer_landing ==
  /\ \E s \in work : /\ Op[s] = "transfer" /\ s \notin receipts
                     /\ validate_transfer_landing(s) /\ receipts' = receipts \union {s}
  /\ UNCHANGED <<planVars, reqVars, hostVars, dispatch, claim, work, tasks, wire, driving,
                 envVars, unheard>>

(* A search is over when it has found its one file, a transfer when the      *)
(* destination has registered it.  A dispatch that was ended meanwhile      *)
(* reports nothing.                                                         *)
mutant_sent_means_received(s) == base[Runner[s]] = "accepted"
ExternalCanFinish(s) == IF Op[s] = "search" THEN base[Runner[s]] = "accepted"
                        ELSE s \in receipts
complete_external_dispatch ==
  /\ \E s \in work :
       /\ Op[s] # "managed" /\ ExternalCanFinish(s) /\ work' = work \ {s}
       /\ \/ /\ dispatch[s] = "dispatching"
             /\ dispatch' = [dispatch EXCEPT ![s] = "completed"]
             /\ Report(Msg("result", Runner[s], s, "none"))
          \/ dispatch[s] # "dispatching" /\ UNCHANGED <<dispatch, tasks, wire, unheard>>
  /\ UNCHANGED <<planVars, reqVars, hostVars, claim, receipts, driving, envVars>>

(* A search that finds nothing, a transfer the peer refuses or that is       *)
(* cancelled: the receiver fails and tells the requester.                   *)
fail_receiver_external ==
  /\ \E s \in work :
       LET h == Runner[s]
           stuck == ~ExternalCanFinish(s)
                    /\ (Op[s] = "transfer" => ~validate_transfer_landing(s)
                                              \/ dispatch[s] # "dispatching") IN
       /\ Op[s] # "managed"
       /\ (stuck /\ UNCHANGED mishaps) \/ (~stuck /\ Hit("step_fails"))
       /\ work' = work \ {s} /\ dispatch' = EndDispatch({s}, "failed")
       /\ recv' = EndIf(recv, h, {"running"}, "failed")
       /\ ReportFailure(h, s, base[h] = "accepted")
  /\ UNCHANGED <<planVars, reqVars, reviewed, review, base, worker, commits, claim, receipts,
                 driving, fresh, expired>>

(* The worker takes its claim, the Core completes it, the worker's dispatch  *)
(* is completed after the Core.                                             *)
LiveWorker(h) == worker[h] = "running" /\ base[h] = "accepted" /\ fresh[h] /\ ~expired
claim_v2_managed_step ==
  /\ \E s \in work : /\ Op[s] = "managed" /\ claim[s] = "none" /\ LiveWorker(Runner[s])
                     /\ claim' = [claim EXCEPT ![s] = "claimed"]
  /\ UNCHANGED <<planVars, reqVars, hostVars, dispatch, receipts, work, tasks, wire, driving,
                 envVars, unheard>>

CanFinalize(s) == LET h == Runner[s] IN
  claim[s] = "claimed" /\ base[h] = "accepted" /\ fresh[h] /\ ~expired
finalize_v2 ==
  /\ \E s \in work : /\ Op[s] = "managed" /\ CanFinalize(s)
                     /\ claim' = [claim EXCEPT ![s] = "completed"]
  /\ UNCHANGED <<planVars, reqVars, hostVars, dispatch, receipts, work, tasks, wire, driving,
                 envVars, unheard>>

(* finish_worker_failure, then the notification.                            *)
FailWorker(h, s, state) ==
  /\ worker' = EndIf(worker, h, Active, state)
  /\ dispatch' = IF worker[h] \in Active THEN EndDispatch({s}, state) ELSE dispatch
  /\ base' = IF worker[h] \in Active THEN EndIf(base, h, {"accepted"}, "interrupted") ELSE base
  /\ recv' = IF worker[h] \in Active THEN EndIf(recv, h, Runnable, state) ELSE recv
  /\ ReportFailure(h, s, base'[h] = "accepted")

complete_dispatch_after_core ==
  /\ \E s \in work :
       LET h == Runner[s] IN
       /\ Op[s] = "managed" /\ claim[s] = "completed" /\ work' = work \ {s}
       /\ \/ /\ dispatch[s] = "dispatching" /\ base[h] = "accepted"
             /\ dispatch' = [dispatch EXCEPT ![s] = "completed"]
             /\ worker' = EndIf(worker, h, {"running"}, "waiting")
             /\ Report(Msg("result", h, s, "none")) /\ UNCHANGED <<base, recv>>
          \/ ~(dispatch[s] = "dispatching" /\ base[h] = "accepted")
             /\ FailWorker(h, s, "interrupted")
  /\ UNCHANGED <<planVars, reqVars, reviewed, review, commits, claim, receipts, driving,
                 envVars>>

WorkerFails ==
  /\ \E s \in work :
       LET h == Runner[s]
           stuck == ~(claim[s] = "none" /\ LiveWorker(h)) /\ ~CanFinalize(s) IN
       /\ Op[s] = "managed" /\ claim[s] # "completed" /\ work' = work \ {s}
       /\ (stuck /\ UNCHANGED mishaps) \/ (~stuck /\ Hit("step_fails"))
       /\ claim' = EndClaims({s})
       /\ \/ /\ worker[h] # "cancelled"
             /\ FailWorker(h, s, IF fresh[h] THEN "failed" ELSE "interrupted")
          \/ /\ worker[h] = "cancelled"
             /\ UNCHANGED <<worker, dispatch, base, recv, tasks, wire, unheard>>
  /\ UNCHANGED <<planVars, reqVars, reviewed, review, commits, receipts, driving, fresh,
                 expired>>

(***************************************************************************)
(* Faults and the Host's own interventions.                                 *)
(***************************************************************************)
MyWork(h) == {s \in work : Runner[s] = h}
MySteps(h) == {s \in Steps : Runner[s] = h}
Cut(h) == IF Local(h) THEN [g \in Bound |-> FALSE] ELSE [fresh EXCEPT ![h] = FALSE]
InterruptRequester(h, alsoSteps) ==
  LET stop == Local(h) /\ attempt \in Live IN
  /\ attempt' = IF stop THEN "interrupted" ELSE attempt
  /\ revision' = IF stop THEN "interrupted" ELSE revision
  /\ steps' = IF Local(h) /\ alsoSteps /\ attempt # "none"
              THEN [s \in Steps |-> IF steps[s] \in {"pending", "eligible"} THEN "interrupted"
                                    ELSE steps[s]]
              ELSE steps
InterruptHost(h, S) ==
  /\ recv' = EndIf(recv, h, Runnable, "interrupted")
  /\ base' = EndIf(base, h, {"accepted"}, "interrupted")
  /\ worker' = EndIf(worker, h, Active, "interrupted")
  /\ dispatch' = EndDispatch(S, "interrupted") /\ claim' = EndClaims(Managed(h))

(* A Burn or a cleared route ends everything of the Bridge on that Host.    *)
purge_room(h) ==
  /\ Hit("purge") /\ attempt # "none"
  /\ InterruptRequester(h, TRUE) /\ InterruptHost(h, MySteps(h))
  /\ fresh' = Cut(h) /\ Unheard(~Local(h))
  /\ UNCHANGED <<planVars, readiness, admission, decided, reviewed, review, commits, receipts,
                 work, tasks, wire, driving, expired>>

(* The process is gone with its tasks, drives and running work.  A clean     *)
(* shutdown interrupts what a purge does; a crash leaves it to the startup   *)
(* reconciliation, which leaves product steps and external dispatches.      *)
Restart(h) ==
  /\ Hit("restart") /\ attempt # "none"
  /\ \E clean \in BOOLEAN :
       /\ InterruptRequester(h, clean)
       /\ InterruptHost(h, IF clean THEN MySteps(h) ELSE Managed(h))
  /\ fresh' \in {Cut(h)} \union (IF Local(h) THEN {} ELSE {fresh})
  /\ work' = work \ MySteps(h) /\ driving' = driving \ {h}
  /\ tasks' = IF Local(h) THEN {} ELSE tasks
  /\ wire' \in (IF Local(h) THEN {{}} ELSE {wire, {m \in wire : m.host # h}})
  /\ Unheard(~Local(h))
  /\ UNCHANGED <<planVars, readiness, admission, decided, reviewed, review, commits, receipts,
                 expired>>

delete_worker_provider_config(h) ==
  /\ Hit("provider") /\ worker[h] \in Active
  /\ InterruptHost(h, Managed(h)) /\ ReportFailure(h, 0, base'[h] = "accepted")
  /\ UNCHANGED <<planVars, reqVars, reviewed, review, commits, receipts, work, driving, fresh,
                 expired>>

SessionReplaced(h) ==
  /\ Hit("session") /\ ~Local(h) /\ fresh[h] /\ attempt # "none"
  /\ fresh' = [fresh EXCEPT ![h] = FALSE]
  /\ UNCHANGED <<planVars, reqVars, hostVars, stepVars, tasks, wire, driving, expired, unheard>>

Expire ==
  /\ Hit("expiry") /\ ~expired /\ attempt # "none" /\ expired' = TRUE
  /\ UNCHANGED <<planVars, reqVars, hostVars, stepVars, tasks, wire, driving, fresh, unheard>>

(* Nobody resends a reply or a result.                                      *)
LoseMessage ==
  /\ Hit("lost") /\ \E m \in wire : wire' = wire \ {m}
  /\ Unheard(TRUE)
  /\ UNCHANGED <<planVars, reqVars, hostVars, stepVars, tasks, driving, fresh, expired>>

User == Tick \/ approve \/ prepare_requester_attempt \/ cancel_native_v2_product_attempt
System ==
  \/ DeliverReview \/ DeliverCheck \/ DeliverStart \/ DeliverCommit \/ DeliverStepCommit
  \/ DeliverCancel \/ DeliveryRefused \/ Prevalidate \/ accept_requester_readiness
  \/ accept_requester_prepared \/ accept_requester_step_result
  \/ accept_requester_step_failure \/ spawn_native_v2_events \/ drive_receiver_attempt
  \/ register_transfer_landing \/ complete_external_dispatch \/ fail_receiver_external
  \/ claim_v2_managed_step \/ finalize_v2 \/ complete_dispatch_after_core \/ WorkerFails
Environment ==
  \/ Expire \/ LoseMessage
  \/ \E h \in Bound : \/ purge_room(h) \/ Restart(h) \/ delete_worker_provider_config(h)
                      \/ SessionReplaced(h)
Next == User \/ System \/ Environment
Spec == Init /\ [][Next]_vars

(* Every task, message, drive and running step always has a next step, so    *)
(* this is ENABLED System.  The runtime polls each spawned task.            *)
Pending == tasks # {} \/ wire # {} \/ driving # {} \/ work # {}
Fairness == []<>~Pending \/ []<><<System>>_vars
LiveSpec == Spec /\ Fairness

-----------------------------------------------------------------------------
TypeOK ==
  /\ clock \in 0..MaxClock /\ approvedAt \in 0..MaxClock
  /\ attempt \in {"none"} \union Live \union Terminal
  /\ revision \in {"draft", "approved"} \union Live \union Terminal
  /\ steps \in [Steps -> {"pending", "eligible"} \union Terminal]
  /\ readiness \in [Bound -> {"pending", "ready", "unavailable"}]
  /\ admission \in [Bound -> {"pending", "prepared", "committed", "cancelled"}]
  /\ reviewed \subseteq Bound /\ review \in [Bound -> {"none", "ready", "unavailable"}]
  /\ base \in [Bound -> {"none", "accepted", "interrupted"}]
  /\ recv \in [Bound -> {"none"} \union Runnable \union Terminal]
  /\ worker \in [Bound -> {"none"} \union Active \union Stopped]
  /\ commits \in [Bound \union {Requester} -> SUBSET Steps]
  /\ dispatch \in [Steps -> {"none", "dispatching"} \union Terminal]
  /\ claim \in [Steps -> {"none", "claimed", "completed", "interrupted"}]
  /\ receipts \subseteq Steps /\ work \subseteq Steps /\ driving \subseteq Bound
  /\ fresh \in [Bound -> BOOLEAN] /\ {decided, expired, unheard} \subseteq BOOLEAN
  /\ mishaps \in 0..MaxMishaps

(* No Host's ledger of committed steps runs ahead of the requester's, every  *)
(* ledger is closed under dependencies, and a Host that finished belongs to  *)
(* an attempt that finished (accept_receiver_step_commit).                  *)
LedgersAgree ==
  /\ \A h \in Bound : /\ commits[h] \subseteq commits[Requester]
                      /\ \A s \in commits[h] : DepsIn(s, commits[h])
                      /\ recv[h] = "completed" => attempt = "completed"

(* What the requester has committed was really done: the one dispatch of the *)
(* step completed, the Core completed its claim, and a transfer's           *)
(* destination holds the receipt (accept_requester_step_result).            *)
CommittedMeansDone ==
  \A s \in commits[Requester] : /\ dispatch[s] = "completed"
                                /\ Op[s] = "managed" => claim[s] = "completed"
                                /\ Op[s] = "transfer" => s \in receipts

(* The revision card shows the state of its attempt, and the attempt is      *)
(* completed exactly when every step of it is (terminate_requester_attempt, *)
(* accept_requester_step_result, the interruptions).                        *)
StatusIsCoherent ==
  /\ attempt # "none" => revision = attempt
  /\ attempt = "completed" <=> \A s \in Steps : steps[s] = "completed"
  /\ \A s \in Steps : steps[s] = "completed" <=> s \in commits[Requester]

(* A cancellation never turns a managed step the Core has completed into a   *)
(* cancelled one (cancel_worker_attempt).                                   *)
CoreCompletionSurvivesCancel ==
  \A s \in Steps : claim[s] = "completed" => dispatch[s] # "cancelled"

(* Terminal rows of the requester, the receivers, the dispatches and the     *)
(* claims never change again, whatever late event or restart follows.       *)
TerminalIsFinal ==
  [][/\ attempt \in Terminal => attempt' = attempt
     /\ \A h \in Bound : recv[h] \in Terminal => recv'[h] = recv[h]
     /\ \A s \in Steps : /\ dispatch[s] \in Terminal => dispatch'[s] = dispatch[s]
                         /\ claim[s] \in Terminal => claim'[s] = claim[s]]_vars

(* A step starts on a Host only while that Host's receiver attempt runs: not *)
(* before the commit, and not after a failure, cancellation or interruption *)
(* that a drive already under way has not heard of (drive_receiver_attempt).*)
StartsOnlyWhileRunning ==
  [][\A s \in Steps : dispatch[s] = "none" /\ dispatch'[s] # "none"
                        => recv[Runner[s]] = "running" /\ base[Runner[s]] = "accepted"]_vars

(* A started attempt ends, unless the requester lost, refused or was never   *)
(* sent something it was waiting for: no timeout ends it then.              *)
EndsUnlessUnheard == attempt \in Live ~> (attempt \in Terminal \/ unheard)

(* When nothing is under way any more and a Host of a committed attempt has  *)
(* failed or was interrupted, the requester's attempt is terminal as well   *)
(* (notify_coordinated_failure).                                            *)
FailureReachesRequester ==
  (decided /\ ~Pending /\ \E h \in Bound : recv[h] \in {"failed", "interrupted"}) => attempt \in Terminal

(* The attempt implements the ledger every Host is promised.                *)
Ledger == INSTANCE PlanLedger WITH
  Hosts <- Bound,
  phase <- IF attempt = "none" THEN "idle"
           ELSE IF attempt \in {"checking_readiness", "preparing"} THEN "voting"
           ELSE IF attempt \in Stopped THEN "stopped" ELSE attempt,
  promised <- {h \in Bound : recv[h] # "none"},
  started <- {s \in Steps : dispatch[s] # "none"},
  recorded <- commits[Requester]
ImplementsLedger == Ledger!Spec
=============================================================================
