------------------------------ MODULE NativeTask ------------------------------
(***************************************************************************)
(* The life of a started native task on one Host: NativeAgentServiceV1 in  *)
(* native_agent.rs.  Service handlers run one at a time under the          *)
(* native_agents lock.  Every started task also has an observer thread,    *)
(* which takes only the tasks lock and the database, so its steps fall     *)
(* between any two steps of a handler.  persist_envelope reads the status  *)
(* and writes the row in two steps for that reason.                        *)
(*                                                                         *)
(* A resource is what an adapter's prepare names: an exclusivity key and   *)
(* the canonical folder that goes with it.  Overlaps relates resources     *)
(* whose folders are the same, or one inside the other.  The turns of a    *)
(* resource in Outliving (a Claude Code session) survive Pastey; all other *)
(* turns (Codex) are Pastey's children.                                    *)
(*                                                                         *)
(* Task ids are minted for one invocation, so an id whose Bridge was       *)
(* purged does not come back.  Tasks held for Review are in                *)
(* InvocationAdmission; workspace movement is in ReturnApply.              *)
(***************************************************************************)
EXTENDS Naturals, FiniteSets

CONSTANTS Tasks, Bridges, Resources,
          Local,        \* the owner of a task without a Bridge
          NoTask, NoResource,
          Overlaps,     \* pairs of resources whose folders overlap
          Outliving,    \* native_execution_ends_with_pastey() is false
          MaxCrashes, MaxFaults

ASSUME OverlapsAssumption ==
    /\ Overlaps \subseteq Resources \X Resources
    /\ \A r \in Resources : <<r, r>> \in Overlaps
    /\ \A p \in Overlaps : <<p[2], p[1]>> \in Overlaps

ASSUME ConstantsAssumption ==
    /\ Local \notin Bridges
    /\ NoTask \notin Tasks
    /\ NoResource \notin Resources
    /\ Outliving \subseteq Resources
    /\ MaxCrashes \in Nat
    /\ MaxFaults \in Nat

VARIABLES
    tasks,      \* tasks: the visible status; Absent when there is none
    bridge,     \* task_bridges
    res,        \* task_workspaces and task_exclusivity
    active,     \* active_exclusivity
    observed,   \* observed_tasks
    revoked,    \* revoked_bridges
    env,        \* native_agent_envelopes, durable
    burned,     \* tombstones of burned Bridges, durable
    runs,       \* the observer thread of each task
    svc,        \* the handler that holds the native_agents lock
    native,     \* the native turns that are really running
    mode,       \* "up", "closing" after shutdown, "down"
    purged,     \* ids whose Bridge was purged
    crashes, faults

mem == <<tasks, bridge, res, active, observed, revoked>>
vars == <<mem, env, burned, runs, svc, native, mode, purged, crashes, faults>>

Status(state, code) == [state |-> state, code |-> code]
Absent == Status("absent", "none")
Cancelled(code) == Status("cancelled", code)

NativeAgentTaskStateV1 ==
    {"running", "completed", "failed", "interrupted", "cancelled"}

Statuses ==
    {Absent, Status("running", "none"), Status("completed", "none")}
      \cup {Status("failed", c) :
              c \in {"failed", "start_failed", "interrupted_on_restart"}}
      \cup {Status("interrupted", c) :
              c \in {"interrupted", "outcome_unknown",
                     "reconciliation_required"}}
      \cup {Cancelled(c) :
              c \in {"cancelled", "cancel_requested",
                     "cancel_delivery_uncertain", "authority_revoked"}}

NativeTurnOutcomeV1 ==
    {"completed", "failed", "interrupted", "cancelled", "unknown",
     "not_started"}

Envelope(status, owner, r) == [status |-> status, bridge |-> owner, res |-> r]
NoEnvelope == Envelope(Absent, Local, NoResource)

\* held_key and the local variables of the observer thread.
Run(phase, key, outcome, snap) ==
    [phase |-> phase, key |-> key, outcome |-> outcome, snap |-> snap]
NoRun == Run("none", NoResource, "none", Absent)

Handler(todo, reading, snap, then, subject) ==
    [todo |-> todo, reading |-> reading, snap |-> snap,
     then |-> then, subject |-> subject]
Idle == Handler({}, NoTask, Absent, "return", NoTask)

Turn(t, r) == [task |-> t, res |-> r]
RunIsLive(t) == Turn(t, runs[t].key) \in native

Init ==
    /\ tasks = [t \in Tasks |-> Absent]
    /\ bridge = [t \in Tasks |-> Local]
    /\ res = [t \in Tasks |-> NoResource]
    /\ active = {}
    /\ observed = {}
    /\ revoked = {}
    /\ env = [t \in Tasks |-> NoEnvelope]
    /\ burned = {}
    /\ runs = [t \in Tasks |-> NoRun]
    /\ svc = Idle
    /\ native = {}
    /\ mode = "up"
    /\ purged = {}
    /\ crashes = 0
    /\ faults = 0

Ready == mode = "up" /\ svc = Idle

CountFault == faults < MaxFaults /\ faults' = faults + 1

(***************************************************************************)
(* Occupancy                                                               *)
(***************************************************************************)
uncertain(status) ==
    /\ status.state = "interrupted"
    /\ status.code \in {"outcome_unknown", "reconciliation_required"}

\* The caller is refused when this holds.
invocation_has_authoritative_owner(r) ==
    \/ r \in active
    \/ \E t \in Tasks :
          /\ tasks[t] # Absent
          /\ t \in observed \/ uncertain(tasks[t])
          /\ <<res[t], r>> \in Overlaps

(***************************************************************************)
(* Starting                                                                *)
(***************************************************************************)
mutant_start_checks_exact_folder(t, owner, r) ==
    /\ Ready
    /\ tasks[t] = Absent
    /\ t \notin purged
    /\ owner \notin revoked \cup burned
    /\ r \in Outliving => owner = Local
    /\ r \notin active
    /\ tasks' = [tasks EXCEPT ![t] = Status("running", "none")]
    /\ bridge' = [bridge EXCEPT ![t] = owner]
    /\ res' = [res EXCEPT ![t] = r]

mutant_restart_uncertain_task(t, owner, r) ==
    /\ Ready
    /\ tasks[t] = Absent \/ uncertain(tasks[t])
    /\ t \notin purged
    /\ owner \notin revoked \cup burned
    /\ r \in Outliving => owner = Local
    /\ r \notin active
    /\ tasks' = [tasks EXCEPT ![t] = Status("running", "none")]
    /\ bridge' = [bridge EXCEPT ![t] = owner]
    /\ res' = [res EXCEPT ![t] = r]

\* The part of a start that comes before its envelope is written.  The
\* adapter's start launches nothing; that is the observer's run.
start_invocation(t, owner, r) ==
    /\ Ready
    /\ tasks[t] = Absent
    /\ t \notin purged
    /\ owner \notin revoked \cup burned
    /\ r \in Outliving => owner = Local
    /\ ~invocation_has_authoritative_owner(r)
    /\ tasks' = [tasks EXCEPT ![t] = Status("running", "none")]
    /\ bridge' = [bridge EXCEPT ![t] = owner]
    /\ res' = [res EXCEPT ![t] = r]

\* The envelope is written and the observer spawned.
StartObserved(t, owner, r) ==
    /\ start_invocation(t, owner, r)
    /\ env' = [env EXCEPT ![t] =
                 Envelope(Status("running", "none"), owner, r)]
    /\ active' = active \cup {r}
    /\ observed' = observed \cup {t}
    /\ runs' = [runs EXCEPT ![t] = Run("starting", r, "none", Absent)]
    /\ UNCHANGED <<revoked, burned, svc, native, mode, purged, crashes,
                   faults>>

\* persist_envelope fails: the error is returned and the run dropped, while
\* the task stays Running in memory, without an observer.
StartUnrecorded(t, owner, r) ==
    /\ start_invocation(t, owner, r)
    /\ CountFault
    /\ UNCHANGED <<active, observed, revoked, env, burned, runs, svc, native,
                   mode, purged, crashes>>

(***************************************************************************)
(* The observer thread of a task                                           *)
(***************************************************************************)
Phase(t, from, to) ==
    /\ mode # "down"
    /\ runs[t].phase = from
    /\ runs' = [runs EXCEPT ![t].phase = to]

Ends(t, from, outcome) ==
    /\ mode # "down"
    /\ runs[t].phase = from
    /\ runs' = [runs EXCEPT ![t] =
                  Run("ended", runs[t].key, outcome, Absent)]

\* run.run launches the native turn.  After shutdown a Codex session that is
\* still opening is stopped before any turn is sent.
Launch(t) ==
    /\ Phase(t, "starting", "running")
    /\ mode = "up" \/ runs[t].key \in Outliving
    /\ native' = native \cup {Turn(t, runs[t].key)}
    /\ UNCHANGED <<mem, env, burned, svc, mode, purged, crashes, faults>>

LaunchRefused(t) ==
    /\ \E outcome \in {"not_started", "failed", "cancelled"} :
          Ends(t, "starting", outcome)
    /\ UNCHANGED <<mem, env, burned, svc, native, mode, purged, crashes,
                   faults>>

\* What an adapter's run may return: a definite outcome only once the turn
\* has ended, and Unknown at any time.
TurnReported(t) ==
    /\ \E outcome \in NativeTurnOutcomeV1 \ {"not_started"} :
          /\ RunIsLive(t) => outcome = "unknown"
          /\ Ends(t, "running", outcome)
    /\ UNCHANGED <<mem, env, burned, svc, native, mode, purged, crashes,
                   faults>>

\* The native turn itself ends, whoever is watching.
NativeTurnEnds(turn) ==
    /\ turn \in native
    /\ native' = native \ {turn}
    /\ UNCHANGED <<mem, env, burned, runs, svc, mode, purged, crashes,
                   faults>>

mutant_completion_wins(status, outcome) ==
    IF outcome = "completed" THEN Status("completed", "none")
    ELSE IF status.state = "cancelled" THEN status
    ELSE Status("interrupted", "outcome_unknown")

mutant_outcome_code(status, outcome) ==
    IF status.state = "cancelled" THEN status
    ELSE Status("failed", outcome)

\* The status an outcome leaves.  Cancellation wins over a late outcome.
recorded_status(status, outcome) ==
    IF status.state = "cancelled"
    THEN CASE outcome = "cancelled" -> Cancelled("cancelled")
           [] outcome = "unknown" /\ status.code = "cancel_requested" ->
                Cancelled("cancel_delivery_uncertain")
           [] OTHER -> status
    ELSE CASE outcome = "completed" -> Status("completed", "none")
           [] outcome = "failed" -> Status("failed", "failed")
           [] outcome = "interrupted" -> Status("interrupted", "interrupted")
           [] outcome = "cancelled" -> Cancelled("cancelled")
           [] outcome = "unknown" -> Status("interrupted", "outcome_unknown")
           [] outcome = "not_started" -> Status("failed", "start_failed")

\* Under the tasks lock.  A task that is gone (Burn) records nothing.
RecordOutcome(t) ==
    LET status == IF tasks[t] = Absent THEN Absent
                  ELSE recorded_status(tasks[t], runs[t].outcome)
    IN  /\ mode # "down"
        /\ runs[t].phase = "ended"
        /\ tasks' = [tasks EXCEPT ![t] = status]
        /\ runs' = [runs EXCEPT ![t] =
                      Run("recorded", runs[t].key, runs[t].outcome, status)]
        /\ UNCHANGED <<bridge, res, active, observed, revoked, env, burned,
                       svc, native, mode, purged, crashes, faults>>

mutant_observer_recreates_envelope(t) ==
    IF runs[t].snap = Absent THEN env
    ELSE [env EXCEPT ![t] = Envelope(runs[t].snap, bridge[t], runs[t].key)]

\* update_native_agent_observed_task_if_present: an immediate transaction
\* replaces the task in a row that still exists.
persist_task_status_after_native_turn(t) ==
    IF runs[t].snap = Absent \/ env[t].status = Absent THEN env
    ELSE [env EXCEPT ![t].status = runs[t].snap]

PersistOutcome(t) ==
    /\ Phase(t, "recorded", "persisted")
    /\ env' = persist_task_status_after_native_turn(t)
    /\ UNCHANGED <<mem, burned, svc, native, mode, purged, crashes, faults>>

\* The observer ignores an error of that write.
PersistOutcomeFails(t) ==
    /\ Phase(t, "recorded", "persisted")
    /\ CountFault
    /\ UNCHANGED <<mem, env, burned, svc, native, mode, purged, crashes>>

mutant_not_waiting(t) == TRUE

\* wait_until_observation_lost after an unknown outcome.
observation_lost(t) == runs[t].outcome = "unknown" => ~RunIsLive(t)

ReleaseKey(t) ==
    /\ Phase(t, "persisted", "released")
    /\ observation_lost(t)
    /\ active' = active \ {runs[t].key}
    /\ UNCHANGED <<tasks, bridge, res, observed, revoked, env, burned, svc,
                   native, mode, purged, crashes, faults>>

\* The Claude Code run also stops waiting when the session registry cannot
\* be read.
ReleaseKeyUnreadable(t) ==
    /\ Phase(t, "persisted", "released")
    /\ runs[t].key \in Outliving
    /\ ~observation_lost(t)
    /\ CountFault
    /\ active' = active \ {runs[t].key}
    /\ UNCHANGED <<tasks, bridge, res, observed, revoked, env, burned, svc,
                   native, mode, purged, crashes>>

mutant_unobserve_unless_cancelled(t) ==
    /\ mode # "down"
    /\ runs[t].phase = "released"
    /\ runs' = [runs EXCEPT ![t] = NoRun]
    /\ observed' = IF tasks[t].state = "cancelled" THEN observed
                   ELSE observed \ {t}
    /\ UNCHANGED <<tasks, bridge, res, active, revoked, env, burned, svc,
                   native, mode, purged, crashes, faults>>

Unobserve(t) ==
    /\ mode # "down"
    /\ runs[t].phase = "released"
    /\ runs' = [runs EXCEPT ![t] = NoRun]
    /\ observed' = observed \ {t}
    /\ UNCHANGED <<tasks, bridge, res, active, revoked, env, burned, svc,
                   native, mode, purged, crashes, faults>>

(***************************************************************************)
(* persist_envelope, called by a handler for each task of svc.todo         *)
(***************************************************************************)
PersistRead(t) ==
    /\ mode = "up"
    /\ svc.reading = NoTask
    /\ t \in svc.todo
    /\ svc' = [svc EXCEPT !.reading = t, !.snap = tasks[t]]
    /\ UNCHANGED <<mem, env, burned, runs, native, mode, purged, crashes,
                   faults>>

PersistWrite ==
    LET t == svc.reading
    IN  /\ mode = "up"
        /\ t # NoTask
        /\ env' = [env EXCEPT ![t] = Envelope(svc.snap, bridge[t], res[t])]
        /\ svc' = IF svc.todo = {t} /\ svc.then = "return" THEN Idle
                  ELSE Handler(svc.todo \ {t}, NoTask, Absent, svc.then,
                               svc.subject)
        /\ UNCHANGED <<mem, burned, runs, native, mode, purged, crashes,
                       faults>>

\* The handler returns the error at once and does nothing of what follows.
PersistFails ==
    /\ mode = "up"
    /\ svc.reading # NoTask
    /\ svc' = Idle
    /\ CountFault
    /\ UNCHANGED <<mem, env, burned, runs, native, mode, purged, crashes>>

(***************************************************************************)
(* Stop                                                                    *)
(***************************************************************************)
\* Pastey's authority ends first, then the envelope is written, and only then
\* is the adapter asked to stop the turn.
cancel_task(t) ==
    /\ Ready
    /\ tasks[t].state = "running" \/ uncertain(tasks[t])
    /\ tasks' = [tasks EXCEPT ![t] = Cancelled("cancel_requested")]
    /\ svc' = Handler({t}, NoTask, Absent, "cancel", t)
    /\ UNCHANGED <<bridge, res, active, observed, revoked, env, burned, runs,
                   native, mode, purged, crashes, faults>>

\* Stop over the Bridge: any task that is not terminal ends; the answer of
\* the adapter is not looked at.
stop_bridge_task_authority(t) ==
    /\ Ready
    /\ tasks[t] # Absent
    /\ bridge[t] \in Bridges \ revoked
    /\ tasks' = [tasks EXCEPT ![t] =
                   IF @.state \in {"completed", "failed", "cancelled"} THEN @
                   ELSE Cancelled("cancel_requested")]
    /\ svc' = Handler({t}, NoTask, Absent, "ask", t)
    /\ UNCHANGED <<bridge, res, active, observed, revoked, env, burned, runs,
                   native, mode, purged, crashes, faults>>

\* adapter.cancel: the interrupt is delivered, which proves nothing yet.
AdapterCancel ==
    /\ mode = "up"
    /\ svc.todo = {}
    /\ svc.then \in {"cancel", "ask"}
    /\ svc' = Idle
    /\ UNCHANGED <<mem, env, burned, runs, native, mode, purged, crashes,
                   faults>>

\* adapter.cancel does not know the task any more, or cannot deliver.
AdapterCancelFails ==
    /\ mode = "up"
    /\ svc.todo = {}
    /\ svc.then = "cancel"
    /\ tasks' = [tasks EXCEPT ![svc.subject].code =
                   "cancel_delivery_uncertain"]
    /\ svc' = Handler({svc.subject}, NoTask, Absent, "return", NoTask)
    /\ UNCHANGED <<bridge, res, active, observed, revoked, env, burned, runs,
                   native, mode, purged, crashes, faults>>

(***************************************************************************)
(* The Bridge                                                              *)
(***************************************************************************)
OwnedBy(b) == {t \in Tasks : tasks[t] # Absent /\ bridge[t] = b}

\* Session loss: only a task nobody observes becomes uncertain; every task of
\* the Bridge is written again.
revoke_bridge_session(b) ==
    /\ Ready
    /\ OwnedBy(b) # {}
    /\ tasks' = [t \in Tasks |->
                   IF /\ t \in OwnedBy(b) \ observed
                      /\ tasks[t].state = "running"
                   THEN Status("interrupted", "reconciliation_required")
                   ELSE tasks[t]]
    /\ svc' = Handler(OwnedBy(b), NoTask, Absent, "return", NoTask)
    /\ UNCHANGED <<bridge, res, active, observed, revoked, env, burned, runs,
                   native, mode, purged, crashes, faults>>

\* Burn leaves a durable tombstone; pairing a new device does not.
Tombstone(b, final) == burned' = IF final THEN burned \cup {b} ELSE burned

\* observed_tasks and active_exclusivity are left to the observers.
purge_bridge_authority(b, final) ==
    /\ Ready
    /\ b \notin burned
    /\ revoked' = revoked \cup {b}
    /\ Tombstone(b, final)
    /\ purged' = purged \cup OwnedBy(b)
    /\ tasks' = [t \in Tasks |-> IF t \in OwnedBy(b) THEN Absent
                                 ELSE tasks[t]]
    /\ bridge' = [t \in Tasks |-> IF t \in OwnedBy(b) THEN Local
                                  ELSE bridge[t]]
    /\ res' = [t \in Tasks |-> IF t \in OwnedBy(b) THEN NoResource
                               ELSE res[t]]
    /\ env' = [t \in Tasks |-> IF t \in OwnedBy(b) THEN NoEnvelope
                               ELSE env[t]]
    /\ UNCHANGED <<active, observed, runs, svc, native, mode, crashes,
                   faults>>

\* A storage error stops the purge after authority was revoked.
PurgeFails(b, final) ==
    /\ Ready
    /\ b \notin burned
    /\ CountFault
    /\ revoked' = revoked \cup {b}
    /\ Tombstone(b, final)
    /\ tasks' = [t \in Tasks |-> IF t \in OwnedBy(b)
                                 THEN Cancelled("authority_revoked")
                                 ELSE tasks[t]]
    /\ UNCHANGED <<bridge, res, active, observed, env, runs, svc, native,
                   mode, purged, crashes>>

readmit_bridge_after_fresh_trust(b) ==
    /\ Ready
    /\ b \in revoked \ burned
    /\ revoked' = revoked \ {b}
    /\ UNCHANGED <<tasks, bridge, res, active, observed, env, burned, runs,
                   svc, native, mode, purged, crashes, faults>>

(***************************************************************************)
(* Shutdown, crash and restart                                             *)
(***************************************************************************)
Survivors == {turn \in native : turn.res \in Outliving}

shutdown ==
    /\ Ready
    /\ mode' = "closing"
    /\ active' = {}
    /\ observed' = {}
    /\ res' = [t \in Tasks |-> NoResource]
    /\ native' = Survivors
    /\ UNCHANGED <<tasks, bridge, revoked, env, burned, runs, svc, purged,
                   crashes, faults>>

ProcessEnds ==
    /\ mode # "down"
    /\ crashes < MaxCrashes
    /\ crashes' = crashes + 1
    /\ mode' = "down"
    /\ tasks' = [t \in Tasks |-> Absent]
    /\ bridge' = [t \in Tasks |-> Local]
    /\ res' = [t \in Tasks |-> NoResource]
    /\ active' = {}
    /\ observed' = {}
    /\ revoked' = {}
    /\ runs' = [t \in Tasks |-> NoRun]
    /\ svc' = Idle
    /\ native' = Survivors
    /\ UNCHANGED <<env, burned, purged, faults>>

possibly_still_running(e) ==
    /\ e.res \in Outliving
    /\ e.status.state = "running" \/ uncertain(e.status)

\* A task of this Host's own user that shows it ended with Pastey.
unbound_local_restart(e) ==
    /\ e.bridge = Local
    /\ ~possibly_still_running(e)
    /\ \/ e.status.state = "running"
       \/ e.status = Status("interrupted", "reconciliation_required")

mutant_restart_ends_every_turn(e) ==
    IF e.bridge = Local /\ (e.status.state = "running" \/ uncertain(e.status))
    THEN Status("failed", "interrupted_on_restart")
    ELSE e.status

restored_status(e) ==
    CASE unbound_local_restart(e) -> Status("failed", "interrupted_on_restart")
      [] e.status.state = "running" /\ ~unbound_local_restart(e) ->
           Status("interrupted", IF e.bridge = Local THEN "outcome_unknown"
                                 ELSE "reconciliation_required")
      [] OTHER -> e.status

\* Startup removes what a burned Bridge left (finalize_burned_room), then
\* restores every envelope and observes again what may still be running.
restore_durable_envelopes ==
    LET stored == [t \in Tasks |-> IF env[t].bridge \in burned THEN NoEnvelope
                                   ELSE env[t]]
        again == {t \in Tasks : possibly_still_running(stored[t])}
    IN  /\ mode = "down"
        /\ mode' = "up"
        /\ tasks' = [t \in Tasks |-> restored_status(stored[t])]
        /\ bridge' = [t \in Tasks |-> stored[t].bridge]
        /\ res' = [t \in Tasks |-> stored[t].res]
        /\ env' = [t \in Tasks |->
                     IF unbound_local_restart(stored[t]) THEN NoEnvelope
                     ELSE [stored[t] EXCEPT !.status =
                             restored_status(stored[t])]]
        /\ active' = {stored[t].res : t \in again}
        /\ observed' = again
        /\ runs' = [t \in Tasks |->
                      IF t \in again
                      THEN Run("running", stored[t].res, "none", Absent)
                      ELSE NoRun]
        /\ UNCHANGED <<revoked, burned, svc, native, purged, crashes, faults>>

ObserverStep(t) ==
    \/ Launch(t) \/ LaunchRefused(t) \/ TurnReported(t) \/ RecordOutcome(t)
    \/ PersistOutcome(t) \/ PersistOutcomeFails(t) \/ ReleaseKey(t)
    \/ ReleaseKeyUnreadable(t) \/ Unobserve(t)

HandlerStep ==
    \/ \E t \in Tasks : PersistRead(t)
    \/ PersistWrite \/ PersistFails \/ AdapterCancel \/ AdapterCancelFails

Next ==
    \/ \E t \in Tasks, owner \in Bridges \cup {Local}, r \in Resources :
          StartObserved(t, owner, r) \/ StartUnrecorded(t, owner, r)
    \/ \E t \in Tasks :
          ObserverStep(t) \/ cancel_task(t) \/ stop_bridge_task_authority(t)
    \/ \E turn \in native : NativeTurnEnds(turn)
    \/ HandlerStep
    \/ \E b \in Bridges :
          \/ revoke_bridge_session(b)
          \/ readmit_bridge_after_fresh_trust(b)
          \/ \E final \in BOOLEAN :
                purge_bridge_authority(b, final) \/ PurgeFails(b, final)
    \/ shutdown \/ ProcessEnds \/ restore_durable_envelopes

Spec == Init /\ [][Next]_vars

\* Observer threads and handlers keep running; a turn that ended is reported
\* by its adapter.  Nothing is assumed of the turn itself, of the user or of
\* the peers.
Fairness ==
    /\ \A t \in Tasks :
          /\ WF_vars(LaunchRefused(t) \/ Launch(t))
          /\ WF_vars(~RunIsLive(t) /\ TurnReported(t))
          /\ WF_vars(RecordOutcome(t))
          /\ WF_vars(PersistOutcome(t))
          /\ WF_vars(ReleaseKey(t))
          /\ WF_vars(Unobserve(t))
    /\ WF_vars(HandlerStep)

LiveSpec == Spec /\ Fairness

-----------------------------------------------------------------------------
TypeOK ==
    /\ tasks \in [Tasks -> Statuses]
    /\ bridge \in [Tasks -> Bridges \cup {Local}]
    /\ res \in [Tasks -> Resources \cup {NoResource}]
    /\ active \subseteq Resources
    /\ observed \subseteq Tasks
    /\ revoked \subseteq Bridges
    /\ burned \subseteq Bridges
    /\ env \in [Tasks -> [status : Statuses, bridge : Bridges \cup {Local},
                          res : Resources \cup {NoResource}]]
    /\ runs \in [Tasks ->
                   [phase : {"none", "starting", "running", "ended",
                             "recorded", "persisted", "released"},
                    key : Resources \cup {NoResource},
                    outcome : NativeTurnOutcomeV1 \cup {"none"},
                    snap : Statuses]]
    /\ svc \in [todo : SUBSET Tasks, reading : Tasks \cup {NoTask},
                snap : Statuses, then : {"return", "cancel", "ask"},
                subject : Tasks \cup {NoTask}]
    /\ native \subseteq [task : Tasks, res : Resources]
    /\ mode \in {"up", "closing", "down"}
    /\ purged \subseteq Tasks
    /\ crashes \in 0..MaxCrashes
    /\ faults \in 0..MaxFaults

\* A turn nobody on this Host accounts for any more: its Bridge was purged,
\* or the user's Stop was recorded and its observer is gone while the Claude
\* Code session ran on.
Abandoned(turn) ==
    \/ turn.task \in purged
    \/ /\ turn.res \in Outliving
       /\ tasks[turn.task].state = "cancelled"
       /\ turn.task \notin observed

\* While a native turn can still change a folder, the occupancy check refuses
\* that folder and every folder inside or around it, whatever the visible
\* state of the task, and also after a restart.
LiveTurnHoldsFolder ==
    mode = "up" =>
      \A turn \in native : \A r \in Resources :
        <<turn.res, r>> \in Overlaps /\ ~Abandoned(turn) =>
          invocation_has_authoritative_owner(r)

\* A native turn is launched only when no other turn that Pastey accounts for
\* runs in its folder, or in a folder inside or around it.
LaunchedAlone ==
    [][\A new \in native' \ native : \A turn \in native :
         ~Abandoned(turn) /\ new.task \notin purged =>
           <<turn.res, new.res>> \notin Overlaps]_vars

\* A status that says the turn is over (Completed, Failed, Cancelled as the
\* turn's own outcome, interrupted by the native agent) is never shown while
\* the turn runs, through stops, restarts and late outcomes.
SettledMeansEnded ==
    \A turn \in native :
        LET status == tasks[turn.task]
        IN  turn.res = res[turn.task] =>
              /\ status.state \notin {"completed", "failed"}
              /\ status.code \notin {"cancelled", "interrupted"}

\* Once a Bridge is purged nothing of its tasks comes back: no observer that
\* reports late and no handler writes an envelope or a status for them again.
PurgedStaysGone ==
    \A t \in purged : tasks[t] = Absent /\ env[t] = NoEnvelope

\* A cancelled task stays cancelled while the process runs: no late outcome,
\* session loss or second Stop turns it into something else.
StopWins ==
    [][\A t \in Tasks :
         tasks[t].state = "cancelled" /\ mode' # "down" =>
           tasks'[t].state \in {"cancelled", "absent"}]_vars

\* Only an observed end, a Stop or the end of the process resolves a turn of
\* unknown outcome; session loss and reads leave it held.
UncertaintyIsKept ==
    [][\A t \in Tasks :
         uncertain(tasks[t]) /\ ~uncertain(tasks'[t]) =>
           \/ tasks'[t].state = "cancelled"
           \/ runs[t].phase = "ended"
           \/ tasks'[t] = Absent]_vars

\* An observer whose turn has ended lets go of its folder.
EndedTurnReleasesFolder ==
    \A t \in Tasks :
      (t \in observed /\ ~RunIsLive(t)) ~> (t \notin observed \/ RunIsLive(t))

\* layer-5-agent.md says that late observer writes cannot restore authority.
\* A Stop that was recorded in memory and on disk must still be there after a
\* restart.
StopSurvivesRestart ==
    [][\A t \in Tasks :
         /\ svc = Idle /\ mode = "up"
         /\ tasks[t].state = "cancelled"
         /\ env[t].status.state = "cancelled"
         => env'[t].status.state \in {"cancelled", "absent"}]_vars

\* layer-5-agent.md: a folder is held while any Pastey execution can change
\* it.  The occupancy check's own comment says that a run still observed holds
\* its folder until its observer lets go.
ObservedRunHoldsFolder ==
    mode = "up" =>
      \A t \in observed : \A r \in Resources :
        <<runs[t].key, r>> \in Overlaps => invocation_has_authoritative_owner(r)

=============================================================================
