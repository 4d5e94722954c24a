--------------------------- MODULE NativeTaskProofs ---------------------------
(***************************************************************************)
(* Proofs about NativeTask for any tasks, Bridges, folders and overlaps    *)
(* between them, and any number of crashes and failed writes: a live turn  *)
(* holds its folder, a status that says it is over is never shown while it *)
(* runs, a purged Bridge stays gone, turns are launched alone and a Stop   *)
(* wins.                                                                   *)
(***************************************************************************)
EXTENDS NativeTask, TLAPS

(* A status that does not claim that the turn is over.                     *)
Unsettled(s) ==
    /\ s.state \in {"running", "interrupted", "cancelled"}
    /\ s.code \notin {"cancelled", "interrupted"}

(* A status that holds no more than the possibility that a turn runs.      *)
Detached(s) == uncertain(s) \/ s.state = "cancelled"

(* A handler works on tasks that exist, and a Stop on a cancelled one.     *)
HandlerOK ==
    /\ svc.reading # NoTask => svc.reading \in svc.todo
    /\ \A t \in svc.todo : tasks[t] # Absent
    /\ svc.then = "cancel" =>
          svc.subject \in Tasks /\ tasks[svc.subject].state = "cancelled"
    /\ mode # "up" => svc = Idle

(* Nothing of the process is left when it is down.                         *)
DownOK == mode = "down" => \A t \in Tasks : tasks[t] = Absent /\ runs[t] = NoRun

(* An observer thread, its task and its key.                               *)
RunOK(t) ==
    runs[t].phase # "none" =>
        /\ runs[t].key \in Resources
        /\ runs[t].phase = "ended" => runs[t].outcome # "none"
        /\ mode = "up" => t \in observed
        /\ t \notin purged =>
              /\ tasks[t] # Absent
              /\ mode = "up" => res[t] = runs[t].key

(* The resources where a turn of t runs or is about to.                    *)
Uses(t, r) == Turn(t, r) \in native \/ (runs[t].phase = "starting" /\ runs[t].key = r)

(* While a turn may run, nothing that was read, recorded or stored about   *)
(* it says that it is over, and its envelope is good for a restart.        *)
LiveOK(t, r) ==
    /\ Unsettled(env[t].status) /\ env[t].res = r
    /\ mode # "down" => Unsettled(tasks[t])
    /\ mode = "up" => res[t] = r
    /\ mode = "down" => r \in Outliving
    /\ svc.reading = t => Unsettled(svc.snap)
    /\ runs[t].phase = "recorded" => Unsettled(runs[t].snap)
    /\ r \in Outliving => env[t].bridge = Local /\ (mode # "down" => bridge[t] = Local)

(* How far the observer of a running turn can be.                          *)
TurnOK(t, r) ==
    /\ runs[t].phase # "starting"
    /\ runs[t].phase # "none" => runs[t].key = r
    /\ runs[t].phase \in {"ended", "recorded", "persisted"} => runs[t].outcome = "unknown"
    /\ runs[t].phase \in {"released", "none"} => r \in Outliving
    /\ mode # "down" /\ t \notin purged
         /\ runs[t].phase \in {"recorded", "persisted", "released", "none"} => Detached(tasks[t])

(* A turn about to be launched has no neighbour.                           *)
ApartOK(t) ==
    runs[t].phase = "starting" =>
        /\ \A turn \in native : Abandoned(turn) \/ <<turn.res, runs[t].key>> \notin Overlaps
        /\ \A u \in Tasks \ (purged \cup {t}) :
              runs[u].phase = "starting" => <<runs[u].key, runs[t].key>> \notin Overlaps

IInv ==
    /\ TypeOK
    /\ PurgedStaysGone
    /\ HandlerOK
    /\ DownOK
    /\ \A t \in Tasks : RunOK(t)
    /\ \A t \in Tasks \ purged, r \in Resources : Uses(t, r) => LiveOK(t, r)
    /\ \A t \in Tasks, r \in Resources : Turn(t, r) \in native => TurnOK(t, r)
    /\ \A t \in Tasks \ purged : ApartOK(t)

-----------------------------------------------------------------------------
(* What a status of the type can be.                                       *)
LEMMA StatusKinds ==
    ASSUME NEW s \in Statuses
    PROVE  /\ s.state \in NativeAgentTaskStateV1 \cup {"absent"}
           /\ s = Absent <=> s.state = "absent"
           /\ s.state = "running" => s = Status("running", "none")
           /\ s.state = "interrupted" =>
                s.code \in {"interrupted", "outcome_unknown", "reconciliation_required"}
           /\ s.state = "cancelled" => s = Cancelled(s.code)
  BY DEF Statuses, Absent, Status, Cancelled, NativeAgentTaskStateV1

(* The statuses the code writes are of the type, and what each one says.   *)
LEMMA Written ==
    /\ Absent \in Statuses /\ Absent.state = "absent" /\ Absent.code = "none"
    /\ Status("running", "none") \in Statuses
    /\ Status("running", "none").state = "running"
    /\ Status("running", "none").code = "none"
    /\ Status("interrupted", "reconciliation_required") \in Statuses
    /\ Status("interrupted", "reconciliation_required").state = "interrupted"
    /\ Status("interrupted", "reconciliation_required").code = "reconciliation_required"
    /\ \A c \in {"cancel_requested", "cancel_delivery_uncertain", "authority_revoked"} :
          /\ Cancelled(c) \in Statuses /\ Cancelled(c).state = "cancelled"
          /\ Cancelled(c).code = c
  BY Zenon DEF Statuses, Absent, Status, Cancelled

(* A late outcome keeps a cancellation, and an unknown one settles         *)
(* nothing.                                                                *)
LEMMA RecordedStatus ==
    ASSUME NEW s \in Statuses, s # Absent, NEW o \in NativeTurnOutcomeV1
    PROVE  LET q == recorded_status(s, o)
           IN  /\ q \in Statuses /\ q # Absent
               /\ s.state = "cancelled" => q.state = "cancelled"
               /\ o = "unknown" => Detached(q)
               /\ o = "unknown" /\ Unsettled(s) => Unsettled(q)
  BY Zenon, StatusKinds DEF Statuses, Absent, Status, Cancelled, recorded_status, NativeTurnOutcomeV1,
     Detached, Unsettled, uncertain, NativeAgentTaskStateV1

(* The envelope types.                                                     *)
Envelopes == [status : Statuses, bridge : Bridges \cup {Local},
              res : Resources \cup {NoResource}]

(* A restart restores a status; for a turn that outlives Pastey, nothing   *)
(* that says it is over.                                                   *)
LEMMA RestoredStatus ==
    ASSUME NEW e \in Envelopes
    PROVE  LET q == restored_status(e)
           IN  /\ q \in Statuses
               /\ e.status = Absent => q = Absent /\ ~unbound_local_restart(e)
                                       /\ ~possibly_still_running(e)
               /\ e.status # Absent => q # Absent
               /\ Unsettled(e.status) /\ e.res \in Outliving =>
                     /\ Unsettled(q) /\ Detached(q) /\ ~unbound_local_restart(e)
                     /\ possibly_still_running(e) \/ e.status.state = "cancelled"
  BY StatusKinds DEF Envelopes, Statuses, Absent, Status, Cancelled, restored_status,
     unbound_local_restart, possibly_still_running, Detached, Unsettled, uncertain,
     NativeAgentTaskStateV1

-----------------------------------------------------------------------------
(* Observer threads.                                                       *)
Phases == {"none", "starting", "running", "ended", "recorded", "persisted", "released"}
Runs == [phase : Phases, key : Resources \cup {NoResource},
         outcome : NativeTurnOutcomeV1 \cup {"none"}, snap : Statuses]

(* An observer moves on and keeps its local variables.                     *)
LEMMA PhaseStep ==
    ASSUME TypeOK, NEW t \in Tasks, NEW from, NEW to \in Phases, Phase(t, from, to)
    PROVE  /\ runs' \in [Tasks -> Runs] /\ mode # "down"
           /\ runs[t].phase = from /\ runs'[t].phase = to
           /\ runs'[t].key = runs[t].key /\ runs'[t].outcome = runs[t].outcome
           /\ runs'[t].snap = runs[t].snap
           /\ \A u \in Tasks \ {t} : runs'[u] = runs[u]
  BY ZenonT(40) DEF TypeOK, Runs, Phases, Phase

(* No observer, and one that a restart spawned.                            *)
LEMMA RestoredRuns ==
    /\ NoRun \in Runs /\ NoRun.phase = "none" /\ NoRun.snap = Absent
    /\ \A k \in Resources \cup {NoResource} :
          LET n == Run("running", k, "none", Absent)
          IN  n \in Runs /\ n.phase = "running" /\ n.key = k /\ n.snap = Absent
  BY Zenon, Written DEF NoRun, Run, Runs, Phases

(* run.run returns an outcome.                                             *)
LEMMA EndsStep ==
    ASSUME TypeOK, NEW t \in Tasks, NEW from, NEW o \in NativeTurnOutcomeV1, Ends(t, from, o)
    PROVE  /\ runs' \in [Tasks -> Runs] /\ mode # "down"
           /\ runs[t].phase = from /\ runs'[t].phase = "ended"
           /\ runs'[t].key = runs[t].key /\ runs'[t].outcome = o
           /\ \A u \in Tasks \ {t} : runs'[u] = runs[u]
<1>1. runs \in [Tasks -> Runs]
  BY Zenon DEF TypeOK, Runs, Phases
<1>2. Run("ended", runs[t].key, o, Absent) \in Runs
  BY Zenon, <1>1, Written DEF Run, Runs, Phases
<1>. QED
  BY Zenon, <1>1, <1>2 DEF Ends, Run

(* What an observer's own step may change without disturbing the           *)
(* invariant: it is past the launch, keeps its key and reports an unknown  *)
(* outcome while the turn runs.                                            *)
LEMMA ObserverMoves ==
    ASSUME IInv, NEW t \in Tasks, mode # "down", runs[t].phase # "none",
           UNCHANGED <<tasks, bridge, res, env, burned, svc, native, mode, purged, revoked,
                       crashes>>,
           runs' \in [Tasks -> Runs], \A u \in Tasks \ {t} : runs'[u] = runs[u],
           active' \subseteq active, observed' \subseteq observed, faults' \in 0..MaxFaults,
           \A u \in observed \ observed' : u = t /\ runs'[t].phase = "none",
           runs'[t].phase \notin {"starting", "recorded"},
           runs'[t].phase # "none" => runs'[t].key = runs[t].key,
           runs'[t].phase = "ended" => runs'[t].outcome # "none",
           \A r \in Resources : Turn(t, r) \in native => TurnOK(t, r)'
    PROVE  IInv'
<1>1. TypeOK'
  BY Zenon DEF IInv, TypeOK, Runs, Phases
<1>2. PurgedStaysGone' /\ HandlerOK' /\ DownOK'
  BY Zenon DEF IInv, PurgedStaysGone, HandlerOK, DownOK
<1>3. ASSUME NEW u \in Tasks PROVE RunOK(u)'
  BY Zenon DEF IInv, RunOK
<1>4. ASSUME NEW u \in Tasks \ purged, NEW r \in Resources, Uses(u, r)' PROVE LiveOK(u, r)'
  <2>1. Uses(u, r) /\ (runs'[u].phase = "recorded" => runs'[u] = runs[u])
    BY Zenon, <1>4 DEF Uses
  <2>2. LiveOK(u, r)
    BY Zenon, <2>1 DEF IInv
  <2>. QED
    BY Zenon, <2>1, <2>2 DEF LiveOK
<1>5. ASSUME NEW u \in Tasks, NEW r \in Resources, Turn(u, r) \in native' PROVE TurnOK(u, r)'
  <2>1. CASE u = t
    BY Zenon, <1>5, <2>1
  <2>2. CASE u # t
    BY ZenonT(40), <1>5, <2>2 DEF IInv, TurnOK
  <2>. QED
    BY Zenon, <2>1, <2>2
<1>6. ASSUME NEW u \in Tasks \ purged PROVE ApartOK(u)'
  <2>1. \A turn \in native : Abandoned(turn) => Abandoned(turn)'
    BY Zenon DEF Abandoned
  <2>. QED
    BY Zenon, <2>1 DEF IInv, ApartOK
<1>. QED
  BY Zenon, <1>1, <1>2, <1>3, <1>4, <1>5, <1>6 DEF IInv

(* A refused launch.                                                       *)
LEMMA LaunchRefusedKeeps ==
    ASSUME IInv, NEW t \in Tasks, LaunchRefused(t) PROVE IInv'
<1>1. PICK o \in {"not_started", "failed", "cancelled"} : Ends(t, "starting", o)
  BY Zenon DEF LaunchRefused
<1>2. TypeOK /\ o \in NativeTurnOutcomeV1
  BY Zenon DEF IInv, NativeTurnOutcomeV1
<1>3. \A r \in Resources : Turn(t, r) \notin native
  BY Zenon, <1>1 DEF IInv, TurnOK, Ends
<1>4. /\ runs' \in [Tasks -> Runs] /\ mode # "down" /\ runs'[t].phase = "ended"
      /\ runs'[t].key = runs[t].key /\ runs'[t].outcome = o /\ o # "none"
      /\ runs[t].phase = "starting" /\ \A u \in Tasks \ {t} : runs'[u] = runs[u]
  BY Zenon, <1>1, <1>2, EndsStep
<1>. QED
  BY Zenon, <1>2, <1>3, <1>4, ObserverMoves DEF LaunchRefused, mem, TypeOK

(* An outcome reported while the turn runs is unknown.                     *)
LEMMA TurnReportedKeeps ==
    ASSUME IInv, NEW t \in Tasks, TurnReported(t) PROVE IInv'
<1>1. PICK o \in NativeTurnOutcomeV1 \ {"not_started"} :
        (RunIsLive(t) => o = "unknown") /\ Ends(t, "running", o)
  BY Zenon DEF TurnReported
<1>2. TypeOK /\ runs[t].phase = "running"
  BY Zenon, <1>1 DEF IInv, Ends
<1>3. /\ runs' \in [Tasks -> Runs] /\ mode # "down" /\ runs'[t].phase = "ended"
      /\ runs'[t].key = runs[t].key /\ runs'[t].outcome = o /\ o # "none"
      /\ \A u \in Tasks \ {t} : runs'[u] = runs[u]
  BY ZenonT(40), <1>1, <1>2, EndsStep DEF NativeTurnOutcomeV1
<1>4. ASSUME NEW r \in Resources, Turn(t, r) \in native PROVE TurnOK(t, r)'
  <2>1. TurnOK(t, r) /\ runs[t].key = r
    BY Zenon, <1>2, <1>4 DEF IInv, TurnOK
  <2>2. o = "unknown"
    BY Zenon, <1>1, <1>4, <2>1 DEF RunIsLive
  <2>. QED
    BY Zenon, <1>3, <2>1, <2>2 DEF TurnOK
<1>. QED
  BY Zenon, <1>2, <1>3, <1>4, ObserverMoves DEF TurnReported, mem, TypeOK

(* The observer ignores an error of its write.                             *)
LEMMA PersistOutcomeFailsKeeps ==
    ASSUME IInv, NEW t \in Tasks, PersistOutcomeFails(t) PROVE IInv'
<1>1. TypeOK /\ Phase(t, "recorded", "persisted")
  BY Zenon DEF IInv, PersistOutcomeFails
<1>2. /\ runs' \in [Tasks -> Runs] /\ mode # "down"
      /\ runs[t].phase = "recorded" /\ runs'[t].phase = "persisted"
      /\ runs'[t].key = runs[t].key /\ runs'[t].outcome = runs[t].outcome
      /\ \A u \in Tasks \ {t} : runs'[u] = runs[u]
  BY Zenon, <1>1, PhaseStep DEF Phases
<1>3. ASSUME NEW r \in Resources, Turn(t, r) \in native PROVE TurnOK(t, r)'
  BY Zenon, <1>2, <1>3 DEF IInv, TurnOK, PersistOutcomeFails, mem
<1>4. faults' \in 0..MaxFaults
  BY <1>1, ConstantsAssumption DEF PersistOutcomeFails, CountFault, TypeOK
<1>. QED
  BY Zenon, <1>2, <1>3, <1>4, ObserverMoves DEF PersistOutcomeFails, mem

(* The folder is let go of when the turn is over, or when it can no longer *)
(* be watched.                                                             *)
LEMMA ReleaseKeeps ==
    ASSUME IInv, NEW t \in Tasks, ReleaseKey(t) \/ ReleaseKeyUnreadable(t) PROVE IInv'
<1>1. TypeOK /\ Phase(t, "persisted", "released")
  BY Zenon DEF IInv, ReleaseKey, ReleaseKeyUnreadable
<1>2. /\ runs' \in [Tasks -> Runs] /\ mode # "down"
      /\ runs[t].phase = "persisted" /\ runs'[t].phase = "released"
      /\ runs'[t].key = runs[t].key
      /\ \A u \in Tasks \ {t} : runs'[u] = runs[u]
  BY Zenon, <1>1, PhaseStep DEF Phases
<1>3. ASSUME NEW r \in Resources, Turn(t, r) \in native PROVE TurnOK(t, r)'
  <2>1. /\ TurnOK(t, r) /\ runs[t].key = r /\ runs[t].outcome = "unknown"
        /\ t \notin purged => Detached(tasks[t])
    BY Zenon, <1>2, <1>3 DEF IInv, TurnOK
  <2>2. r \in Outliving
    BY Zenon, <1>3, <2>1 DEF ReleaseKey, ReleaseKeyUnreadable, observation_lost, RunIsLive
  <2>. QED
    BY Zenon, <1>2, <2>1, <2>2 DEF TurnOK, ReleaseKey, ReleaseKeyUnreadable
<1>4. faults' \in 0..MaxFaults /\ active' \subseteq active
  BY <1>1, ConstantsAssumption DEF ReleaseKey, ReleaseKeyUnreadable, CountFault, TypeOK
<1>5. UNCHANGED <<tasks, bridge, res, observed, env, burned, svc, native, mode, purged, revoked,
                  crashes>>
  BY Zenon DEF ReleaseKey, ReleaseKeyUnreadable
<1>. QED
  BY Zenon, <1>2, <1>3, <1>4, <1>5, ObserverMoves

(* The observer thread ends.                                               *)
LEMMA UnobserveKeeps ==
    ASSUME IInv, NEW t \in Tasks, Unobserve(t) PROVE IInv'
<1>1. TypeOK /\ runs \in [Tasks -> Runs] /\ NoRun \in Runs /\ NoRun.phase = "none"
  BY Zenon, Written DEF IInv, TypeOK, Runs, Phases, NoRun, Run
<1>2. /\ runs' \in [Tasks -> Runs] /\ mode # "down"
      /\ runs[t].phase = "released" /\ runs'[t].phase = "none"
      /\ \A u \in Tasks \ {t} : runs'[u] = runs[u]
  BY Zenon, <1>1 DEF Unobserve
<1>3. ASSUME NEW r \in Resources, Turn(t, r) \in native PROVE TurnOK(t, r)'
  BY Zenon, <1>2, <1>3 DEF IInv, TurnOK, Unobserve
<1>. QED
  BY Zenon, <1>1, <1>2, <1>3, ObserverMoves DEF Unobserve, TypeOK

(* The native turn is launched: it was apart from every other.             *)
LEMMA LaunchKeeps ==
    ASSUME IInv, NEW t \in Tasks, Launch(t) PROVE IInv'
<1>1. TypeOK /\ Phase(t, "starting", "running")
  BY Zenon DEF IInv, Launch
<1>2. /\ runs' \in [Tasks -> Runs] /\ mode # "down"
      /\ runs[t].phase = "starting" /\ runs'[t].phase = "running"
      /\ runs'[t].key = runs[t].key
      /\ \A u \in Tasks \ {t} : runs'[u] = runs[u]
  BY Zenon, <1>1, PhaseStep DEF Phases
<1>3. /\ native' = native \cup {Turn(t, runs[t].key)}
      /\ UNCHANGED <<tasks, bridge, res, active, observed, revoked, env, burned, svc, mode, purged,
                     crashes, faults>>
  BY Zenon DEF Launch, mem
<1>4. runs[t].key \in Resources
  BY Zenon, <1>2 DEF IInv, RunOK
<1>5. \A u \in Tasks, r \in Resources :
        Turn(u, r) \in native' => Turn(u, r) \in native \/ (u = t /\ r = runs[t].key)
  BY Zenon, <1>3 DEF Turn
<1>6. TypeOK'
  BY <1>1, <1>2, <1>3, <1>4 DEF TypeOK, Runs, Phases, Turn
<1>7. PurgedStaysGone' /\ HandlerOK' /\ DownOK'
  BY Zenon, <1>2, <1>3 DEF IInv, PurgedStaysGone, HandlerOK, DownOK
<1>8. ASSUME NEW u \in Tasks PROVE RunOK(u)'
  BY Zenon, <1>2, <1>3 DEF IInv, RunOK
<1>9. ASSUME NEW u \in Tasks \ purged', NEW r \in Resources, Uses(u, r)' PROVE LiveOK(u, r)'
  <2>1. Uses(u, r) /\ (runs'[u].phase = "recorded" => runs'[u] = runs[u])
    BY Zenon, <1>2, <1>5, <1>9 DEF Uses
  <2>2. LiveOK(u, r)
    BY Zenon, <1>3, <2>1 DEF IInv
  <2>. QED
    BY Zenon, <1>3, <2>1, <2>2 DEF LiveOK
<1>10. ASSUME NEW u \in Tasks, NEW r \in Resources, Turn(u, r) \in native' PROVE TurnOK(u, r)'
  <2>1. CASE u = t
    <3>1. r = runs[t].key
      BY Zenon, <1>2, <1>5, <1>10, <2>1 DEF IInv, TurnOK
    <3>. QED
      BY Zenon, <1>2, <2>1, <3>1 DEF TurnOK
  <2>2. CASE u # t
    BY <1>2, <1>3, <1>5, <1>10, <2>2 DEF IInv, TurnOK
  <2>. QED
    BY Zenon, <2>1, <2>2
<1>11. ASSUME NEW u \in Tasks \ purged' PROVE ApartOK(u)'
  <2>. SUFFICES ASSUME runs'[u].phase = "starting"
                PROVE  /\ \A turn \in native' :
                             Abandoned(turn)' \/ <<turn.res, runs'[u].key>> \notin Overlaps
                       /\ \A w \in Tasks \ (purged' \cup {u}) :
                             runs'[w].phase = "starting" => <<runs'[w].key, runs'[u].key>> \notin Overlaps
    BY Zenon DEF ApartOK
  <2>1. u # t /\ runs'[u] = runs[u] /\ ApartOK(u) /\ u \notin purged
    BY Zenon, <1>2, <1>3 DEF IInv
  <2>2. ASSUME NEW turn \in native' PROVE Abandoned(turn)' \/ <<turn.res, runs'[u].key>> \notin Overlaps
    <3>1. CASE turn \in native
      BY Zenon, <1>3, <2>1, <3>1 DEF ApartOK, Abandoned
    <3>2. CASE turn = Turn(t, runs[t].key)
      BY Zenon, <1>2, <1>3, <2>1, <3>2 DEF ApartOK, Abandoned, Turn
    <3>. QED
      BY Zenon, <1>3, <3>1, <3>2
  <2>3. ASSUME NEW w \in Tasks \ (purged' \cup {u}), runs'[w].phase = "starting"
        PROVE <<runs'[w].key, runs'[u].key>> \notin Overlaps
    BY Zenon, <1>2, <1>3, <2>1, <2>3 DEF ApartOK
  <2>. QED
    BY Zenon, <2>2, <2>3
<1>. QED
  BY Zenon, <1>6, <1>7, <1>8, <1>9, <1>10, <1>11 DEF IInv

(* The outcome becomes the visible status; a purged task records nothing.  *)
LEMMA RecordOutcomeKeeps ==
    ASSUME IInv, NEW t \in Tasks, RecordOutcome(t) PROVE IInv'
<1>. DEFINE q == IF tasks[t] = Absent THEN Absent ELSE recorded_status(tasks[t], runs[t].outcome)
<1>1. /\ mode # "down" /\ runs[t].phase = "ended"
      /\ tasks' = [tasks EXCEPT ![t] = q]
      /\ runs' = [runs EXCEPT ![t] = Run("recorded", runs[t].key, runs[t].outcome, q)]
      /\ UNCHANGED <<bridge, res, active, observed, revoked, env, burned, svc, native, mode, purged,
                     crashes, faults>>
  BY Zenon DEF RecordOutcome
<1>2. /\ tasks \in [Tasks -> Statuses] /\ runs \in [Tasks -> Runs]
      /\ runs[t].outcome \in NativeTurnOutcomeV1
  BY Zenon, <1>1 DEF IInv, TypeOK, Runs, Phases, RunOK
<1>3. /\ q \in Statuses /\ (q = Absent <=> tasks[t] = Absent)
      /\ tasks[t].state = "cancelled" => q.state = "cancelled"
      /\ runs[t].outcome = "unknown" /\ tasks[t] # Absent => Detached(q)
      /\ runs[t].outcome = "unknown" /\ Unsettled(tasks[t]) => Unsettled(q)
  <2>1. CASE tasks[t] = Absent
    BY Zenon, <2>1, Written DEF Unsettled
  <2>2. CASE tasks[t] # Absent
    BY Zenon, <1>2, <2>2, RecordedStatus
  <2>. QED
    BY Zenon, <2>1, <2>2
<1>. HIDE DEF q
<1>a. Run("recorded", runs[t].key, runs[t].outcome, q) \in Runs
  BY Zenon, <1>2, <1>3 DEF Runs, Phases, Run
<1>b. /\ runs' \in [Tasks -> Runs] /\ \A u \in Tasks \ {t} : runs'[u] = runs[u]
      /\ runs'[t] = Run("recorded", runs[t].key, runs[t].outcome, q)
  BY Zenon, <1>1, <1>2, <1>a
<1>c. /\ runs'[t].phase = "recorded" /\ runs'[t].key = runs[t].key
      /\ runs'[t].outcome = runs[t].outcome /\ runs'[t].snap = q
  BY <1>b DEF Run
<1>4. /\ tasks' \in [Tasks -> Statuses] /\ tasks'[t] = q
      /\ \A u \in Tasks \ {t} : tasks'[u] = tasks[u] /\ runs'[u] = runs[u]
      /\ runs' \in [Tasks -> Runs] /\ runs'[t].phase = "recorded"
      /\ runs'[t].key = runs[t].key /\ runs'[t].outcome = runs[t].outcome
      /\ runs'[t].snap = q
  BY Zenon, <1>1, <1>2, <1>3, <1>b, <1>c
<1>5. TypeOK'
  BY Zenon, <1>1, <1>4 DEF IInv, TypeOK, Runs, Phases
<1>6. PurgedStaysGone' /\ HandlerOK' /\ DownOK'
  <2>1. PurgedStaysGone /\ HandlerOK /\ TypeOK
    BY Zenon DEF IInv
  <2>2. \A u \in Tasks : /\ tasks'[u] = Absent <=> tasks[u] = Absent
                         /\ tasks[u].state = "cancelled" => tasks'[u].state = "cancelled"
    BY Zenon, <1>3, <1>4
  <2>3. PurgedStaysGone'
    BY Zenon, <1>1, <2>1, <2>2 DEF PurgedStaysGone, TypeOK
  <2>4. HandlerOK'
    BY Zenon, <1>1, <2>1, <2>2 DEF HandlerOK, TypeOK
  <2>. QED
    BY Zenon, <1>1, <2>3, <2>4 DEF DownOK
<1>7. ASSUME NEW u \in Tasks PROVE RunOK(u)'
  BY Zenon, <1>1, <1>3, <1>4 DEF IInv, RunOK
<1>8. ASSUME NEW u \in Tasks \ purged', NEW r \in Resources, Uses(u, r)' PROVE LiveOK(u, r)'
  <2>1. Uses(u, r) /\ LiveOK(u, r) /\ (u = t => Turn(t, r) \in native)
    BY Zenon, <1>1, <1>4, <1>8 DEF IInv, Uses
  <2>2. u = t => Unsettled(q)
    BY Zenon, <1>1, <1>3, <2>1 DEF IInv, TurnOK, LiveOK
  <2>. QED
    BY Zenon, <1>1, <1>4, <2>1, <2>2 DEF LiveOK
<1>9. ASSUME NEW u \in Tasks, NEW r \in Resources, Turn(u, r) \in native' PROVE TurnOK(u, r)'
  <2>1. TurnOK(u, r)
    BY Zenon, <1>1, <1>9 DEF IInv
  <2>2. CASE u = t
    <3>1. runs[t].outcome = "unknown"
      BY Zenon, <1>1, <2>1, <2>2 DEF TurnOK
    <3>2. t \notin purged => tasks[t] # Absent
      BY Zenon, <1>1 DEF IInv, RunOK
    <3>. QED
      BY Zenon, <1>1, <1>3, <1>4, <2>1, <2>2, <3>1, <3>2 DEF TurnOK
  <2>3. CASE u # t
    BY Zenon, <1>1, <1>4, <2>1, <2>3 DEF TurnOK
  <2>. QED
    BY Zenon, <2>2, <2>3
<1>10. ASSUME NEW u \in Tasks \ purged' PROVE ApartOK(u)'
  <2>1. \A turn \in native : Abandoned(turn) => Abandoned(turn)'
    BY Zenon, <1>1, <1>3, <1>4 DEF Abandoned, IInv, TypeOK
  <2>. QED
    BY Zenon, <1>1, <1>4, <2>1 DEF IInv, ApartOK
<1>. QED
  BY Zenon, <1>5, <1>6, <1>7, <1>8, <1>9, <1>10 DEF IInv

(* The observer's write replaces the status of a row that still exists.    *)
LEMMA PersistOutcomeKeeps ==
    ASSUME IInv, NEW t \in Tasks, PersistOutcome(t) PROVE IInv'
<1>1. TypeOK /\ Phase(t, "recorded", "persisted")
  BY Zenon DEF IInv, PersistOutcome
<1>2. /\ runs' \in [Tasks -> Runs] /\ mode # "down"
      /\ runs[t].phase = "recorded" /\ runs'[t].phase = "persisted"
      /\ runs'[t].key = runs[t].key /\ runs'[t].outcome = runs[t].outcome
      /\ \A u \in Tasks \ {t} : runs'[u] = runs[u]
  BY Zenon, <1>1, PhaseStep DEF Phases
<1>3. UNCHANGED <<tasks, bridge, res, active, observed, revoked, burned, svc, native, mode, purged,
                  crashes, faults>>
  BY Zenon DEF PersistOutcome, mem
<1>4. env \in [Tasks -> Envelopes] /\ runs[t].snap \in Statuses
  BY Zenon, <1>1 DEF TypeOK, Envelopes
<1>5. env' = IF runs[t].snap = Absent \/ env[t].status = Absent THEN env
             ELSE [env EXCEPT ![t].status = runs[t].snap]
  BY Zenon DEF PersistOutcome, persist_task_status_after_native_turn
<1>6. /\ env' \in [Tasks -> Envelopes] /\ \A u \in Tasks \ {t} : env'[u] = env[u]
      /\ env'[t].res = env[t].res /\ env'[t].bridge = env[t].bridge
      /\ env[t].status = Absent => env'[t] = env[t]
      /\ env'[t].status \in {env[t].status, runs[t].snap}
  BY Zenon, <1>4, <1>5 DEF Envelopes
<1>7. TypeOK'
  BY Zenon, <1>1, <1>2, <1>3, <1>6 DEF TypeOK, Runs, Phases, Envelopes
<1>8. PurgedStaysGone' /\ HandlerOK' /\ DownOK'
  <2>1. NoEnvelope.status = Absent
    BY Zenon DEF NoEnvelope, Envelope
  <2>2. PurgedStaysGone'
    BY Zenon, <1>3, <1>6, <2>1 DEF IInv, PurgedStaysGone, TypeOK
  <2>. QED
    BY Zenon, <1>2, <1>3, <2>2 DEF IInv, HandlerOK, DownOK
<1>9. ASSUME NEW u \in Tasks PROVE RunOK(u)'
  BY Zenon, <1>2, <1>3 DEF IInv, RunOK
<1>10. ASSUME NEW u \in Tasks \ purged', NEW r \in Resources, Uses(u, r)' PROVE LiveOK(u, r)'
  <2>1. Uses(u, r) /\ LiveOK(u, r)
    BY Zenon, <1>2, <1>3, <1>10 DEF IInv, Uses
  <2>2. Unsettled(env'[u].status) /\ env'[u].res = r /\ env'[u].bridge = env[u].bridge
    BY Zenon, <1>2, <1>6, <2>1 DEF LiveOK
  <2>. QED
    BY Zenon, <1>2, <1>3, <2>1, <2>2 DEF LiveOK
<1>11. ASSUME NEW u \in Tasks, NEW r \in Resources, Turn(u, r) \in native' PROVE TurnOK(u, r)'
  <2>1. TurnOK(u, r)
    BY Zenon, <1>3, <1>11 DEF IInv
  <2>. QED
    BY Zenon, <1>2, <1>3, <2>1 DEF TurnOK
<1>12. ASSUME NEW u \in Tasks \ purged' PROVE ApartOK(u)'
  <2>1. \A turn \in native : Abandoned(turn) => Abandoned(turn)'
    BY Zenon, <1>3 DEF Abandoned
  <2>. QED
    BY Zenon, <1>2, <1>3, <2>1 DEF IInv, ApartOK
<1>. QED
  BY Zenon, <1>7, <1>8, <1>9, <1>10, <1>11, <1>12 DEF IInv

(* A turn ends: what is left of the others keeps holding.                  *)
LEMMA NativeTurnEndsKeeps ==
    ASSUME IInv, NEW turn \in native, NativeTurnEnds(turn) PROVE IInv'
<1>1. /\ native' \subseteq native
      /\ UNCHANGED <<tasks, bridge, res, active, observed, revoked, env, burned, runs, svc, mode,
                     purged, crashes, faults>>
  BY Zenon DEF NativeTurnEnds, mem
<1>2. TypeOK'
  BY Zenon, <1>1 DEF IInv, TypeOK
<1>3. PurgedStaysGone' /\ HandlerOK' /\ DownOK' /\ \A t \in Tasks : RunOK(t)'
  BY Zenon, <1>1 DEF IInv, PurgedStaysGone, HandlerOK, DownOK, RunOK
<1>4. ASSUME NEW u \in Tasks \ purged', NEW r \in Resources, Uses(u, r)' PROVE LiveOK(u, r)'
  <2>1. LiveOK(u, r)
    BY Zenon, <1>1, <1>4 DEF IInv, Uses
  <2>. QED
    BY Zenon, <1>1, <2>1 DEF LiveOK
<1>5. ASSUME NEW u \in Tasks, NEW r \in Resources, Turn(u, r) \in native' PROVE TurnOK(u, r)'
  <2>1. TurnOK(u, r)
    BY Zenon, <1>1, <1>5 DEF IInv
  <2>. QED
    BY Zenon, <1>1, <2>1 DEF TurnOK
<1>6. ASSUME NEW u \in Tasks \ purged' PROVE ApartOK(u)'
  BY Zenon, <1>1 DEF IInv, ApartOK, Abandoned
<1>. QED
  BY Zenon, <1>2, <1>3, <1>4, <1>5, <1>6 DEF IInv

-----------------------------------------------------------------------------
(* Handlers.                                                               *)

Handlers == [todo : SUBSET Tasks, reading : Tasks \cup {NoTask}, snap : Statuses,
             then : {"return", "cancel", "ask"}, subject : Tasks \cup {NoTask}]

(* What a handler may do to the statuses and to its own progress: a status *)
(* it changes becomes one that settles nothing, a cancellation stays, and  *)
(* what it reads is the status of that moment.                             *)
LEMMA StatusChange ==
    ASSUME IInv, mode = "up",
           UNCHANGED <<bridge, res, active, observed, env, runs, native, mode, purged, crashes>>,
           tasks' \in [Tasks -> Statuses],
           \A u \in Tasks : /\ tasks'[u] = Absent <=> tasks[u] = Absent
                            /\ tasks'[u] # tasks[u] => Unsettled(tasks'[u]) /\ Detached(tasks'[u])
                            /\ tasks[u].state = "cancelled" => tasks'[u].state = "cancelled",
           HandlerOK', svc' \in Handlers,
           svc'.reading # NoTask => svc'.snap = tasks'[svc'.reading],
           revoked' \subseteq Bridges, burned' \subseteq Bridges, faults' \in 0..MaxFaults
    PROVE  IInv'
<1>1. TypeOK'
  BY Zenon DEF IInv, TypeOK, Handlers
<1>2. PurgedStaysGone' /\ HandlerOK' /\ DownOK'
  BY Zenon DEF IInv, PurgedStaysGone, DownOK, TypeOK
<1>3. ASSUME NEW u \in Tasks PROVE RunOK(u)'
  BY Zenon DEF IInv, RunOK
<1>4. ASSUME NEW u \in Tasks \ purged, NEW r \in Resources, Uses(u, r)' PROVE LiveOK(u, r)'
  <2>1. LiveOK(u, r)
    BY Zenon, <1>4 DEF IInv, Uses
  <2>2. Unsettled(tasks'[u])
    BY Zenon, <2>1 DEF LiveOK
  <2>3. svc'.reading = u => Unsettled(svc'.snap)
    BY Zenon, <2>2, ConstantsAssumption
  <2>. QED
    BY Zenon, <2>1, <2>2, <2>3 DEF LiveOK
<1>5. ASSUME NEW u \in Tasks, NEW r \in Resources, Turn(u, r) \in native' PROVE TurnOK(u, r)'
  <2>1. TurnOK(u, r)
    BY Zenon, <1>5 DEF IInv
  <2>. QED
    BY Zenon, <2>1 DEF TurnOK
<1>6. ASSUME NEW u \in Tasks \ purged PROVE ApartOK(u)'
  <2>1. \A turn \in native : Abandoned(turn) => Abandoned(turn)'
    BY Zenon DEF Abandoned, IInv, TypeOK
  <2>. QED
    BY Zenon, <2>1 DEF IInv, ApartOK
<1>. QED
  BY Zenon, <1>1, <1>2, <1>3, <1>4, <1>5, <1>6 DEF IInv

(* The idle handler.                                                       *)
LEMMA IdleType ==
    Idle \in Handlers /\ Idle.todo = {} /\ Idle.reading = NoTask /\ Idle.then = "return"
  BY Zenon, Written DEF Idle, Handler, Handlers

(* Stop ends Pastey's authority over a running or uncertain task.          *)
LEMMA CancelTaskKeeps ==
    ASSUME IInv, NEW t \in Tasks, cancel_task(t) PROVE IInv'
<1>1. /\ mode = "up" /\ (tasks[t].state = "running" \/ uncertain(tasks[t]))
      /\ tasks' = [tasks EXCEPT ![t] = Cancelled("cancel_requested")]
      /\ svc' = Handler({t}, NoTask, Absent, "cancel", t)
      /\ UNCHANGED <<bridge, res, active, observed, revoked, env, burned, runs, native, mode,
                     purged, crashes, faults>>
  BY Zenon DEF cancel_task, Ready
<1>2. /\ Cancelled("cancel_requested") \in Statuses /\ Cancelled("cancel_requested") # Absent
      /\ Cancelled("cancel_requested").state = "cancelled"
      /\ Unsettled(Cancelled("cancel_requested")) /\ Detached(Cancelled("cancel_requested"))
  BY Zenon, Written DEF Unsettled, Detached
<1>3. TypeOK /\ tasks[t] # Absent
  BY Zenon, <1>1, Written DEF IInv, uncertain
<1>4. svc'.todo = {t} /\ svc'.reading = NoTask /\ svc'.subject = t /\ svc' \in Handlers
  BY Zenon, <1>1, Written DEF Handler, Handlers
<1>5. HandlerOK'
  BY Zenon, <1>1, <1>2, <1>3, <1>4 DEF HandlerOK, TypeOK
<1>. QED
  BY Zenon, <1>1, <1>2, <1>3, <1>4, <1>5, StatusChange DEF TypeOK

(* Stop over the Bridge.                                                   *)
LEMMA StopKeeps ==
    ASSUME IInv, NEW t \in Tasks, stop_bridge_task_authority(t) PROVE IInv'
<1>. DEFINE c == IF tasks[t].state \in {"completed", "failed", "cancelled"} THEN tasks[t]
                 ELSE Cancelled("cancel_requested")
<1>1. /\ mode = "up" /\ tasks[t] # Absent
      /\ tasks' = [tasks EXCEPT ![t] = c]
      /\ svc' = Handler({t}, NoTask, Absent, "ask", t)
      /\ UNCHANGED <<bridge, res, active, observed, revoked, env, burned, runs, native, mode,
                     purged, crashes, faults>>
  BY Zenon DEF stop_bridge_task_authority, Ready, IInv, TypeOK
<1>2. TypeOK
  BY Zenon DEF IInv
<1>3. /\ c \in Statuses /\ c # Absent
      /\ c # tasks[t] => Unsettled(c) /\ Detached(c)
      /\ tasks[t].state = "cancelled" => c.state = "cancelled"
  BY Zenon, <1>1, <1>2, Written DEF Unsettled, Detached, TypeOK
<1>. HIDE DEF c
<1>4. svc'.todo = {t} /\ svc'.reading = NoTask /\ svc'.then = "ask" /\ svc' \in Handlers
  BY Zenon, <1>1, Written DEF Handler, Handlers
<1>5. HandlerOK'
  BY Zenon, <1>1, <1>2, <1>3, <1>4 DEF HandlerOK, TypeOK
<1>. QED
  BY Zenon, <1>1, <1>2, <1>3, <1>4, <1>5, StatusChange DEF TypeOK

(* The adapter has delivered the interrupt.                                *)
LEMMA AdapterCancelKeeps ==
    ASSUME IInv, AdapterCancel PROVE IInv'
<1>1. /\ mode = "up" /\ svc' = Idle
      /\ UNCHANGED <<tasks, bridge, res, active, observed, revoked, env, burned, runs, native, mode,
                     purged, crashes, faults>>
  BY Zenon DEF AdapterCancel, mem
<1>2. HandlerOK'
  BY Zenon, <1>1, IdleType DEF HandlerOK
<1>. QED
  BY Zenon, <1>1, <1>2, IdleType, StatusChange DEF IInv, TypeOK

(* A write that fails ends its handler.                                    *)
LEMMA PersistFailsKeeps ==
    ASSUME IInv, PersistFails PROVE IInv'
<1>1. /\ mode = "up" /\ svc' = Idle /\ CountFault
      /\ UNCHANGED <<tasks, bridge, res, active, observed, revoked, env, burned, runs, native, mode,
                     purged, crashes>>
  BY Zenon DEF PersistFails, mem
<1>2. HandlerOK'
  BY Zenon, <1>1, IdleType DEF HandlerOK
<1>3. faults' \in 0..MaxFaults
  BY <1>1, ConstantsAssumption DEF CountFault, IInv, TypeOK
<1>. QED
  BY Zenon, <1>1, <1>2, <1>3, IdleType, StatusChange DEF IInv, TypeOK

(* The adapter could not deliver: the code of the cancellation changes.    *)
LEMMA AdapterCancelFailsKeeps ==
    ASSUME IInv, AdapterCancelFails PROVE IInv'
<1>. DEFINE t == svc.subject
            c == Cancelled("cancel_delivery_uncertain")
<1>1. /\ mode = "up" /\ svc.then = "cancel"
      /\ tasks' = [tasks EXCEPT ![t].code = "cancel_delivery_uncertain"]
      /\ svc' = Handler({t}, NoTask, Absent, "return", NoTask)
      /\ UNCHANGED <<bridge, res, active, observed, revoked, env, burned, runs, native, mode,
                     purged, crashes, faults>>
  BY Zenon DEF AdapterCancelFails
<1>2. TypeOK /\ t \in Tasks /\ tasks[t].state = "cancelled" /\ tasks[t] \in Statuses
  BY Zenon, <1>1 DEF IInv, HandlerOK, TypeOK
<1>3. [tasks[t] EXCEPT !.code = "cancel_delivery_uncertain"] = c
  BY <1>2, StatusKinds DEF Cancelled, Status
<1>4. tasks' = [tasks EXCEPT ![t] = c]
  BY Zenon, <1>1, <1>2, <1>3 DEF TypeOK
<1>5. c \in Statuses /\ c # Absent /\ c.state = "cancelled" /\ Unsettled(c) /\ Detached(c)
  BY Zenon, Written DEF Unsettled, Detached
<1>6. tasks[t] # Absent
  BY Zenon, <1>2, Written
<1>. HIDE DEF c, t
<1>7. svc'.todo = {t} /\ svc'.reading = NoTask /\ svc'.then = "return" /\ svc' \in Handlers
  BY Zenon, <1>1, <1>2, Written, ConstantsAssumption DEF Handler, Handlers
<1>8. HandlerOK'
  BY Zenon, <1>1, <1>2, <1>4, <1>5, <1>7 DEF HandlerOK, TypeOK
<1>. QED
  BY ZenonT(40), <1>1, <1>2, <1>4, <1>5, <1>6, <1>7, <1>8, StatusChange DEF TypeOK

(* persist_envelope reads the status of a task.                            *)
LEMMA PersistReadKeeps ==
    ASSUME IInv, NEW t \in Tasks, PersistRead(t) PROVE IInv'
<1>1. /\ mode = "up" /\ t \in svc.todo
      /\ svc' = [svc EXCEPT !.reading = t, !.snap = tasks[t]]
      /\ UNCHANGED <<tasks, bridge, res, active, observed, revoked, env, burned, runs, native, mode,
                     purged, crashes, faults>>
  BY Zenon DEF PersistRead, mem
<1>2. svc \in Handlers /\ tasks[t] \in Statuses
  BY Zenon DEF IInv, TypeOK, Handlers
<1>3. /\ svc' \in Handlers /\ svc'.reading = t /\ svc'.snap = tasks[t]
      /\ svc'.todo = svc.todo /\ svc'.then = svc.then /\ svc'.subject = svc.subject
  BY Zenon, <1>1, <1>2 DEF Handlers
<1>4. HandlerOK'
  BY Zenon, <1>1, <1>3 DEF IInv, HandlerOK
<1>. QED
  BY Zenon, <1>1, <1>3, <1>4, StatusChange DEF IInv, TypeOK

(* Session loss makes unobserved running tasks uncertain.                  *)
LEMMA RevokeKeeps ==
    ASSUME IInv, NEW b \in Bridges, revoke_bridge_session(b) PROVE IInv'
<1>. DEFINE c == Status("interrupted", "reconciliation_required")
<1>1. /\ mode = "up"
      /\ tasks' = [t \in Tasks |-> IF t \in OwnedBy(b) \ observed /\ tasks[t].state = "running"
                                   THEN c ELSE tasks[t]]
      /\ svc' = Handler(OwnedBy(b), NoTask, Absent, "return", NoTask)
      /\ UNCHANGED <<bridge, res, active, observed, revoked, env, burned, runs, native, mode,
                     purged, crashes, faults>>
  BY Zenon DEF revoke_bridge_session, Ready
<1>2. c \in Statuses /\ c # Absent /\ Unsettled(c) /\ Detached(c)
  BY Zenon, Written DEF Unsettled, Detached, uncertain
<1>3. OwnedBy(b) \subseteq Tasks /\ \A t \in OwnedBy(b) : tasks[t] # Absent
  BY Zenon DEF OwnedBy
<1>4. svc'.todo = OwnedBy(b) /\ svc'.reading = NoTask /\ svc'.then = "return" /\ svc' \in Handlers
  BY Zenon, <1>1, <1>3, Written DEF Handler, Handlers
<1>. HIDE DEF c
<1>5. /\ tasks' \in [Tasks -> Statuses]
      /\ \A u \in Tasks : /\ tasks'[u] = Absent <=> tasks[u] = Absent
                          /\ tasks'[u] # tasks[u] => Unsettled(tasks'[u]) /\ Detached(tasks'[u])
                          /\ tasks[u].state = "cancelled" => tasks'[u].state = "cancelled"
  BY Zenon, <1>1, <1>2, <1>3 DEF IInv, TypeOK
<1>6. HandlerOK'
  BY Zenon, <1>1, <1>3, <1>4, <1>5 DEF HandlerOK
<1>. QED
  BY Zenon, <1>1, <1>4, <1>5, <1>6, StatusChange DEF IInv, TypeOK

(* A purge that storage stops has already revoked the tasks' authority.    *)
LEMMA PurgeFailsKeeps ==
    ASSUME IInv, NEW b \in Bridges, NEW final \in BOOLEAN, PurgeFails(b, final) PROVE IInv'
<1>. DEFINE c == Cancelled("authority_revoked")
<1>1. /\ mode = "up" /\ svc = Idle /\ CountFault
      /\ tasks' = [t \in Tasks |-> IF t \in OwnedBy(b) THEN c ELSE tasks[t]]
      /\ revoked' = revoked \cup {b} /\ Tombstone(b, final)
      /\ UNCHANGED <<bridge, res, active, observed, env, runs, svc, native, mode, purged, crashes>>
  BY Zenon DEF PurgeFails, Ready
<1>2. c \in Statuses /\ c # Absent /\ Unsettled(c) /\ Detached(c) /\ c.state = "cancelled"
  BY Zenon, Written DEF Unsettled, Detached, uncertain
<1>3. OwnedBy(b) \subseteq Tasks /\ \A t \in OwnedBy(b) : tasks[t] # Absent
  BY Zenon DEF OwnedBy
<1>. HIDE DEF c
<1>4. /\ tasks' \in [Tasks -> Statuses]
      /\ \A u \in Tasks : /\ tasks'[u] = Absent <=> tasks[u] = Absent
                          /\ tasks'[u] # tasks[u] => Unsettled(tasks'[u]) /\ Detached(tasks'[u])
                          /\ tasks[u].state = "cancelled" => tasks'[u].state = "cancelled"
  BY Zenon, <1>1, <1>2, <1>3 DEF IInv, TypeOK
<1>5. revoked' \subseteq Bridges /\ burned' \subseteq Bridges /\ faults' \in 0..MaxFaults
  BY <1>1, ConstantsAssumption DEF IInv, TypeOK, Tombstone, CountFault
<1>6. svc' = Idle /\ HandlerOK'
  BY Zenon, <1>1, IdleType DEF HandlerOK
<1>. QED
  BY Zenon, <1>1, <1>4, <1>5, <1>6, IdleType, StatusChange

(* A Bridge is trusted again.                                              *)
LEMMA ReadmitKeeps ==
    ASSUME IInv, NEW b \in Bridges, readmit_bridge_after_fresh_trust(b) PROVE IInv'
<1>1. /\ mode = "up" /\ svc' = Idle /\ revoked' \subseteq revoked
      /\ UNCHANGED <<tasks, bridge, res, active, observed, env, burned, runs, native, mode,
                     purged, crashes, faults>>
  BY Zenon DEF readmit_bridge_after_fresh_trust, Ready
<1>2. HandlerOK'
  BY Zenon, <1>1, IdleType DEF HandlerOK
<1>. QED
  BY Zenon, <1>1, <1>2, IdleType, StatusChange DEF IInv, TypeOK

(* The handler writes the status it read; nothing it read of a task with a *)
(* live turn says that the turn is over.                                   *)
LEMMA PersistWriteKeeps ==
    ASSUME IInv, PersistWrite PROVE IInv'
<1>. DEFINE t == svc.reading
<1>1. /\ mode = "up" /\ t # NoTask
      /\ env' = [env EXCEPT ![t] = Envelope(svc.snap, bridge[t], res[t])]
      /\ svc' = IF svc.todo = {t} /\ svc.then = "return" THEN Idle
                ELSE Handler(svc.todo \ {t}, NoTask, Absent, svc.then, svc.subject)
      /\ UNCHANGED <<tasks, bridge, res, active, observed, revoked, burned, runs, native, mode,
                     purged, crashes, faults>>
  BY Zenon DEF PersistWrite, mem
<1>2. svc \in Handlers /\ env \in [Tasks -> Envelopes] /\ TypeOK
  BY Zenon DEF IInv, TypeOK, Handlers, Envelopes
<1>3. t \in svc.todo /\ t \in Tasks /\ tasks[t] # Absent
  BY Zenon, <1>1, <1>2 DEF IInv, HandlerOK, Handlers
<1>4. /\ svc' \in Handlers /\ svc'.reading = NoTask /\ svc'.todo \subseteq svc.todo
      /\ svc'.then = "cancel" => svc.then = "cancel" /\ svc'.subject = svc.subject
  BY Zenon, <1>1, <1>2, Written, IdleType DEF Handlers, Handler
<1>5. t \notin purged
  BY Zenon, <1>3 DEF IInv, PurgedStaysGone
<1>. HIDE DEF t
<1>6. /\ svc.snap \in Statuses /\ bridge[t] \in Bridges \cup {Local}
      /\ res[t] \in Resources \cup {NoResource}
  BY Zenon, <1>2, <1>3 DEF TypeOK
<1>7. /\ env' \in [Tasks -> Envelopes] /\ \A u \in Tasks \ {t} : env'[u] = env[u]
      /\ env'[t].status = svc.snap /\ env'[t].res = res[t] /\ env'[t].bridge = bridge[t]
  BY Zenon, <1>1, <1>2, <1>3, <1>6 DEF Envelopes, Envelope
<1>8. TypeOK'
  BY Zenon, <1>1, <1>2, <1>4, <1>7 DEF TypeOK, Envelopes, Handlers
<1>9. PurgedStaysGone' /\ HandlerOK' /\ DownOK' /\ \A u \in Tasks : RunOK(u)'
  <2>1. PurgedStaysGone'
    BY Zenon, <1>1, <1>2, <1>5, <1>7 DEF IInv, PurgedStaysGone, TypeOK
  <2>2. HandlerOK'
    BY Zenon, <1>1, <1>4 DEF IInv, HandlerOK
  <2>. QED
    BY Zenon, <1>1, <2>1, <2>2 DEF IInv, DownOK, RunOK
<1>10. ASSUME NEW u \in Tasks \ purged', NEW r \in Resources, Uses(u, r)' PROVE LiveOK(u, r)'
  <2>1. LiveOK(u, r)
    BY Zenon, <1>1, <1>10 DEF IInv, Uses
  <2>2. /\ Unsettled(env'[u].status) /\ env'[u].res = r
        /\ r \in Outliving => env'[u].bridge = Local
    BY Zenon, <1>1, <1>7, <2>1 DEF LiveOK, t
  <2>. QED
    BY Zenon, <1>1, <1>4, <2>1, <2>2, ConstantsAssumption DEF LiveOK
<1>11. ASSUME NEW u \in Tasks, NEW r \in Resources, Turn(u, r) \in native' PROVE TurnOK(u, r)'
  <2>1. TurnOK(u, r)
    BY Zenon, <1>1, <1>11 DEF IInv
  <2>. QED
    BY Zenon, <1>1, <2>1 DEF TurnOK
<1>12. ASSUME NEW u \in Tasks \ purged' PROVE ApartOK(u)'
  BY Zenon, <1>1 DEF IInv, ApartOK, Abandoned
<1>. QED
  BY Zenon, <1>8, <1>9, <1>10, <1>11, <1>12 DEF IInv

-----------------------------------------------------------------------------
(* Starting.                                                               *)

(* A live turn that is accounted for makes the occupancy check refuse.     *)
LEMMA LiveTurnRefuses ==
    ASSUME IInv, mode = "up", NEW t \in Tasks, NEW r \in Resources, Turn(t, r) \in native,
           NEW q \in Resources, <<r, q>> \in Overlaps, ~Abandoned(Turn(t, r))
    PROVE  invocation_has_authoritative_owner(q)
<1>1. t \notin purged /\ ~(r \in Outliving /\ tasks[t].state = "cancelled" /\ t \notin observed)
  BY Zenon DEF Abandoned, Turn
<1>2. LiveOK(t, r) /\ TurnOK(t, r) /\ RunOK(t)
  BY Zenon, <1>1 DEF IInv, Uses
<1>3. res[t] = r /\ tasks[t] # Absent
  BY Zenon, <1>2, Written DEF LiveOK, Unsettled
<1>4. t \in observed \/ uncertain(tasks[t])
  <2>1. CASE runs[t].phase # "none"
    BY Zenon, <1>2, <2>1 DEF RunOK
  <2>2. CASE runs[t].phase = "none"
    BY Zenon, <1>1, <1>2, <2>2 DEF TurnOK, Detached
  <2>. QED
    BY Zenon, <2>1, <2>2
<1>. QED
  BY Zenon, <1>3, <1>4 DEF invocation_has_authoritative_owner

(* A start takes an id without a live turn or an observer.                 *)
LEMMA StartIsFresh ==
    ASSUME IInv, NEW t \in Tasks, NEW owner, NEW r \in Resources, start_invocation(t, owner, r)
    PROVE  /\ t \notin purged /\ mode = "up" /\ svc = Idle
           /\ runs[t].phase = "none" /\ \A q \in Resources : Turn(t, q) \notin native
<1>1. t \notin purged /\ mode = "up" /\ svc = Idle /\ tasks[t] = Absent
  BY Zenon DEF start_invocation, Ready
<1>2. runs[t].phase = "none"
  BY Zenon, <1>1 DEF IInv, RunOK
<1>3. ASSUME NEW q \in Resources, Turn(t, q) \in native PROVE FALSE
  <2>1. LiveOK(t, q)
    BY Zenon, <1>1, <1>3 DEF IInv, Uses
  <2>. QED
    BY Zenon, <1>1, <2>1, Written DEF LiveOK, Unsettled
<1>. QED
  BY Zenon, <1>1, <1>2, <1>3

(* The envelope is written and the observer spawned.                       *)
LEMMA StartObservedKeeps ==
    ASSUME IInv, NEW t \in Tasks, NEW owner \in Bridges \cup {Local}, NEW r \in Resources,
           StartObserved(t, owner, r)
    PROVE  IInv'
<1>. DEFINE c == Status("running", "none")
            e == Envelope(c, owner, r)
            n == Run("starting", r, "none", Absent)
<1>1. /\ tasks[t] = Absent /\ (r \in Outliving => owner = Local)
      /\ ~invocation_has_authoritative_owner(r)
      /\ tasks' = [tasks EXCEPT ![t] = c] /\ bridge' = [bridge EXCEPT ![t] = owner]
      /\ res' = [res EXCEPT ![t] = r] /\ env' = [env EXCEPT ![t] = e]
      /\ active' = active \cup {r} /\ observed' = observed \cup {t}
      /\ runs' = [runs EXCEPT ![t] = n]
      /\ UNCHANGED <<revoked, burned, svc, native, mode, purged, crashes, faults>>
  BY Zenon DEF StartObserved, start_invocation
<1>2. /\ t \notin purged /\ mode = "up" /\ svc = Idle
      /\ runs[t].phase = "none" /\ \A q \in Resources : Turn(t, q) \notin native
  BY Zenon, StartIsFresh DEF StartObserved
<1>3. c \in Statuses /\ c # Absent /\ Unsettled(c)
  BY Zenon, Written DEF Unsettled
<1>4. e \in Envelopes /\ e.status = c /\ e.bridge = owner /\ e.res = r
  BY Zenon, <1>3 DEF Envelope, Envelopes
<1>5. n \in Runs /\ n.phase = "starting" /\ n.key = r
  BY Zenon, Written DEF Run, Runs, Phases
<1>. HIDE DEF c, e, n
<1>6. /\ tasks \in [Tasks -> Statuses] /\ bridge \in [Tasks -> Bridges \cup {Local}]
      /\ res \in [Tasks -> Resources \cup {NoResource}] /\ env \in [Tasks -> Envelopes]
      /\ runs \in [Tasks -> Runs] /\ TypeOK
  BY Zenon DEF IInv, TypeOK, Envelopes, Runs, Phases
<1>7. /\ tasks' \in [Tasks -> Statuses] /\ bridge' \in [Tasks -> Bridges \cup {Local}]
      /\ res' \in [Tasks -> Resources \cup {NoResource}] /\ env' \in [Tasks -> Envelopes]
      /\ runs' \in [Tasks -> Runs]
  BY Zenon, <1>1, <1>3, <1>4, <1>5, <1>6
<1>8. /\ tasks'[t] = c /\ bridge'[t] = owner /\ res'[t] = r /\ env'[t] = e /\ runs'[t] = n
      /\ \A u \in Tasks \ {t} : /\ tasks'[u] = tasks[u] /\ bridge'[u] = bridge[u]
                                /\ res'[u] = res[u] /\ env'[u] = env[u] /\ runs'[u] = runs[u]
  BY Zenon, <1>1, <1>6
<1>9. TypeOK'
  BY Zenon, <1>1, <1>6, <1>7 DEF TypeOK, Envelopes, Runs, Phases
<1>10. PurgedStaysGone' /\ HandlerOK' /\ DownOK'
  <2>1. PurgedStaysGone'
    BY Zenon, <1>1, <1>2, <1>6, <1>8 DEF IInv, PurgedStaysGone, TypeOK
  <2>2. HandlerOK'
    BY Zenon, <1>1, <1>2, IdleType DEF HandlerOK
  <2>. QED
    BY Zenon, <1>1, <1>2, <2>1, <2>2 DEF DownOK
<1>11. ASSUME NEW u \in Tasks PROVE RunOK(u)'
  <2>1. CASE u = t
    BY Zenon, <1>1, <1>3, <1>5, <1>8, <2>1 DEF RunOK
  <2>2. CASE u # t
    BY Zenon, <1>1, <1>8, <2>2 DEF IInv, RunOK
  <2>. QED
    BY Zenon, <2>1, <2>2
<1>12. ASSUME NEW u \in Tasks \ purged', NEW q \in Resources, Uses(u, q)' PROVE LiveOK(u, q)'
  <2>1. CASE u = t
    <3>1. q = r
      BY Zenon, <1>1, <1>2, <1>5, <1>8, <1>12, <2>1 DEF Uses
    <3>2. svc'.reading # t
      BY Zenon, <1>1, <1>2, IdleType, ConstantsAssumption
    <3>. QED
      BY Zenon, <1>1, <1>2, <1>3, <1>4, <1>5, <1>8, <2>1, <3>1, <3>2 DEF LiveOK
  <2>2. CASE u # t
    <3>1. LiveOK(u, q)
      BY ZenonT(40), <1>1, <1>8, <1>12, <2>2 DEF IInv, Uses
    <3>. QED
      BY Zenon, <1>1, <1>8, <2>2, <3>1 DEF LiveOK
  <2>. QED
    BY Zenon, <2>1, <2>2
<1>13. ASSUME NEW u \in Tasks, NEW q \in Resources, Turn(u, q) \in native' PROVE TurnOK(u, q)'
  <2>1. u # t /\ TurnOK(u, q)
    BY Zenon, <1>1, <1>2, <1>13 DEF IInv
  <2>. QED
    BY Zenon, <1>1, <1>8, <2>1 DEF TurnOK
<1>14. \A turn \in native : turn.task # t /\ turn.task \in Tasks /\ turn.res \in Resources
                            /\ turn = Turn(turn.task, turn.res)
  BY <1>2, <1>6 DEF TypeOK, Turn
<1>15. \A turn \in native : Abandoned(turn) => Abandoned(turn)'
  BY Zenon, <1>1, <1>8, <1>14 DEF Abandoned
<1>16. \A turn \in native : Abandoned(turn) \/ <<turn.res, r>> \notin Overlaps
  BY <1>1, <1>2, <1>14, LiveTurnRefuses
<1>17. ASSUME NEW u \in Tasks \ (purged \cup {t}), runs[u].phase = "starting"
       PROVE  <<runs[u].key, r>> \notin Overlaps /\ <<r, runs[u].key>> \notin Overlaps
  <2>1. u \in observed /\ tasks[u] # Absent /\ res[u] = runs[u].key
    BY Zenon, <1>2, <1>17 DEF IInv, RunOK
  <2>2. <<runs[u].key, r>> \notin Overlaps
    BY Zenon, <1>1, <2>1 DEF invocation_has_authoritative_owner
  <2>. QED
    BY Zenon, <2>2, OverlapsAssumption
<1>18. ASSUME NEW u \in Tasks \ purged' PROVE ApartOK(u)'
  <2>1. CASE u = t
    BY Zenon, <1>1, <1>5, <1>8, <1>15, <1>16, <1>17, <2>1 DEF ApartOK
  <2>2. CASE u # t
    <3>1. ApartOK(u)
      BY Zenon, <1>1, <2>2 DEF IInv
    <3>. QED
      BY Zenon, <1>1, <1>5, <1>8, <1>15, <1>17, <2>2, <3>1 DEF ApartOK
  <2>. QED
    BY Zenon, <2>1, <2>2
<1>. QED
  BY Zenon, <1>9, <1>10, <1>11, <1>12, <1>13, <1>18 DEF IInv

(* The start could not be recorded: the task is visible, without a run.    *)
LEMMA StartUnrecordedKeeps ==
    ASSUME IInv, NEW t \in Tasks, NEW owner \in Bridges \cup {Local}, NEW r \in Resources,
           StartUnrecorded(t, owner, r)
    PROVE  IInv'
<1>. DEFINE c == Status("running", "none")
<1>1. /\ tasks' = [tasks EXCEPT ![t] = c] /\ bridge' = [bridge EXCEPT ![t] = owner]
      /\ res' = [res EXCEPT ![t] = r] /\ CountFault /\ tasks[t] = Absent
      /\ UNCHANGED <<active, observed, revoked, env, burned, runs, svc, native, mode, purged,
                     crashes>>
  BY Zenon DEF StartUnrecorded, start_invocation
<1>2. /\ t \notin purged /\ mode = "up" /\ svc = Idle
      /\ runs[t].phase = "none" /\ \A q \in Resources : Turn(t, q) \notin native
  BY Zenon, StartIsFresh DEF StartUnrecorded
<1>3. c \in Statuses /\ c # Absent /\ TypeOK
  BY Zenon, Written DEF IInv
<1>. HIDE DEF c
<1>4. /\ tasks' \in [Tasks -> Statuses] /\ bridge' \in [Tasks -> Bridges \cup {Local}]
      /\ res' \in [Tasks -> Resources \cup {NoResource}]
      /\ \A u \in Tasks \ {t} : tasks'[u] = tasks[u] /\ bridge'[u] = bridge[u] /\ res'[u] = res[u]
  BY Zenon, <1>1, <1>3 DEF TypeOK
<1>5. faults' \in 0..MaxFaults
  BY <1>1, <1>3, ConstantsAssumption DEF TypeOK, CountFault
<1>6. TypeOK'
  BY Zenon, <1>1, <1>3, <1>4, <1>5 DEF TypeOK
<1>7. PurgedStaysGone' /\ HandlerOK' /\ DownOK'
  <2>1. PurgedStaysGone'
    BY Zenon, <1>1, <1>2, <1>3, <1>4 DEF IInv, PurgedStaysGone, TypeOK
  <2>2. HandlerOK'
    BY Zenon, <1>1, <1>2, IdleType DEF HandlerOK
  <2>. QED
    BY Zenon, <1>1, <1>2, <2>1, <2>2 DEF DownOK
<1>8. ASSUME NEW u \in Tasks PROVE RunOK(u)'
  BY Zenon, <1>1, <1>2, <1>4 DEF IInv, RunOK
<1>9. ASSUME NEW u \in Tasks \ purged', NEW q \in Resources, Uses(u, q)' PROVE LiveOK(u, q)'
  <2>1. u # t /\ LiveOK(u, q)
    BY Zenon, <1>1, <1>2, <1>9 DEF IInv, Uses
  <2>. QED
    BY Zenon, <1>1, <1>4, <2>1 DEF LiveOK
<1>10. ASSUME NEW u \in Tasks, NEW q \in Resources, Turn(u, q) \in native' PROVE TurnOK(u, q)'
  <2>1. u # t /\ TurnOK(u, q)
    BY Zenon, <1>1, <1>2, <1>10 DEF IInv
  <2>. QED
    BY Zenon, <1>1, <1>4, <2>1 DEF TurnOK
<1>11. ASSUME NEW u \in Tasks \ purged' PROVE ApartOK(u)'
  <2>1. \A turn \in native : turn.task # t /\ turn.task \in Tasks
    BY <1>2, <1>3 DEF TypeOK, Turn
  <2>2. \A turn \in native : Abandoned(turn) => Abandoned(turn)'
    BY Zenon, <1>1, <1>4, <2>1 DEF Abandoned
  <2>. QED
    BY Zenon, <1>1, <2>2 DEF IInv, ApartOK
<1>. QED
  BY Zenon, <1>6, <1>7, <1>8, <1>9, <1>10, <1>11 DEF IInv

-----------------------------------------------------------------------------
(* The tasks of a purged Bridge are gone; a turn of theirs is accounted    *)
(* for by nobody.                                                          *)
LEMMA PurgeKeeps ==
    ASSUME IInv, NEW b \in Bridges, NEW final \in BOOLEAN, purge_bridge_authority(b, final)
    PROVE  IInv'
<1>. DEFINE own == OwnedBy(b)
<1>1. /\ mode = "up" /\ svc = Idle /\ revoked' = revoked \cup {b}
      /\ burned' \in {burned, burned \cup {b}} /\ purged' = purged \cup own
      /\ UNCHANGED <<active, observed, runs, svc, native, mode, crashes, faults>>
  BY Zenon DEF purge_bridge_authority, Ready, Tombstone
<1>2. TypeOK /\ own \subseteq Tasks /\ NoEnvelope \in Envelopes
  BY Zenon, Written DEF IInv, OwnedBy, NoEnvelope, Envelope, Envelopes
<1>3. /\ tasks' \in [Tasks -> Statuses] /\ bridge' \in [Tasks -> Bridges \cup {Local}]
      /\ res' \in [Tasks -> Resources \cup {NoResource}]
  BY Zenon, <1>2, Written DEF purge_bridge_authority, TypeOK
<1>4. env' \in [Tasks -> Envelopes]
  BY Zenon, <1>2 DEF purge_bridge_authority, TypeOK, Envelopes
<1>5. /\ \A u \in own : tasks'[u] = Absent /\ env'[u] = NoEnvelope
      /\ \A u \in Tasks \ own : /\ tasks'[u] = tasks[u] /\ bridge'[u] = bridge[u]
                                /\ res'[u] = res[u] /\ env'[u] = env[u]
  BY Zenon, <1>2 DEF purge_bridge_authority
<1>. HIDE DEF own
<1>6. TypeOK'
  BY Zenon, <1>1, <1>2, <1>3, <1>4 DEF TypeOK, Envelopes
<1>7. PurgedStaysGone' /\ HandlerOK' /\ DownOK'
  <2>1. PurgedStaysGone'
    BY Zenon, <1>1, <1>2, <1>5 DEF IInv, PurgedStaysGone, TypeOK
  <2>2. HandlerOK'
    BY Zenon, <1>1, IdleType DEF HandlerOK
  <2>. QED
    BY Zenon, <1>1, <2>1, <2>2 DEF DownOK
<1>8. ASSUME NEW u \in Tasks PROVE RunOK(u)'
  BY Zenon, <1>1, <1>5 DEF IInv, RunOK
<1>9. ASSUME NEW u \in Tasks \ purged', NEW q \in Resources, Uses(u, q)' PROVE LiveOK(u, q)'
  <2>1. u \notin own /\ LiveOK(u, q)
    BY Zenon, <1>1, <1>9 DEF IInv, Uses
  <2>. QED
    BY Zenon, <1>1, <1>5, <2>1 DEF LiveOK
<1>10. ASSUME NEW u \in Tasks, NEW q \in Resources, Turn(u, q) \in native' PROVE TurnOK(u, q)'
  <2>1. TurnOK(u, q)
    BY Zenon, <1>1, <1>10 DEF IInv
  <2>. QED
    BY Zenon, <1>1, <1>5, <2>1 DEF TurnOK
<1>11. ASSUME NEW u \in Tasks \ purged' PROVE ApartOK(u)'
  <2>1. \A turn \in native : Abandoned(turn) => Abandoned(turn)'
    BY Zenon, <1>1, <1>2, <1>5 DEF Abandoned, TypeOK
  <2>2. ApartOK(u)
    BY Zenon, <1>1 DEF IInv
  <2>. QED
    BY Zenon, <1>1, <2>1, <2>2 DEF ApartOK
<1>. QED
  BY Zenon, <1>6, <1>7, <1>8, <1>9, <1>10, <1>11 DEF IInv

(* After shutdown only turns that outlive Pastey run.                      *)
LEMMA ShutdownKeeps ==
    ASSUME IInv, shutdown PROVE IInv'
<1>1. /\ mode = "up" /\ svc = Idle /\ mode' = "closing" /\ active' = {} /\ observed' = {}
      /\ res' \in [Tasks -> Resources \cup {NoResource}]
      /\ native' \subseteq native /\ (\A turn \in native' : turn.res \in Outliving)
      /\ UNCHANGED <<tasks, bridge, revoked, env, burned, runs, svc, purged, crashes, faults>>
  BY Zenon DEF shutdown, Ready, Survivors
<1>2. TypeOK'
  BY Zenon, <1>1 DEF IInv, TypeOK
<1>3. PurgedStaysGone' /\ HandlerOK' /\ DownOK'
  BY Zenon, <1>1 DEF IInv, PurgedStaysGone, HandlerOK, DownOK
<1>4. ASSUME NEW u \in Tasks PROVE RunOK(u)'
  BY Zenon, <1>1 DEF IInv, RunOK
<1>5. ASSUME NEW u \in Tasks \ purged', NEW q \in Resources, Uses(u, q)' PROVE LiveOK(u, q)'
  <2>1. LiveOK(u, q)
    BY Zenon, <1>1, <1>5 DEF IInv, Uses
  <2>. QED
    BY Zenon, <1>1, <2>1 DEF LiveOK
<1>6. ASSUME NEW u \in Tasks, NEW q \in Resources, Turn(u, q) \in native' PROVE TurnOK(u, q)'
  <2>1. TurnOK(u, q)
    BY Zenon, <1>1, <1>6 DEF IInv
  <2>. QED
    BY Zenon, <1>1, <2>1 DEF TurnOK
<1>7. ASSUME NEW u \in Tasks \ purged' PROVE ApartOK(u)'
  <2>1. \A turn \in native : Abandoned(turn) => Abandoned(turn)'
    BY Zenon, <1>1 DEF Abandoned
  <2>. QED
    BY Zenon, <1>1, <2>1 DEF IInv, ApartOK
<1>. QED
  BY Zenon, <1>2, <1>3, <1>4, <1>5, <1>6, <1>7 DEF IInv

(* The process ends: of everything but the database and the turns that     *)
(* outlive Pastey, nothing is left.                                        *)
LEMMA ProcessEndsKeeps ==
    ASSUME IInv, ProcessEnds PROVE IInv'
<1>1. /\ mode # "down" /\ mode' = "down" /\ svc' = Idle /\ native' = Survivors
      /\ active' = {} /\ observed' = {} /\ revoked' = {} /\ crashes' \in 0..MaxCrashes
      /\ tasks' \in [Tasks -> Statuses] /\ bridge' \in [Tasks -> Bridges \cup {Local}]
      /\ res' \in [Tasks -> Resources \cup {NoResource}]
      /\ (\A u \in Tasks : tasks'[u] = Absent)
      /\ UNCHANGED <<env, burned, purged, faults>>
  BY Written, ConstantsAssumption DEF ProcessEnds, IInv, TypeOK
<1>2. runs' \in [Tasks -> Runs] /\ \A u \in Tasks : runs'[u] = NoRun
  BY Zenon, Written DEF ProcessEnds, NoRun, Run, Runs, Phases
<1>3. NoRun.phase = "none"
  BY Zenon DEF NoRun, Run
<1>4. TypeOK'
  BY Zenon, <1>1, <1>2, IdleType DEF IInv, TypeOK, Runs, Phases, Survivors, Handlers
<1>5. PurgedStaysGone' /\ HandlerOK' /\ DownOK'
  <2>1. PurgedStaysGone'
    BY Zenon, <1>1 DEF IInv, PurgedStaysGone, TypeOK
  <2>2. HandlerOK'
    BY Zenon, <1>1, IdleType DEF HandlerOK
  <2>. QED
    BY Zenon, <1>1, <1>2, <2>1, <2>2 DEF DownOK
<1>6. ASSUME NEW u \in Tasks PROVE RunOK(u)'
  BY Zenon, <1>2, <1>3 DEF RunOK
<1>7. ASSUME NEW u \in Tasks, NEW q \in Resources, Turn(u, q) \in native'
      PROVE  Turn(u, q) \in native /\ q \in Outliving
  BY Zenon, <1>1, <1>7 DEF Survivors, Turn
<1>8. ASSUME NEW u \in Tasks \ purged', NEW q \in Resources, Uses(u, q)' PROVE LiveOK(u, q)'
  <2>1. Turn(u, q) \in native /\ q \in Outliving
    BY Zenon, <1>2, <1>3, <1>7, <1>8 DEF Uses
  <2>2. LiveOK(u, q)
    BY Zenon, <1>1, <2>1 DEF IInv, Uses
  <2>3. svc'.reading # u
    BY Zenon, <1>1, IdleType, ConstantsAssumption
  <2>. QED
    BY Zenon, <1>1, <1>2, <1>3, <2>1, <2>2, <2>3 DEF LiveOK
<1>9. ASSUME NEW u \in Tasks, NEW q \in Resources, Turn(u, q) \in native' PROVE TurnOK(u, q)'
  BY Zenon, <1>1, <1>2, <1>3, <1>7, <1>9 DEF TurnOK
<1>10. ASSUME NEW u \in Tasks \ purged' PROVE ApartOK(u)'
  BY Zenon, <1>2, <1>3 DEF ApartOK
<1>. QED
  BY Zenon, <1>4, <1>5, <1>6, <1>8, <1>9, <1>10 DEF IInv

(* A restart restores each envelope and observes again what may run.       *)
LEMMA RestoreKeeps ==
    ASSUME IInv, restore_durable_envelopes PROVE IInv'
<1>. DEFINE stored == [t \in Tasks |-> IF env[t].bridge \in burned THEN NoEnvelope ELSE env[t]]
            again == {t \in Tasks : possibly_still_running(stored[t])}
<1>1. /\ mode = "down" /\ mode' = "up" /\ observed' = again
      /\ active' = {stored[t].res : t \in again}
      /\ UNCHANGED <<revoked, burned, svc, native, purged, crashes, faults>>
  BY Zenon DEF restore_durable_envelopes
<1>2. /\ NoEnvelope \in Envelopes /\ NoEnvelope.status = Absent
      /\ NoEnvelope.bridge = Local /\ NoEnvelope.res = NoResource
      /\ NoEnvelope = [NoEnvelope EXCEPT !.status = Absent]
  BY Written DEF NoEnvelope, Envelope, Envelopes
<1>3. stored \in [Tasks -> Envelopes] /\ TypeOK
  BY Zenon, <1>2 DEF IInv, TypeOK, Envelopes
<1>4. ASSUME NEW u \in Tasks
      PROVE  /\ tasks'[u] = restored_status(stored[u]) /\ bridge'[u] = stored[u].bridge
             /\ res'[u] = stored[u].res
             /\ env'[u] = IF unbound_local_restart(stored[u]) THEN NoEnvelope
                          ELSE [stored[u] EXCEPT !.status = restored_status(stored[u])]
             /\ runs'[u] = IF u \in again THEN Run("running", stored[u].res, "none", Absent)
                           ELSE NoRun
  BY Zenon DEF restore_durable_envelopes
<1>5. /\ tasks' = [u \in Tasks |-> tasks'[u]] /\ bridge' = [u \in Tasks |-> bridge'[u]]
      /\ res' = [u \in Tasks |-> res'[u]] /\ env' = [u \in Tasks |-> env'[u]]
      /\ runs' = [u \in Tasks |-> runs'[u]]
  BY Zenon DEF restore_durable_envelopes
<1>6. ASSUME NEW u \in Tasks, u \in purged \/ env[u].bridge \notin burned
      PROVE  stored[u] = env[u]
  BY Zenon, <1>2, <1>6, ConstantsAssumption DEF IInv, PurgedStaysGone, TypeOK
<1>7. \A u \in Tasks : u \in again <=> possibly_still_running(stored[u])
  BY Zenon
<1>8. again \subseteq Tasks
  BY Zenon
<1>. HIDE DEF stored, again
<1>9. ASSUME NEW u \in Tasks
      PROVE  /\ runs'[u] \in Runs /\ runs'[u].snap = Absent
             /\ u \in again => /\ runs'[u].phase = "running" /\ runs'[u].key = stored[u].res
                               /\ stored[u].res \in Outliving /\ stored[u].status # Absent
             /\ u \notin again => runs'[u].phase = "none"
  <2>1. possibly_still_running(stored[u]) => stored[u].res \in Outliving /\ stored[u].status # Absent
    BY Zenon, Written DEF possibly_still_running, uncertain
  <2>2. stored[u].res \in Resources \cup {NoResource}
    BY Zenon, <1>3 DEF Envelopes
  <2>3. CASE u \in again
    <3>1. runs'[u] = Run("running", stored[u].res, "none", Absent)
      BY Zenon, <1>4, <2>3
    <3>. QED
      BY Zenon, <1>7, <2>1, <2>2, <2>3, <3>1, RestoredRuns
  <2>4. CASE u \notin again
    <3>1. runs'[u] = NoRun
      BY Zenon, <1>4, <2>4
    <3>. QED
      BY Zenon, <2>4, <3>1, RestoredRuns
  <2>. QED
    BY Zenon, <2>3, <2>4
<1>10. ASSUME NEW u \in Tasks
       PROVE  /\ tasks'[u] \in Statuses /\ bridge'[u] \in Bridges \cup {Local}
              /\ res'[u] \in Resources \cup {NoResource} /\ env'[u] \in Envelopes
              /\ stored[u].status # Absent => tasks'[u] # Absent
  <2>1. restored_status(stored[u]) \in Statuses
        /\ (stored[u].status # Absent => restored_status(stored[u]) # Absent)
    BY Zenon, <1>3, RestoredStatus
  <2>. QED
    BY Zenon, <1>2, <1>3, <1>4, <2>1 DEF Envelopes
<1>11. TypeOK'
  <2>1. /\ tasks' \in [Tasks -> Statuses] /\ bridge' \in [Tasks -> Bridges \cup {Local}]
        /\ res' \in [Tasks -> Resources \cup {NoResource}] /\ env' \in [Tasks -> Envelopes]
        /\ runs' \in [Tasks -> Runs]
    BY Zenon, <1>5, <1>9, <1>10
  <2>2. active' \subseteq Resources /\ observed' \subseteq Tasks
    BY Zenon, <1>1, <1>8, <1>9, ConstantsAssumption
  <2>. QED
    BY Zenon, <1>1, <1>3, <2>1, <2>2 DEF TypeOK, Envelopes, Runs, Phases
<1>12. PurgedStaysGone'
  <2>1. SUFFICES ASSUME NEW u \in purged PROVE tasks'[u] = Absent /\ env'[u] = NoEnvelope
    BY Zenon, <1>1 DEF PurgedStaysGone
  <2>2. u \in Tasks /\ env[u] = NoEnvelope
    BY Zenon, <1>3 DEF IInv, PurgedStaysGone, TypeOK
  <2>3. stored[u] = NoEnvelope
    BY Zenon, <1>6, <2>2
  <2>4. restored_status(NoEnvelope) = Absent /\ ~unbound_local_restart(NoEnvelope)
    BY Zenon, <1>2, RestoredStatus
  <2>. QED
    BY <1>2, <1>4, <2>2, <2>3, <2>4
<1>13. HandlerOK' /\ DownOK'
  BY Zenon, <1>1, IdleType DEF IInv, HandlerOK, DownOK
<1>14. ASSUME NEW u \in Tasks PROVE RunOK(u)'
  BY Zenon, <1>1, <1>4, <1>9, <1>10, ConstantsAssumption DEF RunOK
<1>15. ASSUME NEW u \in Tasks, NEW q \in Resources, Turn(u, q) \in native
       PROVE  q \in Outliving
  <2>1. TurnOK(u, q) /\ runs[u].phase = "none"
    BY Zenon, <1>1, <1>15, RestoredRuns DEF IInv, DownOK
  <2>. QED
    BY Zenon, <2>1 DEF TurnOK
<1>16. ASSUME NEW u \in Tasks \ purged, NEW q \in Resources, Turn(u, q) \in native
       PROVE  /\ stored[u] = env[u] /\ stored[u].res = q /\ stored[u].bridge = Local
              /\ Unsettled(tasks'[u]) /\ Detached(tasks'[u]) /\ env'[u].status = tasks'[u]
              /\ env'[u].bridge = Local /\ env'[u].res = q
              /\ u \in again \/ tasks'[u].state = "cancelled"
  <2>1. LiveOK(u, q) /\ q \in Outliving
    BY Zenon, <1>15, <1>16 DEF IInv, Uses
  <2>2. /\ Unsettled(env[u].status) /\ env[u].res = q /\ env[u].bridge = Local
    BY Zenon, <2>1 DEF LiveOK
  <2>3. stored[u] = env[u]
    BY Zenon, <1>3, <1>6, <2>2, ConstantsAssumption DEF TypeOK
  <2>4. LET e == stored[u]
        IN  /\ Unsettled(restored_status(e)) /\ Detached(restored_status(e))
            /\ ~unbound_local_restart(e)
            /\ possibly_still_running(e) \/ e.status.state = "cancelled"
    BY Zenon, <1>3, <2>1, <2>2, <2>3, RestoredStatus
  <2>5. stored[u].status.state = "cancelled" => restored_status(stored[u]).state = "cancelled"
    BY Zenon, Written DEF restored_status, unbound_local_restart
  <2>6. tasks'[u] = restored_status(stored[u])
    BY Zenon, <1>4
  <2>7. env'[u] = [stored[u] EXCEPT !.status = tasks'[u]] /\ stored[u] \in Envelopes
    BY Zenon, <1>3, <1>4, <2>4, <2>6
  <2>8. env'[u].status = tasks'[u] /\ env'[u].bridge = Local /\ env'[u].res = q
    BY Zenon, <2>2, <2>3, <2>7 DEF Envelopes
  <2>9. u \in again \/ tasks'[u].state = "cancelled"
    BY Zenon, <1>7, <2>4, <2>5, <2>6
  <2>. QED
    BY Zenon, <2>2, <2>3, <2>4, <2>6, <2>8, <2>9
<1>17. ASSUME NEW u \in Tasks \ purged', NEW q \in Resources, Uses(u, q)' PROVE LiveOK(u, q)'
  <2>1. Turn(u, q) \in native
    BY Zenon, <1>1, <1>9, <1>17 DEF Uses
  <2>2. svc'.reading # u
    BY Zenon, <1>1, IdleType, ConstantsAssumption DEF IInv, HandlerOK
  <2>3. /\ Unsettled(tasks'[u]) /\ env'[u].status = tasks'[u] /\ env'[u].bridge = Local
        /\ env'[u].res = q /\ stored[u].res = q /\ stored[u].bridge = Local
    BY Zenon, <1>1, <1>16, <1>17, <2>1
  <2>4. res'[u] = q /\ bridge'[u] = Local /\ runs'[u].phase # "recorded"
    BY Zenon, <1>4, <1>9, <2>3
  <2>. QED
    BY Zenon, <1>1, <2>2, <2>3, <2>4 DEF LiveOK
<1>18. ASSUME NEW u \in Tasks, NEW q \in Resources, Turn(u, q) \in native' PROVE TurnOK(u, q)'
  <2>1. Turn(u, q) \in native /\ q \in Outliving
    BY Zenon, <1>1, <1>15, <1>18
  <2>2. CASE u \notin purged
    <3>1. stored[u].res = q /\ Detached(tasks'[u])
      BY Zenon, <1>16, <2>1, <2>2
    <3>2. \/ runs'[u].phase = "running" /\ runs'[u].key = q
          \/ runs'[u].phase = "none"
      BY Zenon, <1>9, <3>1
    <3>. QED
      BY Zenon, <2>1, <3>1, <3>2 DEF TurnOK
  <2>3. CASE u \in purged
    <3>1. u \notin again
      BY <1>2, <1>6, <1>9, <2>3 DEF IInv, PurgedStaysGone
    <3>. QED
      BY Zenon, <1>1, <1>9, <2>1, <2>3, <3>1 DEF TurnOK
  <2>. QED
    BY Zenon, <2>2, <2>3
<1>19. ASSUME NEW u \in Tasks \ purged' PROVE ApartOK(u)'
  BY Zenon, <1>9 DEF ApartOK
<1>. QED
  BY Zenon, <1>11, <1>12, <1>13, <1>14, <1>17, <1>18, <1>19 DEF IInv

-----------------------------------------------------------------------------
(* A fresh installation.                                                   *)
LEMMA InitIInv == Init => IInv
<1>. SUFFICES ASSUME Init PROVE IInv
  BY Zenon
<1>1. /\ \A t \in Tasks : tasks[t] = Absent /\ runs[t] = NoRun
      /\ native = {} /\ purged = {} /\ svc = Idle /\ mode = "up"
  BY Zenon DEF Init
<1>2. NoRun \in Runs /\ NoRun.phase = "none" /\ NoEnvelope \in Envelopes
  BY Zenon, Written DEF NoRun, Run, Runs, Phases, NoEnvelope, Envelope, Envelopes
<1>3. runs \in [Tasks -> Runs] /\ env \in [Tasks -> Envelopes] /\ svc \in Handlers
  BY Zenon, <1>2, IdleType DEF Init
<1>4. TypeOK
  BY <1>3, Written, ConstantsAssumption DEF Init, TypeOK, Runs, Phases, Envelopes, Handlers
<1>5. PurgedStaysGone /\ HandlerOK /\ DownOK
  BY Zenon, <1>1, IdleType DEF PurgedStaysGone, HandlerOK, DownOK
<1>6. /\ \A t \in Tasks : RunOK(t) /\ ApartOK(t)
      /\ \A t \in Tasks, r \in Resources : ~Uses(t, r)
  BY Zenon, <1>1, <1>2 DEF RunOK, ApartOK, Uses
<1>. QED
  BY Zenon, <1>1, <1>4, <1>5, <1>6 DEF IInv

(* Every step of the service, its observers and the native agents keeps    *)
(* the invariant.                                                          *)
LEMMA NextIInv == IInv /\ [Next]_vars => IInv'
<1>. SUFFICES ASSUME IInv, [Next]_vars PROVE IInv'
  BY Zenon
<1>1. ASSUME NEW t \in Tasks, NEW owner \in Bridges \cup {Local}, NEW r \in Resources,
             StartObserved(t, owner, r) \/ StartUnrecorded(t, owner, r)
      PROVE  IInv'
  BY Zenon, <1>1, StartObservedKeeps, StartUnrecordedKeeps
<1>2. ASSUME NEW t \in Tasks, ObserverStep(t) PROVE IInv'
  BY Zenon, <1>2, LaunchKeeps, LaunchRefusedKeeps, TurnReportedKeeps, RecordOutcomeKeeps,
     PersistOutcomeKeeps, PersistOutcomeFailsKeeps, ReleaseKeeps, UnobserveKeeps
     DEF ObserverStep
<1>3. ASSUME NEW t \in Tasks, cancel_task(t) \/ stop_bridge_task_authority(t) PROVE IInv'
  BY Zenon, <1>3, CancelTaskKeeps, StopKeeps
<1>4. ASSUME NEW turn \in native, NativeTurnEnds(turn) PROVE IInv'
  BY Zenon, <1>4, NativeTurnEndsKeeps
<1>5. CASE HandlerStep
  BY Zenon, <1>5, PersistReadKeeps, PersistWriteKeeps, PersistFailsKeeps, AdapterCancelKeeps,
     AdapterCancelFailsKeeps DEF HandlerStep
<1>6. ASSUME NEW b \in Bridges,
             revoke_bridge_session(b) \/ readmit_bridge_after_fresh_trust(b)
      PROVE  IInv'
  BY Zenon, <1>6, RevokeKeeps, ReadmitKeeps
<1>7. ASSUME NEW b \in Bridges, NEW final \in BOOLEAN,
             purge_bridge_authority(b, final) \/ PurgeFails(b, final)
      PROVE  IInv'
  BY Zenon, <1>7, PurgeKeeps, PurgeFailsKeeps
<1>8. CASE shutdown \/ ProcessEnds \/ restore_durable_envelopes
  BY Zenon, <1>8, ShutdownKeeps, ProcessEndsKeeps, RestoreKeeps
<1>9. CASE UNCHANGED vars
  <2>1. UNCHANGED <<tasks, bridge, res, active, observed, revoked, env, burned, runs, svc, native,
                    mode, purged, crashes, faults>>
    BY Zenon, <1>9 DEF vars, mem
  <2>2. TypeOK' /\ PurgedStaysGone' /\ HandlerOK' /\ DownOK'
    BY Zenon, <2>1 DEF IInv, TypeOK, PurgedStaysGone, HandlerOK, DownOK
  <2>3. ASSUME NEW u \in Tasks PROVE (RunOK(u) => RunOK(u)') /\ (ApartOK(u) => ApartOK(u)')
    BY Zenon, <2>1 DEF RunOK, ApartOK, Abandoned
  <2>4. ASSUME NEW u \in Tasks, NEW q \in Resources
        PROVE  /\ Uses(u, q)' => Uses(u, q)
               /\ LiveOK(u, q) => LiveOK(u, q)'
               /\ TurnOK(u, q) => TurnOK(u, q)'
    BY Zenon, <2>1 DEF Uses, LiveOK, TurnOK
  <2>5. native' = native /\ purged' = purged
    BY Zenon, <2>1
  <2>. QED
    BY Zenon, <2>2, <2>3, <2>4, <2>5 DEF IInv
<1>. QED
  BY Zenon, <1>1, <1>2, <1>3, <1>4, <1>5, <1>6, <1>7, <1>8, <1>9 DEF Next

(* The invariant holds always.                                             *)
THEOREM Invariant == Spec => []IInv
  BY InitIInv, NextIInv, PTL DEF Spec

(* The state of the service stays of its type.                             *)
THEOREM TypeCorrect == Spec => []TypeOK
<1>1. IInv => TypeOK
  BY Zenon DEF IInv
<1>. QED
  BY <1>1, Invariant, PTL

(* Nothing of a purged Bridge's tasks comes back, whichever observer       *)
(* reports late, whichever handler writes, over any number of restarts.    *)
THEOREM PurgeIsFinal == Spec => []PurgedStaysGone
<1>1. IInv => PurgedStaysGone
  BY Zenon DEF IInv
<1>. QED
  BY <1>1, Invariant, PTL

(* While a native turn can change a folder the occupancy check refuses     *)
(* that folder and every one that overlaps it, unless nobody on this Host  *)
(* accounts for the turn any more.                                         *)
THEOREM FolderIsHeld == Spec => []LiveTurnHoldsFolder
<1>1. IInv => LiveTurnHoldsFolder
  <2>. SUFFICES ASSUME IInv, mode = "up", NEW turn \in native, NEW r \in Resources,
                       <<turn.res, r>> \in Overlaps, ~Abandoned(turn)
                PROVE  invocation_has_authoritative_owner(r)
    BY Zenon DEF LiveTurnHoldsFolder
  <2>1. turn.task \in Tasks /\ turn.res \in Resources /\ turn = Turn(turn.task, turn.res)
    BY Zenon DEF IInv, TypeOK, Turn
  <2>. QED
    BY Zenon, <2>1, LiveTurnRefuses
<1>. QED
  BY <1>1, Invariant, PTL

(* A status that says that the turn is over is never shown while it runs.  *)
THEOREM SettledIsTrue == Spec => []SettledMeansEnded
<1>1. IInv => SettledMeansEnded
  <2>. SUFFICES ASSUME IInv, NEW turn \in native
                PROVE  /\ tasks[turn.task].state \notin {"completed", "failed"}
                       /\ tasks[turn.task].code \notin {"cancelled", "interrupted"}
    BY Zenon DEF SettledMeansEnded
  <2>1. turn.task \in Tasks /\ turn.res \in Resources /\ Turn(turn.task, turn.res) \in native
    BY Zenon DEF IInv, TypeOK, Turn
  <2>2. CASE turn.task \in purged \/ mode = "down"
    BY Zenon, <2>1, <2>2, Written DEF IInv, PurgedStaysGone, DownOK
  <2>3. CASE turn.task \notin purged /\ mode # "down"
    BY Zenon, <2>1, <2>3 DEF IInv, Uses, LiveOK, Unsettled
  <2>. QED
    BY Zenon, <2>2, <2>3
<1>. QED
  BY <1>1, Invariant, PTL

(* Only an observer's launch adds a native turn.                           *)
LEMMA WhoLaunches == [Next]_vars => native' \subseteq native \/ \E t \in Tasks : Launch(t)
  BY Zenon DEF Next, vars, mem, StartObserved, StartUnrecorded, ObserverStep, LaunchRefused, TurnReported,
     RecordOutcome, PersistOutcome, PersistOutcomeFails, ReleaseKey, ReleaseKeyUnreadable,
     Unobserve, cancel_task, stop_bridge_task_authority, NativeTurnEnds, HandlerStep, PersistRead,
     PersistWrite, PersistFails, AdapterCancel, AdapterCancelFails, revoke_bridge_session,
     readmit_bridge_after_fresh_trust, purge_bridge_authority, PurgeFails, shutdown, ProcessEnds,
     restore_durable_envelopes, Survivors

(* A turn is launched only where no turn that Pastey accounts for runs, in *)
(* that folder, inside it or around it.                                    *)
THEOREM AloneAtLaunch == Spec => LaunchedAlone
<1>1. IInv /\ [Next]_vars =>
        [\A new \in native' \ native : \A turn \in native :
           ~Abandoned(turn) /\ new.task \notin purged => <<turn.res, new.res>> \notin Overlaps]_vars
  <2>. SUFFICES ASSUME IInv, [Next]_vars, NEW new \in native' \ native, NEW turn \in native,
                       ~Abandoned(turn), new.task \notin purged
                PROVE  <<turn.res, new.res>> \notin Overlaps
    BY Zenon
  <2>1. PICK t \in Tasks : Launch(t)
    BY Zenon, WhoLaunches
  <2>2. /\ runs[t].phase = "starting" /\ new.task = t /\ new.res = runs[t].key
    BY <2>1 DEF Launch, Phase, Turn
  <2>. QED
    BY Zenon, <2>2 DEF IInv, ApartOK
<1>. QED
  BY <1>1, Invariant, PTL DEF Spec, LaunchedAlone

(* The steps that change a visible status.                                 *)
LEMMA WhoWritesStatus ==
    [Next]_vars =>
        \/ UNCHANGED tasks
        \/ \E t \in Tasks : \/ RecordOutcome(t) \/ cancel_task(t) \/ stop_bridge_task_authority(t)
                            \/ \E owner, r : start_invocation(t, owner, r)
        \/ AdapterCancelFails
        \/ \E b \in Bridges : \/ revoke_bridge_session(b)
                              \/ \E final : purge_bridge_authority(b, final) \/ PurgeFails(b, final)
        \/ ProcessEnds \/ restore_durable_envelopes
  BY Zenon DEF Next, vars, mem, StartObserved, StartUnrecorded, ObserverStep, Launch, LaunchRefused,
     TurnReported, PersistOutcome, PersistOutcomeFails, ReleaseKey, ReleaseKeyUnreadable, Unobserve,
     NativeTurnEnds, HandlerStep, PersistRead, PersistWrite, PersistFails, AdapterCancel,
     readmit_bridge_after_fresh_trust, shutdown

(* What a step can make of a visible status: a cancelled one stays, and an *)
(* uncertain one is resolved by a Stop, an observed end or a purge.        *)
LEMMA StatusMoves ==
    ASSUME IInv, [Next]_vars, NEW u \in Tasks
    PROVE  /\ tasks[u].state = "cancelled" /\ mode' # "down" =>
                tasks'[u].state \in {"cancelled", "absent"}
           /\ uncertain(tasks[u]) /\ ~uncertain(tasks'[u]) =>
                \/ tasks'[u].state = "cancelled" \/ runs[u].phase = "ended"
                \/ tasks'[u] = Absent
<1>. DEFINE Moves ==
              /\ tasks[u].state = "cancelled" /\ mode' # "down" =>
                   tasks'[u].state \in {"cancelled", "absent"}
              /\ uncertain(tasks[u]) /\ ~uncertain(tasks'[u]) =>
                   \/ tasks'[u].state = "cancelled" \/ runs[u].phase = "ended"
                   \/ tasks'[u] = Absent
<1>. SUFFICES Moves
  BY Zenon
<1>0. tasks \in [Tasks -> Statuses] /\ runs \in [Tasks -> Runs] /\ HandlerOK /\ DownOK
      /\ \A t \in Tasks : RunOK(t)
  BY Zenon DEF IInv, TypeOK, Runs, Phases
<1>1. CASE UNCHANGED tasks
  BY Zenon, <1>1
<1>2. ASSUME NEW t \in Tasks, RecordOutcome(t) PROVE Moves
  <2>1. CASE u # t \/ tasks[t] = Absent
    BY Zenon, <1>0, <1>2, <2>1, Written DEF RecordOutcome
  <2>2. CASE u = t /\ tasks[t] # Absent
    <3>1. tasks'[u] = recorded_status(tasks[u], runs[u].outcome) /\ runs[u].phase = "ended"
      BY Zenon, <1>0, <1>2, <2>2 DEF RecordOutcome
    <3>2. runs[u].outcome \in NativeTurnOutcomeV1
      BY Zenon, <1>0, <3>1 DEF RunOK, Runs
    <3>3. tasks[u].state = "cancelled" => tasks'[u].state = "cancelled"
      <4>1. tasks[u] \in Statuses /\ tasks[u] # Absent
        BY Zenon, <1>0, <2>2
      <4>. QED
        BY Zenon, <3>1, <3>2, <4>1, RecordedStatus
    <3>. QED
      BY Zenon, <3>1, <3>3
  <2>. QED
    BY Zenon, <2>1, <2>2
<1>3. ASSUME NEW t \in Tasks, cancel_task(t) \/ stop_bridge_task_authority(t) PROVE Moves
  <2>1. tasks'[u] = tasks[u] \/ tasks'[u] = Cancelled("cancel_requested")
    BY Zenon, <1>0, <1>3 DEF cancel_task, stop_bridge_task_authority
  <2>. QED
    BY Zenon, <2>1, Written
<1>4. ASSUME NEW t \in Tasks, NEW owner, NEW r, start_invocation(t, owner, r) PROVE Moves
  <2>1. tasks'[u] = tasks[u] \/ tasks[u] = Absent
    BY Zenon, <1>0, <1>4 DEF start_invocation
  <2>. QED
    BY Zenon, <2>1, Written DEF uncertain
<1>5. CASE AdapterCancelFails
  <2>1. tasks'[u] = tasks[u] \/ (tasks[u].state = "cancelled" /\ tasks'[u].state = "cancelled")
    <3>1. /\ svc.subject \in Tasks /\ tasks[svc.subject].state = "cancelled"
          /\ tasks' = [tasks EXCEPT ![svc.subject].code = "cancel_delivery_uncertain"]
      BY Zenon, <1>0, <1>5 DEF AdapterCancelFails, HandlerOK
    <3>2. tasks[svc.subject] = Cancelled(tasks[svc.subject].code)
      BY Zenon, <1>0, <3>1, StatusKinds
    <3>. QED
      BY Zenon, <1>0, <3>1, <3>2 DEF Cancelled, Status
  <2>. QED
    BY Zenon, <2>1
<1>6. ASSUME NEW b \in Bridges, revoke_bridge_session(b) PROVE Moves
  <2>1. tasks'[u] = tasks[u]
        \/ (tasks[u].state = "running" /\ tasks'[u] = Status("interrupted", "reconciliation_required"))
    BY Zenon, <1>6 DEF revoke_bridge_session
  <2>. QED
    BY Zenon, <2>1, Written DEF uncertain
<1>7. ASSUME NEW b \in Bridges, NEW final, purge_bridge_authority(b, final) \/ PurgeFails(b, final)
      PROVE  Moves
  <2>1. tasks'[u] \in {tasks[u], Absent, Cancelled("authority_revoked")}
    BY Zenon, <1>7 DEF purge_bridge_authority, PurgeFails
  <2>. QED
    BY Zenon, <2>1, Written
<1>8. CASE ProcessEnds
  BY Zenon, <1>8 DEF ProcessEnds
<1>9. CASE restore_durable_envelopes
  <2>1. tasks[u] = Absent
    BY Zenon, <1>0, <1>9 DEF DownOK, restore_durable_envelopes
  <2>. QED
    BY Zenon, <2>1, Written DEF uncertain
<1>. HIDE DEF Moves
<1>. QED
  BY Zenon, <1>1, <1>2, <1>3, <1>4, <1>5, <1>6, <1>7, <1>8, <1>9, WhoWritesStatus

(* A Stop wins over every late outcome and session loss.                   *)
THEOREM StopIsKept == Spec => StopWins
<1>1. IInv /\ [Next]_vars =>
        [\A t \in Tasks : tasks[t].state = "cancelled" /\ mode' # "down" =>
           tasks'[t].state \in {"cancelled", "absent"}]_vars
  BY Zenon, StatusMoves
<1>. QED
  BY <1>1, Invariant, PTL DEF Spec, StopWins

(* Only an observed end, a Stop or the end of the process resolves an      *)
(* uncertain turn.                                                         *)
THEOREM UncertaintyStays == Spec => UncertaintyIsKept
<1>1. IInv /\ [Next]_vars =>
        [\A t \in Tasks :
           uncertain(tasks[t]) /\ ~uncertain(tasks'[t]) =>
             \/ tasks'[t].state = "cancelled"
             \/ runs[t].phase = "ended"
             \/ tasks'[t] = Absent]_vars
  BY Zenon, StatusMoves
<1>. QED
  BY <1>1, Invariant, PTL DEF Spec, UncertaintyIsKept
=============================================================================
