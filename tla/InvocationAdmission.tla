-------------------------- MODULE InvocationAdmission --------------------------
(***************************************************************************)
(* Admission of a peer's native invocation on the executing Host           *)
(* (native_agent.rs, native_agent/admission.rs, full_access.rs): who may   *)
(* make this Host run an agent.  An invocation waits for a one-shot Review *)
(* by this Host's user, unless the device proven in that session holds     *)
(* Full Access.                                                            *)
(*                                                                         *)
(* Three things happen outside the native_agents lock and are steps of     *)
(* their own: the room control handler binds a received request to its     *)
(* session and resolves the shared folder it names (Arrive); the Accept    *)
(* command resolves the current session (AcceptResolve); the loss of a     *)
(* session and the end of a grant are stored before the handler that acts  *)
(* on them gets the lock (SessionLost, RevokeGrant).                       *)
(*                                                                         *)
(* The status of a task is one value: its state with the code that goes    *)
(* with it.  What a started task does is in NativeTask; here it ends or is *)
(* cancelled.                                                              *)
(***************************************************************************)
EXTENDS Naturals, FiniteSets

CONSTANTS Tasks, Bridges, NoBridge,
          MAX_PENDING_REVIEWS_PER_BRIDGE,
          INVOCATION_REVIEW_TTL,
          BridgeEnd,        \* expires_at of every Bridge
          MaxTime, MaxSessions,
          MaxDisturbances   \* failed writes, device revocations, new trusts
                            \* and restarts of a behaviour, together

ASSUME AdmissionAssumption ==
    /\ NoBridge \notin Bridges
    /\ MAX_PENDING_REVIEWS_PER_BRIDGE \in Nat
    /\ INVOCATION_REVIEW_TTL \in Nat
    /\ BridgeEnd \in Nat
    /\ MaxTime \in Nat
    /\ MaxSessions \in Nat
    /\ MaxDisturbances \in Nat

VARIABLES
    now,
    session,     \* the current session of each Bridge, 0 when there is none
    sessions,    \* sessions made so far
    lost,        \* Bridges whose session loss has not reached the service
    grant,       \* Bridges with Full Access, durable
    ending,      \* Bridges whose ended grant has not reached the service
    listed,      \* revoke_trusted_device: the grants it listed
    clearing,    \* newly trusted Bridges whose old grants are still stored
    shared,      \* Bridges whose shared folder allows agent requests, durable
    arriving,    \* the request each Bridge's handler is about to deliver
    accepting,   \* the Accept command between its two locks
    tasks, owner, pending, unstarted, full_access, revoked,
    durable,     \* tasks with an envelope
    admittedBy,  \* how the running task was admitted
    ran,         \* runs observed under one task identity
    counts       \* bounds: faults, device revocations and restarts so far

admission == <<tasks, owner, pending, unstarted, full_access, revoked, durable,
               admittedBy, ran>>
outside == <<session, sessions, lost, grant, ending, listed, clearing, shared>>
vars == <<now, outside, arriving, accepting, admission, counts>>

Waiting == "review_required"
Ended == {"denied", "expired", "admission_revoked", "start_rejected",
          "cancelled", "ended", "interrupted"}
TaskStatuses == {"absent", Waiting, "running"} \cup Ended

NoReview == [bridge |-> NoBridge, session |-> 0, expires |-> 0, share |-> "no"]
PendingNativeInvocationV1(b, s, expires, share) ==
    [bridge |-> b, session |-> s, expires |-> expires, share |-> share]
Held == {t \in Tasks : pending[t] # NoReview}
HeldOn(b) == {t \in Held : pending[t].bridge = b}

Disturbances == counts.faults + counts.devices + counts.trusts + counts.restarts

NoRequest == [task |-> "none", session |-> 0, share |-> "no"]
NoAccept == [task |-> "none", current |-> 0]

Init ==
    /\ now = 0
    /\ session = [b \in Bridges |-> 0]
    /\ sessions = 0
    /\ lost = {}
    /\ grant = {}
    /\ ending = {}
    /\ listed = {NoBridge}
    /\ clearing = {}
    /\ shared = {}
    /\ arriving = [b \in Bridges |-> NoRequest]
    /\ accepting = NoAccept
    /\ tasks = [t \in Tasks |-> "absent"]
    /\ owner = [t \in Tasks |-> NoBridge]
    /\ pending = [t \in Tasks |-> NoReview]
    /\ unstarted = {}
    /\ full_access = {}
    /\ revoked = {}
    /\ durable = {}
    /\ admittedBy = [t \in Tasks |-> "none"]
    /\ ran = [t \in Tasks |-> 0]
    /\ counts = [faults |-> 0, devices |-> 0, trusts |-> 0, restarts |-> 0]

(***************************************************************************)
(* Outside the service                                                     *)
(***************************************************************************)
Tick ==
    /\ now < MaxTime
    /\ now' = now + 1
    /\ UNCHANGED <<outside, arriving, accepting, admission, counts>>

NewSession(b) ==
    /\ session[b] = 0
    /\ sessions < MaxSessions
    /\ now < BridgeEnd
    /\ sessions' = sessions + 1
    /\ session' = [session EXCEPT ![b] = sessions + 1]
    /\ UNCHANGED <<now, lost, grant, ending, listed, clearing, shared, arriving,
                   accepting, admission, counts>>

SessionLost(b) ==
    /\ session[b] # 0
    /\ session' = [session EXCEPT ![b] = 0]
    /\ lost' = lost \cup {b}
    /\ UNCHANGED <<now, sessions, grant, ending, listed, clearing, shared, arriving,
                   accepting, admission, counts>>

grant_full_access(b) ==
    /\ b \notin grant
    /\ grant' = grant \cup {b}
    /\ UNCHANGED <<now, session, sessions, lost, ending, listed, clearing, shared,
                   arriving, accepting, admission, counts>>

revoke_full_access(b) ==
    /\ b \in grant
    /\ grant' = grant \ {b}
    /\ ending' = ending \cup {b}
    /\ UNCHANGED <<now, session, sessions, lost, listed, clearing, shared, arriving,
                   accepting, admission, counts>>

\* revoke_trusted_device lists the device's grants, then revokes the device,
\* which ends them all, then stops the tasks of the ones it listed.
ListGrants ==
    /\ listed = {NoBridge}
    /\ Disturbances < MaxDisturbances
    /\ counts' = [counts EXCEPT !.devices = @ + 1]
    /\ listed' = grant
    /\ UNCHANGED <<now, session, sessions, lost, grant, ending, clearing, shared,
                   arriving, accepting, admission>>

revoke_trusted_device ==
    /\ listed # {NoBridge}
    /\ grant' = {}
    /\ shared' = {}
    /\ ending' = ending \cup listed
    /\ listed' = {NoBridge}
    /\ UNCHANGED <<now, session, sessions, lost, clearing, arriving, accepting,
                   admission, counts>>

\* share_with_bridge, update_share and stop_sharing.
SetShare(b) ==
    /\ shared' = IF b \in shared THEN shared \ {b} ELSE shared \cup {b}
    /\ UNCHANGED <<now, session, sessions, lost, grant, ending, listed, clearing,
                   arriving, accepting, admission, counts>>

\* A request, new or repeated, is bound to its session; one that names a
\* shared folder is refused here unless the share, or Full Access, allows it.
Arrive(b, t, share) ==
    /\ arriving[b] = NoRequest
    /\ session[b] # 0
    /\ now < BridgeEnd
    /\ share = "yes" => b \in shared \cup grant
    /\ arriving' = [arriving EXCEPT ![b] =
                      [task |-> t, session |-> session[b], share |-> share]]
    /\ UNCHANGED <<now, outside, accepting, admission, counts>>

\* invocation_review_route and current_host_session_binding.
AcceptResolve(t) ==
    /\ accepting = NoAccept
    /\ t \in Held
    /\ accepting' = [task |-> t, current |-> session[pending[t].bridge]]
    /\ UNCHANGED <<now, outside, arriving, admission, counts>>

(***************************************************************************)
(* Reviews                                                                 *)
(***************************************************************************)
Expired == {t \in Held : pending[t].expires <= now}
Without(S) == [t \in Tasks |-> IF t \in S THEN NoReview ELSE pending[t]]

\* finish_unstarted_review: only a task still queued ends as a non-start.
end_review(S, code, status) ==
    [t \in Tasks |-> IF t \in S /\ status[t] = Waiting THEN code
                     ELSE status[t]]

WithExpired == end_review(Expired, "expired", tasks)

mutant_expires_only_connected ==
    /\ Expired # {} /\ \A t \in Expired : pending[t].bridge \notin lost
    /\ pending' = Without(Expired)
    /\ tasks' = WithExpired
    /\ UNCHANGED <<now, outside, arriving, accepting, owner, unstarted,
                   full_access, revoked, durable, admittedBy, ran, counts>>

\* The reader of Reviews and the status loop of every invocation.
expire_invocation_reviews ==
    /\ Expired # {}
    /\ pending' = Without(Expired)
    /\ tasks' = WithExpired
    /\ UNCHANGED <<now, outside, arriving, accepting, owner, unstarted,
                   full_access, revoked, durable, admittedBy, ran, counts>>

Unrecorded(result) ==
    /\ result = "unrecorded" => Disturbances < MaxDisturbances
    /\ counts' = IF result = "unrecorded"
                 THEN [counts EXCEPT !.faults = @ + 1] ELSE counts

\* start_admitted_peer_invocation.  "rejected": the adapter or the occupancy
\* check refuses.  "unrecorded": the envelope cannot be written and the error
\* is returned with the task Running, unobserved.
start_admitted_peer_invocation(t, how, result, status) ==
    /\ Unrecorded(result)
    /\ tasks' = [status EXCEPT ![t] = IF result = "rejected"
                                      THEN "start_rejected" ELSE "running"]
    /\ unstarted' = IF result = "rejected" THEN unstarted \cup {t}
                    ELSE unstarted \ {t}
    /\ durable' = IF result = "observed" THEN durable \cup {t} ELSE durable
    /\ ran' = IF result = "observed" THEN [ran EXCEPT ![t] = @ + 1] ELSE ran
    /\ admittedBy' = IF result = "rejected" THEN admittedBy
                     ELSE [admittedBy EXCEPT ![t] = how]
    /\ full_access' = IF how = "grant" /\ result = "observed"
                      THEN full_access \cup {t} ELSE full_access

Results == {"observed", "unrecorded", "rejected"}

(***************************************************************************)
(* receive_bridge_invocation                                               *)
(***************************************************************************)
Delivered(b) == arriving' = [arriving EXCEPT ![b] = NoRequest]

\* A replay, another owner's task and a revoked Bridge never reach admission.
IsNew(b) ==
    /\ arriving[b] # NoRequest
    /\ b \notin revoked
    /\ tasks[arriving[b].task] = "absent"

\* Refused, or answered with the task that exists.  The capability may be
\* unavailable at any time.
ReceiveRefused(b) ==
    /\ arriving[b] # NoRequest
    /\ Delivered(b)
    /\ UNCHANGED <<now, outside, accepting, admission, counts>>

mutant_grant_skips_replay(b, result) ==
    LET t == arriving[b].task
    IN  /\ arriving[b] # NoRequest
        /\ b \notin revoked
        /\ t \notin Held
        /\ owner[t] \in {b, NoBridge}
        /\ b \in grant
        /\ owner' = [owner EXCEPT ![t] = b]
        /\ start_admitted_peer_invocation(t, "grant", result, tasks)
        /\ Delivered(b)
        /\ UNCHANGED <<now, outside, accepting, pending, revoked>>

\* The device proven in this session holds Full Access now.
ReceiveGranted(b, result) ==
    LET t == arriving[b].task
    IN  /\ IsNew(b)
        /\ b \in grant
        /\ owner' = [owner EXCEPT ![t] = b]
        /\ start_admitted_peer_invocation(t, "grant", result, tasks)
        /\ Delivered(b)
        /\ UNCHANGED <<now, outside, accepting, pending, revoked>>

review_capacity_left(b) ==
    Cardinality(HeldOn(b) \ Expired) < MAX_PENDING_REVIEWS_PER_BRIDGE

Earlier(x, y) == IF x <= y THEN x ELSE y

\* hold_for_review of a direct invocation, with require_share_at_accept.  A
\* device that could not be proven is an ordinary peer.
ReceiveHeld(b) ==
    LET t == arriving[b].task
        expires == Earlier(now + INVOCATION_REVIEW_TTL, BridgeEnd)
    IN  /\ IsNew(b)
        /\ expires > now
        /\ review_capacity_left(b)
        /\ owner' = [owner EXCEPT ![t] = b]
        /\ tasks' = [WithExpired EXCEPT ![t] = Waiting]
        /\ pending' = [Without(Expired) EXCEPT ![t] =
             PendingNativeInvocationV1(b, arriving[b].session, expires,
                                       arriving[b].share)]
        /\ unstarted' = unstarted \cup {t}
        /\ Delivered(b)
        /\ UNCHANGED <<now, outside, accepting, full_access, revoked, durable,
                       admittedBy, ran, counts>>

(***************************************************************************)
(* Accept and Deny                                                         *)
(***************************************************************************)
mutant_any_session(t, current) ==
    /\ now < BridgeEnd
    /\ current # 0
    /\ pending[t].bridge \notin revoked
    /\ owner[t] = pending[t].bridge
    /\ tasks[t] = Waiting

\* The session the command resolved is the one the Review was created on.
revalidate_review(t, current) ==
    /\ now < BridgeEnd
    /\ current # 0
    /\ current = pending[t].session
    /\ pending[t].bridge \notin revoked
    /\ owner[t] = pending[t].bridge
    /\ tasks[t] = Waiting

mutant_share_not_rechecked(t) == TRUE

share_requirement_holds(t) ==
    pending[t].share = "yes" => pending[t].bridge \in shared

\* The Review is gone: expired now, or ended while the command waited.
AcceptUnavailable ==
    /\ accepting # NoAccept
    /\ accepting.task \notin Held \ Expired
    /\ accepting' = NoAccept
    /\ pending' = Without(Expired)
    /\ tasks' = WithExpired
    /\ UNCHANGED <<now, outside, arriving, owner, unstarted, full_access,
                   revoked, durable, admittedBy, ran, counts>>

\* Consumed without a start; the capability may have become unavailable.
AcceptRefused ==
    LET t == accepting.task
    IN  /\ accepting # NoAccept
        /\ t \in Held \ Expired
        /\ accepting' = NoAccept
        /\ pending' = Without(Expired \cup {t})
        /\ tasks' = end_review({t}, "admission_revoked", WithExpired)
        /\ UNCHANGED <<now, outside, arriving, owner, unstarted, full_access,
                       revoked, durable, admittedBy, ran, counts>>

mutant_review_not_consumed(result) ==
    LET t == accepting.task
    IN  /\ accepting # NoAccept
        /\ t \in Held \ Expired
        /\ revalidate_review(t, accepting.current)
        /\ share_requirement_holds(t)
        /\ accepting' = NoAccept
        /\ pending' = Without(Expired)
        /\ start_admitted_peer_invocation(t, "accept", result, WithExpired)
        /\ UNCHANGED <<now, outside, arriving, owner, revoked>>

accept_invocation_review(result) ==
    LET t == accepting.task
    IN  /\ accepting # NoAccept
        /\ t \in Held \ Expired
        /\ revalidate_review(t, accepting.current)
        /\ share_requirement_holds(t)
        /\ accepting' = NoAccept
        /\ pending' = Without(Expired \cup {t})
        /\ start_admitted_peer_invocation(t, "accept", result, WithExpired)
        /\ UNCHANGED <<now, outside, arriving, owner, revoked>>

deny_invocation_review(t) ==
    /\ t \in Held
    /\ pending' = Without(Expired \cup {t})
    /\ tasks' = end_review({t}, "denied", WithExpired)
    /\ UNCHANGED <<now, outside, arriving, accepting, owner, unstarted,
                   full_access, revoked, durable, admittedBy, ran, counts>>

(***************************************************************************)
(* The task after its start, and Stop                                      *)
(***************************************************************************)
TaskEnds(t) ==
    /\ tasks[t] = "running"
    /\ t \in durable
    /\ tasks' = [tasks EXCEPT ![t] = "ended"]
    /\ UNCHANGED <<now, outside, arriving, accepting, owner, pending,
                   unstarted, full_access, revoked, durable, admittedBy, ran,
                   counts>>

\* Stop by this Host's user, or by the Bridge that owns the task; a Review
\* that still waits ends with it.
cancel_task(t) ==
    /\ tasks[t] \in {Waiting, "running", "interrupted"}
    /\ pending' = Without({t})
    /\ tasks' = [tasks EXCEPT ![t] = "cancelled"]
    /\ durable' = IF t \in unstarted THEN durable ELSE durable \cup {t}
    /\ UNCHANGED <<now, outside, arriving, accepting, owner, unstarted,
                   full_access, revoked, admittedBy, ran, counts>>

mutant_stops_waiting_only(b) ==
    {t \in full_access : owner[t] = b /\ pending[t] # NoReview}

granted_tasks(b) == {t \in full_access : owner[t] = b}

\* end_full_access_operations, once the end of the grant is stored.
stop_full_access_tasks(b) ==
    /\ b \in ending
    /\ ending' = ending \ {b}
    /\ full_access' = full_access \ granted_tasks(b)
    /\ tasks' = [t \in Tasks |->
                   IF t \in granted_tasks(b) /\ tasks[t] = "running"
                   THEN "cancelled" ELSE tasks[t]]
    /\ UNCHANGED <<now, session, sessions, lost, grant, listed, clearing,
                   shared, arriving, accepting, owner, pending, unstarted,
                   revoked, durable, admittedBy, ran, counts>>

(***************************************************************************)
(* The Bridge                                                              *)
(***************************************************************************)
OwnedBy(b) == {t \in Tasks : owner[t] = b}

\* Reviews of the Bridge end; a Running task without an observer becomes
\* uncertain; every started task of the Bridge is written.
revoke_bridge_session(b) ==
    LET started == OwnedBy(b) \ unstarted
    IN  /\ b \in lost
        /\ lost' = lost \ {b}
        /\ pending' = Without(HeldOn(b))
        /\ tasks' = [t \in Tasks |->
             IF t \in started \ durable /\ tasks[t] = "running"
             THEN "interrupted"
             ELSE end_review(HeldOn(b), "admission_revoked", tasks)[t]]
        /\ durable' = durable \cup started
        /\ UNCHANGED <<now, session, sessions, grant, ending, listed,
                       clearing, shared, arriving, accepting, owner,
                       unstarted, full_access, revoked, admittedBy, ran,
                       counts>>

mutant_purge_keeps_review(b) ==
    /\ revoked' = revoked \cup {b}
    /\ pending' = pending
    /\ tasks' = [t \in Tasks |-> IF owner[t] = b THEN "absent" ELSE tasks[t]]

purge_bridge_authority(b) ==
    /\ revoked' = revoked \cup {b}
    /\ pending' = Without(HeldOn(b))
    /\ tasks' = [t \in Tasks |-> IF owner[t] = b THEN "absent" ELSE tasks[t]]

\* establish_fresh_peer_trust, first part: purge_bridge_runtime_authority,
\* which also ends the session.
Purge(b) ==
    /\ b \notin revoked
    /\ Disturbances < MaxDisturbances
    /\ counts' = [counts EXCEPT !.trusts = @ + 1]
    /\ purge_bridge_authority(b)
    /\ full_access' = full_access \ OwnedBy(b)
    /\ unstarted' = unstarted \ OwnedBy(b)
    /\ durable' = durable \ OwnedBy(b)
    /\ ran' = [t \in Tasks |-> IF owner[t] = b THEN 0 ELSE ran[t]]
    /\ admittedBy' = [t \in Tasks |-> IF owner[t] = b THEN "none"
                                      ELSE admittedBy[t]]
    /\ owner' = [t \in Tasks |-> IF owner[t] = b THEN NoBridge
                                 ELSE owner[t]]
    /\ session' = [session EXCEPT ![b] = 0]
    /\ UNCHANGED <<now, sessions, lost, grant, ending, listed, clearing,
                   shared, arriving, accepting>>

readmit_bridge_after_fresh_trust(b) ==
    /\ b \in revoked
    /\ revoked' = revoked \ {b}
    /\ clearing' = clearing \cup {b}
    /\ UNCHANGED <<now, session, sessions, lost, grant, ending, listed,
                   shared, arriving, accepting, tasks, owner, pending,
                   unstarted, full_access, durable, admittedBy, ran, counts>>

\* establish_fresh_peer_trust, last part: the durable grants go.
DeleteGrants(b) ==
    /\ b \in clearing
    /\ clearing' = clearing \ {b}
    /\ grant' = grant \ {b}
    /\ shared' = shared \ {b}
    /\ UNCHANGED <<now, session, sessions, lost, ending, listed, arriving,
                   accepting, admission, counts>>

\* Reviews and their tasks are process-local.  A restored Running task becomes
\* uncertain.
Restart ==
    /\ Disturbances < MaxDisturbances
    /\ counts' = [counts EXCEPT !.restarts = @ + 1]
    /\ tasks' = [t \in Tasks |->
                   CASE t \notin durable -> "absent"
                     [] t \in durable /\ tasks[t] = "running" -> "interrupted"
                     [] OTHER -> tasks[t]]
    /\ owner' = [t \in Tasks |-> IF t \in durable THEN owner[t] ELSE NoBridge]
    /\ admittedBy' = [t \in Tasks |-> IF t \in durable THEN admittedBy[t]
                                      ELSE "none"]
    /\ pending' = [t \in Tasks |-> NoReview]
    /\ unstarted' = {}
    /\ full_access' = {}
    /\ revoked' = {}
    /\ session' = [b \in Bridges |-> 0]
    /\ lost' = {}
    /\ ending' = {}
    /\ clearing' = {}
    /\ listed' = {NoBridge}
    /\ arriving' = [b \in Bridges |-> NoRequest]
    /\ accepting' = NoAccept
    /\ UNCHANGED <<now, sessions, grant, shared, durable, ran>>

ServiceStep(b) ==
    \/ ReceiveRefused(b) \/ ReceiveHeld(b)
    \/ \E result \in Results : ReceiveGranted(b, result)
    \/ stop_full_access_tasks(b) \/ revoke_bridge_session(b)

AcceptStep ==
    \/ AcceptUnavailable \/ AcceptRefused
    \/ \E result \in Results : accept_invocation_review(result)

Next ==
    \/ Tick
    \/ \E b \in Bridges :
          \/ NewSession(b) \/ SessionLost(b)
          \/ grant_full_access(b) \/ revoke_full_access(b) \/ SetShare(b)
          \/ \E t \in Tasks, share \in {"yes", "no"} : Arrive(b, t, share)
          \/ ServiceStep(b)
          \/ Purge(b) \/ readmit_bridge_after_fresh_trust(b) \/ DeleteGrants(b)
    \/ ListGrants \/ revoke_trusted_device
    \/ \E t \in Tasks :
          \/ AcceptResolve(t) \/ deny_invocation_review(t)
          \/ cancel_task(t) \/ TaskEnds(t)
    \/ expire_invocation_reviews
    \/ AcceptStep
    \/ Restart

Spec == Init /\ [][Next]_vars

\* Time passes and the status loop of an invocation keeps looking at expiry.
LiveSpec == Spec /\ WF_vars(Tick) /\ WF_vars(expire_invocation_reviews)

-----------------------------------------------------------------------------

\* A pending Review is always the Review of a queued task that never started
\* and that the Review's own Bridge owns, and a queued task always has one:
\* through expiry, cancellation, session loss and new trust no Review can
\* start something else and no task waits for a decision nobody can make.
ReviewsMatchQueuedTasks ==
    \A t \in Tasks :
        /\ (t \in Held) <=> (tasks[t] = Waiting)
        /\ t \in Held => /\ t \in unstarted
                         /\ t \notin durable \cup full_access
                         /\ owner[t] = pending[t].bridge
                         /\ owner[t] \notin revoked

\* A Bridge never holds more undecided Reviews than it may.
ReviewsBounded ==
    \A b \in Bridges : Cardinality(HeldOn(b)) <= MAX_PENDING_REVIEWS_PER_BRIDGE

\* One task identity runs at most once: replays, a second Accept, Full Access
\* given while a Review waits, and a restart never run it again.
RunsAtMostOnce == \A t \in Tasks : ran[t] <= 1

\* An Accept starts the task only on the session its Review came from, and, if
\* the request named a shared folder, only while that folder is still shared.
AcceptHonoursReview ==
    [][\A t \in Tasks :
         tasks[t] = Waiting /\ tasks'[t] = "running" =>
           /\ accepting = [task |-> t, current |-> pending[t].session]
           /\ pending[t].expires > now
           /\ pending[t].share = "yes" => pending[t].bridge \in shared]_vars

\* Once Full Access over a Bridge has ended and the Host has acted on it,
\* nothing that it admitted and this Host observes is still running.  A device
\* revocation works from a list made earlier and new trust readmits the Bridge
\* before the old grants are deleted: neither promises this.
EndedGrantStopsItsTasks ==
    counts.devices = 0 /\ counts.trusts = 0 => \A t \in Tasks :
        tasks[t] = "running" /\ admittedBy[t] = "grant" /\ t \in durable =>
          owner[t] \in grant \cup ending

\* A Review, once held, is decided or expires; it does not wait for ever.
ReviewsEnd == \A t \in Tasks : t \in Held ~> t \notin Held
=============================================================================
