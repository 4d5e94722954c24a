---------------------- MODULE InvocationAdmissionProofs ----------------------
(***************************************************************************)
(* Proofs about InvocationAdmission for any tasks, Bridges, limits, times, *)
(* faults and restarts: a pending Review belongs to a queued task of its   *)
(* own Bridge, a Bridge holds no more of them than it may, a task identity *)
(* runs at most once, an Accept starts only what was reviewed, and an      *)
(* ended grant stops what it admitted.                                     *)
(***************************************************************************)
EXTENDS InvocationAdmission, FiniteSetTheorems, TLAPS

Reviews == [bridge : Bridges \cup {NoBridge}, session : Nat, expires : Nat,
            share : {"yes", "no"}]
Requests == [task : Tasks, session : Nat, share : {"yes", "no"}]
Accepts == [task : Tasks, current : Nat]

Types ==
    /\ now \in Nat
    /\ session \in [Bridges -> Nat]
    /\ sessions \in Nat
    /\ tasks \in [Tasks -> TaskStatuses]
    /\ owner \in [Tasks -> Bridges \cup {NoBridge}]
    /\ pending \in [Tasks -> Reviews]
    /\ admittedBy \in [Tasks -> {"none", "accept", "grant"}]
    /\ ran \in [Tasks -> Nat]
    /\ durable \subseteq Tasks
    /\ full_access \subseteq Tasks
    /\ arriving \in [Bridges -> Requests \cup {NoRequest}]
    /\ accepting \in Accepts \cup {NoAccept}

(* What holds of one task.  That it ran is remembered by its envelope, so  *)
(* neither an absent task nor one that waits has run.                      *)
TaskOK(t) ==
    /\ pending[t] # NoReview <=> tasks[t] = Waiting
    /\ tasks[t] = Waiting => /\ t \in unstarted
                             /\ t \notin durable
                             /\ t \notin full_access
                             /\ owner[t] = pending[t].bridge
                             /\ owner[t] \in Bridges
                             /\ owner[t] \notin revoked
    /\ tasks[t] = "absent" => /\ owner[t] = NoBridge
                              /\ t \notin durable
                              /\ t \notin full_access
    /\ ran[t] = 0 \/ (ran[t] = 1 /\ t \in durable)

IInv == Types /\ \A t \in Tasks : TaskOK(t)

-----------------------------------------------------------------------------
(* A new Review is a Review, of its Bridge, and not the absence of one.    *)
LEMMA ReviewType ==
    ASSUME NEW b \in Bridges, NEW s \in Nat, NEW e \in Nat,
           NEW share \in {"yes", "no"}
    PROVE  /\ PendingNativeInvocationV1(b, s, e, share) \in Reviews
           /\ PendingNativeInvocationV1(b, s, e, share).bridge = b
           /\ PendingNativeInvocationV1(b, s, e, share) # NoReview
  BY Zenon, AdmissionAssumption DEF PendingNativeInvocationV1, Reviews, NoReview

(* The value of pending_reviews for a task without one.                    *)
LEMMA NoReviewType == NoReview \in Reviews
  BY Zenon DEF Reviews, NoReview

(* A request that is there names a task.                                   *)
LEMMA RequestType ==
    ASSUME NEW r \in Requests \cup {NoRequest}, r # NoRequest
    PROVE  r.task \in Tasks /\ r.session \in Nat /\ r.share \in {"yes", "no"}
  BY Zenon DEF Requests

(* An Accept in progress names a task.                                     *)
LEMMA AcceptType ==
    ASSUME NEW r \in Accepts \cup {NoAccept}, r # NoAccept
    PROVE  r.task \in Tasks /\ r.current \in Nat
  BY Zenon DEF Accepts

(* An empty service satisfies the invariant.                               *)
LEMMA Initially == Init => IInv
  BY NoReviewType DEF Init, IInv, Types, TaskOK, TaskStatuses, Waiting

(* Every step keeps the invariant.                                         *)
LEMMA Preserved == IInv /\ [Next]_vars => IInv'
<1> SUFFICES ASSUME IInv, [Next]_vars PROVE IInv'
  BY Zenon
<1> USE NoReviewType DEF IInv, Types
<1>1. CASE UNCHANGED vars
  BY Zenon, <1>1 DEF vars, outside, admission, TaskOK
<1>2. CASE Tick
  BY <1>2 DEF Tick, outside, admission, TaskOK
<1>3. CASE \E b \in Bridges : NewSession(b)
  <2>1. PICK b \in Bridges : NewSession(b)
    BY Zenon, <1>3
  <2>2. Types'
    BY <2>1, AdmissionAssumption DEF NewSession, outside, admission
  <2>3. QED
    BY Zenon, <2>1, <2>2 DEF NewSession, outside, admission, TaskOK
<1>4. CASE \E b \in Bridges : SessionLost(b)
  <2>1. PICK b \in Bridges : SessionLost(b)
    BY Zenon, <1>4
  <2>2. Types'
    BY Zenon, <2>1, AdmissionAssumption DEF SessionLost, outside, admission
  <2>3. QED
    BY Zenon, <2>1, <2>2 DEF SessionLost, outside, admission, TaskOK
<1>5. CASE \E b \in Bridges : grant_full_access(b)
  <2>1. PICK b \in Bridges : grant_full_access(b)
    BY Zenon, <1>5
  <2>2. Types'
    BY Zenon, <2>1, AdmissionAssumption DEF grant_full_access, outside, admission
  <2>3. QED
    BY Zenon, <2>1, <2>2 DEF grant_full_access, outside, admission, TaskOK
<1>6. CASE \E b \in Bridges : revoke_full_access(b)
  <2>1. PICK b \in Bridges : revoke_full_access(b)
    BY Zenon, <1>6
  <2>2. Types'
    BY Zenon, <2>1, AdmissionAssumption DEF revoke_full_access, outside, admission
  <2>3. QED
    BY Zenon, <2>1, <2>2 DEF revoke_full_access, outside, admission, TaskOK
<1>7. CASE \E b \in Bridges : SetShare(b)
  <2>1. PICK b \in Bridges : SetShare(b)
    BY Zenon, <1>7
  <2>2. Types'
    BY Zenon, <2>1, AdmissionAssumption DEF SetShare, outside, admission
  <2>3. QED
    BY Zenon, <2>1, <2>2 DEF SetShare, outside, admission, TaskOK
<1>8. CASE \E b \in Bridges, t \in Tasks, share \in {"yes", "no"} :
                    Arrive(b, t, share)
  <2>1. PICK b \in Bridges, t \in Tasks, share \in {"yes", "no"} : Arrive(b, t, share)
    BY Zenon, <1>8
  <2>2. Types'
    BY Zenon, <2>1, AdmissionAssumption DEF Arrive, outside, admission, Requests
  <2>3. QED
    BY Zenon, <2>1, <2>2 DEF Arrive, outside, admission, TaskOK
<1>9. CASE ListGrants
  BY Zenon, <1>9 DEF ListGrants, outside, admission, TaskOK
<1>10. CASE revoke_trusted_device
  BY Zenon, <1>10 DEF revoke_trusted_device, outside, admission, TaskOK
<1>11. CASE \E t \in Tasks : AcceptResolve(t)
  <2>1. PICK t \in Tasks : AcceptResolve(t)
    BY Zenon, <1>11
  <2>2. session[pending[t].bridge] \in Nat
    BY Zenon, <2>1 DEF AcceptResolve, TaskOK, Held
  <2>3. Types'
    BY Zenon, <2>1, <2>2 DEF AcceptResolve, outside, admission, Accepts
  <2>4. QED
    BY Zenon, <2>1, <2>3 DEF AcceptResolve, outside, admission, TaskOK
<1>12. CASE \E b \in Bridges : ReceiveRefused(b)
  <2>1. PICK b \in Bridges : ReceiveRefused(b)
    BY Zenon, <1>12
  <2>2. Types'
    BY Zenon, <2>1, AdmissionAssumption DEF ReceiveRefused, outside, admission, Delivered
  <2>3. QED
    BY Zenon, <2>1, <2>2 DEF ReceiveRefused, outside, admission, TaskOK
<1>13. CASE \E b \in Bridges : DeleteGrants(b)
  <2>1. PICK b \in Bridges : DeleteGrants(b)
    BY Zenon, <1>13
  <2>2. Types'
    BY Zenon, <2>1, AdmissionAssumption DEF DeleteGrants, outside, admission
  <2>3. QED
    BY Zenon, <2>1, <2>2 DEF DeleteGrants, outside, admission, TaskOK
<1>14. CASE \E b \in Bridges : readmit_bridge_after_fresh_trust(b)
  <2>1. PICK b \in Bridges : readmit_bridge_after_fresh_trust(b)
    BY Zenon, <1>14
  <2>2. Types'
    BY Zenon, <2>1, AdmissionAssumption DEF readmit_bridge_after_fresh_trust, outside, admission
  <2>3. QED
    BY Zenon, <2>1, <2>2 DEF readmit_bridge_after_fresh_trust, outside, admission, TaskOK
<1>15. CASE expire_invocation_reviews
  <2>1. expire_invocation_reviews
    BY Zenon, <1>15
  <2>2. Types'
    BY Zenon, <2>1 DEF expire_invocation_reviews, outside, Held, HeldOn, Expired,
       Without, end_review, WithExpired, TaskStatuses, Ended, Waiting
  <2>3. ASSUME NEW u \in Tasks PROVE TaskOK(u)'
    BY Zenon, <2>1 DEF expire_invocation_reviews, outside, Held, HeldOn, Expired,
       Without, end_review, WithExpired, TaskOK, Waiting
  <2>4. QED
    BY Zenon, <2>2, <2>3
<1>16. CASE \E b \in Bridges : ReceiveHeld(b)
  <2>1. PICK b \in Bridges : ReceiveHeld(b)
    BY Zenon, <1>16
  <2> DEFINE t == arriving[b].task
             e == Earlier(now + INVOCATION_REVIEW_TTL, BridgeEnd)
             r == PendingNativeInvocationV1(b, arriving[b].session, e,
                                            arriving[b].share)
  <2>2. /\ t \in Tasks
        /\ arriving[b].session \in Nat
        /\ arriving[b].share \in {"yes", "no"}
    BY Zenon, <2>1, RequestType DEF ReceiveHeld, IsNew
  <2>3. e \in Nat
    BY AdmissionAssumption DEF Earlier
  <2>4. r \in Reviews /\ r.bridge = b /\ r # NoReview
    BY <2>2, <2>3, ReviewType
  <2>5. /\ tasks[t] = "absent"
        /\ b \notin revoked
        /\ owner' = [owner EXCEPT ![t] = b]
        /\ tasks' = [WithExpired EXCEPT ![t] = Waiting]
        /\ pending' = [Without(Expired) EXCEPT ![t] = r]
        /\ unstarted' = unstarted \cup {t}
        /\ arriving' = [arriving EXCEPT ![b] = NoRequest]
        /\ UNCHANGED <<now, session, sessions, accepting, full_access, revoked,
                       durable, admittedBy, ran>>
    BY Zenon, <2>1 DEF ReceiveHeld, IsNew, Delivered, outside
  <2> HIDE DEF t, e, r
  <2>6. Types'
    BY Zenon, <2>2, <2>4, <2>5 DEF Without, WithExpired, end_review, TaskStatuses,
       Ended, Waiting
  <2>7. ASSUME NEW u \in Tasks PROVE TaskOK(u)'
    <3>1. CASE u = t
      BY Zenon, <2>2, <2>4, <2>5, <3>1 DEF TaskOK, Without, WithExpired, end_review,
         Waiting
    <3>2. CASE u # t
      BY Zenon, <2>2, <2>5, <3>2 DEF TaskOK, Held, Expired, Without, WithExpired,
         end_review, Waiting
    <3>3. QED
      BY Zenon, <3>1, <3>2
  <2>8. QED
    BY Zenon, <2>6, <2>7
<1>17. CASE \E b \in Bridges, result \in Results : ReceiveGranted(b, result)
  <2>1. PICK b \in Bridges, result \in Results : ReceiveGranted(b, result)
    BY Zenon, <1>17
  <2> DEFINE t == arriving[b].task
  <2>2. t \in Tasks
    BY Zenon, <2>1, RequestType DEF ReceiveGranted, IsNew
  <2>3. /\ tasks[t] = "absent"
        /\ owner' = [owner EXCEPT ![t] = b]
        /\ start_admitted_peer_invocation(t, "grant", result, tasks)
        /\ arriving' = [arriving EXCEPT ![b] = NoRequest]
        /\ UNCHANGED <<now, session, sessions, accepting, pending, revoked>>
    BY Zenon, <2>1 DEF ReceiveGranted, IsNew, Delivered, outside
  <2> HIDE DEF t
  <2>4. Types'
    BY <2>2, <2>3 DEF start_admitted_peer_invocation, Results, TaskStatuses,
       Ended
  <2>5. ASSUME NEW u \in Tasks PROVE TaskOK(u)'
    BY <2>2, <2>3 DEF TaskOK, start_admitted_peer_invocation, Results, Waiting
  <2>6. QED
    BY Zenon, <2>4, <2>5
<1>18. CASE AcceptUnavailable
  <2>1. AcceptUnavailable
    BY Zenon, <1>18
  <2>2. Types'
    BY Zenon, <2>1 DEF AcceptUnavailable, outside, Held, HeldOn, Expired, Without,
       end_review, WithExpired, TaskStatuses, Ended, Waiting
  <2>3. ASSUME NEW u \in Tasks PROVE TaskOK(u)'
    BY Zenon, <2>1 DEF AcceptUnavailable, outside, Held, HeldOn, Expired, Without,
       end_review, WithExpired, TaskOK, Waiting
  <2>4. QED
    BY Zenon, <2>2, <2>3
<1>19. CASE AcceptRefused
  <2>1. AcceptRefused
    BY Zenon, <1>19
  <2>2. Types'
    BY Zenon, <2>1 DEF AcceptRefused, outside, Held, HeldOn, Expired, Without,
       end_review, WithExpired, TaskStatuses, Ended, Waiting
  <2>3. ASSUME NEW u \in Tasks PROVE TaskOK(u)'
    BY Zenon, <2>1 DEF AcceptRefused, outside, Held, HeldOn, Expired, Without,
       end_review, WithExpired, TaskOK, Waiting
  <2>4. QED
    BY Zenon, <2>2, <2>3
<1>20. CASE \E result \in Results : accept_invocation_review(result)
  <2>1. PICK result \in Results : accept_invocation_review(result)
    BY Zenon, <1>20
  <2> DEFINE t == accepting.task
  <2>2. t \in Tasks
    BY Zenon, <2>1, AcceptType DEF accept_invocation_review
  <2>3. /\ t \in Held \ Expired
        /\ pending' = Without(Expired \cup {t})
        /\ start_admitted_peer_invocation(t, "accept", result, WithExpired)
        /\ accepting' = NoAccept
        /\ UNCHANGED <<now, session, sessions, arriving, owner, revoked>>
    BY Zenon, <2>1 DEF accept_invocation_review, outside
  <2> HIDE DEF t
  <2>4. Types'
    BY <2>2, <2>3 DEF start_admitted_peer_invocation, Results, TaskStatuses,
       Ended, Without, WithExpired, end_review
  <2>5. ASSUME NEW u \in Tasks PROVE TaskOK(u)'
    BY <2>2, <2>3 DEF TaskOK, start_admitted_peer_invocation, Results, Waiting,
       Held, Expired, Without, WithExpired, end_review
  <2>6. QED
    BY Zenon, <2>4, <2>5
<1>21. CASE \E t \in Tasks : deny_invocation_review(t)
  <2>1. PICK t \in Tasks : deny_invocation_review(t)
    BY Zenon, <1>21
  <2>2. Types'
    BY Zenon, <2>1 DEF deny_invocation_review, outside, Held, HeldOn, Expired,
       Without, end_review, WithExpired, TaskStatuses, Ended, Waiting
  <2>3. ASSUME NEW u \in Tasks PROVE TaskOK(u)'
    BY Zenon, <2>1 DEF deny_invocation_review, outside, Held, HeldOn, Expired,
       Without, end_review, WithExpired, TaskOK, Waiting
  <2>4. QED
    BY Zenon, <2>2, <2>3
<1>22. CASE \E t \in Tasks : TaskEnds(t)
  <2>1. PICK t \in Tasks : TaskEnds(t)
    BY Zenon, <1>22
  <2>2. Types'
    BY Zenon, <2>1 DEF TaskEnds, outside, Held, HeldOn, Expired, Without,
       end_review, WithExpired, TaskStatuses, Ended, Waiting
  <2>3. ASSUME NEW u \in Tasks PROVE TaskOK(u)'
    BY Zenon, <2>1 DEF TaskEnds, outside, Held, HeldOn, Expired, Without,
       end_review, WithExpired, TaskOK, Waiting
  <2>4. QED
    BY Zenon, <2>2, <2>3
<1>23. CASE \E t \in Tasks : cancel_task(t)
  <2>1. PICK t \in Tasks : cancel_task(t)
    BY Zenon, <1>23
  <2>2. Types'
    BY Zenon, <2>1 DEF cancel_task, outside, Held, HeldOn, Expired, Without,
       end_review, WithExpired, TaskStatuses, Ended, Waiting
  <2>3. ASSUME NEW u \in Tasks PROVE TaskOK(u)'
    BY Zenon, <2>1 DEF cancel_task, outside, Held, HeldOn, Expired, Without,
       end_review, WithExpired, TaskOK, Waiting
  <2>4. QED
    BY Zenon, <2>2, <2>3
<1>24. CASE \E b \in Bridges : stop_full_access_tasks(b)
  <2>1. PICK b \in Bridges : stop_full_access_tasks(b)
    BY Zenon, <1>24
  <2>2. Types'
    BY Zenon, <2>1 DEF stop_full_access_tasks, outside, Held, HeldOn, Expired,
       Without, end_review, WithExpired, granted_tasks, TaskStatuses, Ended,
       Waiting
  <2>3. ASSUME NEW u \in Tasks PROVE TaskOK(u)'
    BY Zenon, <2>1 DEF stop_full_access_tasks, outside, Held, HeldOn, Expired,
       Without, end_review, WithExpired, granted_tasks, TaskOK, Waiting
  <2>4. QED
    BY Zenon, <2>2, <2>3
<1>25. CASE \E b \in Bridges : revoke_bridge_session(b)
  <2>1. PICK b \in Bridges : revoke_bridge_session(b)
    BY Zenon, <1>25
  <2> DEFINE started == OwnedBy(b) \ unstarted
  <2>2. /\ pending' = Without(HeldOn(b))
        /\ durable' = durable \cup started
        /\ UNCHANGED <<now, session, sessions, arriving, accepting, owner,
                       unstarted, full_access, revoked, admittedBy, ran>>
    BY Zenon, <2>1 DEF revoke_bridge_session, outside
  <2>3. tasks' = [t \in Tasks |->
             IF t \in started \ durable /\ tasks[t] = "running"
             THEN "interrupted"
             ELSE IF t \in HeldOn(b) /\ tasks[t] = Waiting
                  THEN "admission_revoked" ELSE tasks[t]]
    BY Zenon, <2>1 DEF revoke_bridge_session, end_review
  <2>4. Types'
    BY Zenon, <2>2, <2>3 DEF TaskStatuses, Ended, Without, OwnedBy
  <2>5. ASSUME NEW u \in Tasks PROVE TaskOK(u)'
    <3>1. CASE u \in HeldOn(b)
      BY Zenon, <2>2, <2>3, <3>1 DEF TaskOK, Held, HeldOn, Without, OwnedBy, Waiting
    <3>2. CASE u \notin HeldOn(b)
      <4>1. tasks[u] = "absent" => u \notin started
        BY Zenon, AdmissionAssumption DEF TaskOK, OwnedBy
      <4>2. QED
        BY Zenon, <2>2, <2>3, <3>2, <4>1 DEF TaskOK, Held, HeldOn, Without, OwnedBy,
           Waiting
    <3>3. QED
      BY Zenon, <3>1, <3>2
  <2>6. QED
    BY Zenon, <2>4, <2>5
<1>26. CASE \E b \in Bridges : Purge(b)
  <2>1. PICK b \in Bridges : Purge(b)
    BY Zenon, <1>26
  <2>2. Types'
    BY Zenon, <2>1 DEF Purge, outside, Held, HeldOn, Expired, Without, end_review,
       WithExpired, OwnedBy, purge_bridge_authority, TaskStatuses, Ended,
       Waiting
  <2>3. ASSUME NEW u \in Tasks PROVE TaskOK(u)'
    BY Zenon, <2>1 DEF Purge, outside, Held, HeldOn, Expired, Without, end_review,
       WithExpired, OwnedBy, purge_bridge_authority, TaskOK, Waiting
  <2>4. QED
    BY Zenon, <2>2, <2>3
<1>27. CASE Restart
  <2>1. Restart
    BY Zenon, <1>27
  <2>2. Types'
    BY Zenon, <2>1 DEF Restart, outside, Held, HeldOn, Expired, Without,
       end_review, WithExpired, TaskStatuses, Ended, Waiting
  <2>3. ASSUME NEW u \in Tasks PROVE TaskOK(u)'
    BY Zenon, <2>1 DEF Restart, outside, Held, HeldOn, Expired, Without,
       end_review, WithExpired, TaskOK, Waiting
  <2>4. QED
    BY Zenon, <2>2, <2>3
<1>28. QED
  BY Zenon, <1>1, <1>2, <1>3, <1>4, <1>5, <1>6, <1>7, <1>8, <1>9, <1>10, <1>11,
     <1>12, <1>13, <1>14, <1>15, <1>16, <1>17, <1>18, <1>19, <1>20, <1>21,
     <1>22, <1>23, <1>24, <1>25, <1>26, <1>27 DEF Next, ServiceStep,
     AcceptStep

-----------------------------------------------------------------------------
(* The invariant holds in every reachable state of the admission service.  *)
THEOREM Invariant == Spec => []IInv
<1>1. Init => IInv
  BY Zenon, Initially
<1>2. IInv /\ [Next]_vars => IInv'
  BY Zenon, Preserved
<1>3. QED
  BY <1>1, <1>2, PTL DEF Spec

(* pending_reviews and the queued tasks match, through expiry, Stop,       *)
(* session loss, new trust and restart.                                    *)
THEOREM ReviewsMatch == Spec => []ReviewsMatchQueuedTasks
<1>1. IInv => ReviewsMatchQueuedTasks
  BY Zenon DEF IInv, TaskOK, ReviewsMatchQueuedTasks, Held
<1>2. QED
  BY <1>1, Invariant, PTL

(* A task identity is run at most once, whatever is repeated, accepted     *)
(* twice or granted meanwhile.                                             *)
THEOREM RunsOnce == Spec => []RunsAtMostOnce
<1>1. IInv => RunsAtMostOnce
  BY DEF IInv, TaskOK, RunsAtMostOnce
<1>2. QED
  BY <1>1, Invariant, PTL

(* Reviews are only ever removed, except by hold_for_review.               *)
LEMMA WhoHolds ==
    [Next]_vars =>
        \/ pending' = pending
        \/ pending' = [t \in Tasks |-> NoReview]
        \/ \E S : pending' = Without(S)
        \/ \E b \in Bridges : ReceiveHeld(b)
  BY Zenon DEF Next, vars, outside, admission, Tick, NewSession, SessionLost, grant_full_access,
     revoke_full_access, SetShare, Arrive, ServiceStep, ReceiveRefused, ReceiveGranted,
     stop_full_access_tasks, revoke_bridge_session, Purge, purge_bridge_authority,
     readmit_bridge_after_fresh_trust, DeleteGrants, ListGrants, revoke_trusted_device,
     AcceptResolve, deny_invocation_review, cancel_task, TaskEnds, expire_invocation_reviews,
     AcceptStep, AcceptUnavailable, AcceptRefused, accept_invocation_review, Restart

(* The Reviews of a Bridge, counted.                                       *)
BoundInv ==
    \A b \in Bridges : /\ IsFiniteSet(HeldOn(b))
                       /\ Cardinality(HeldOn(b)) <= MAX_PENDING_REVIEWS_PER_BRIDGE

(* A part of a Bridge's Reviews is within the limit.                       *)
LEMMA FewerReviews ==
    ASSUME BoundInv, NEW b \in Bridges, NEW S, S \subseteq HeldOn(b)
    PROVE  IsFiniteSet(S) /\ Cardinality(S) <= MAX_PENDING_REVIEWS_PER_BRIDGE
<1>1. IsFiniteSet(HeldOn(b)) /\ Cardinality(HeldOn(b)) <= MAX_PENDING_REVIEWS_PER_BRIDGE
  BY Zenon DEF BoundInv
<1>2. IsFiniteSet(S) /\ Cardinality(S) <= Cardinality(HeldOn(b))
  BY Zenon, <1>1, FS_Subset
<1>3. Cardinality(S) \in Nat /\ Cardinality(HeldOn(b)) \in Nat
  BY Zenon, <1>1, <1>2, FS_CardinalityType
<1>. QED
  BY <1>1, <1>2, <1>3, AdmissionAssumption

(* The capacity check counts what is left once the expired ones are gone,  *)
(* and that is what the new Review is added to.                            *)
LEMMA BoundPreserved == IInv /\ BoundInv /\ [Next]_vars => BoundInv'
<1>. SUFFICES ASSUME IInv, BoundInv, [Next]_vars, NEW c \in Bridges
              PROVE  /\ IsFiniteSet(HeldOn(c)')
                     /\ Cardinality(HeldOn(c)') <= MAX_PENDING_REVIEWS_PER_BRIDGE
  BY Zenon DEF BoundInv
<1>1. CASE HeldOn(c)' \subseteq HeldOn(c)
  BY Zenon, <1>1, FewerReviews
<1>2. CASE pending' = pending
  BY Zenon, <1>1, <1>2 DEF HeldOn, Held
<1>3. CASE pending' = [t \in Tasks |-> NoReview]
  BY Zenon, <1>1, <1>3 DEF HeldOn, Held
<1>4. ASSUME NEW S, pending' = Without(S) PROVE HeldOn(c)' \subseteq HeldOn(c)
  BY Zenon, <1>4 DEF HeldOn, Held, Without
<1>5. ASSUME NEW b \in Bridges, ReceiveHeld(b)
      PROVE  /\ IsFiniteSet(HeldOn(c)')
             /\ Cardinality(HeldOn(c)') <= MAX_PENDING_REVIEWS_PER_BRIDGE
  <2>. DEFINE u == arriving[b].task
              kept == HeldOn(b) \ Expired
              rest == Without(Expired)
              new == PendingNativeInvocationV1(b, arriving[b].session,
                       Earlier(now + INVOCATION_REVIEW_TTL, BridgeEnd), arriving[b].share)
  <2>1. /\ pending' = [rest EXCEPT ![u] = new] /\ review_capacity_left(b) /\ new.bridge = b
    BY Zenon, <1>5 DEF ReceiveHeld, PendingNativeInvocationV1
  <2>2. \A t \in Tasks : rest[t] = IF t \in Expired THEN NoReview ELSE pending[t]
    BY Zenon DEF Without
  <2>3. \A t \in Tasks : pending'[t] = IF t = u THEN new ELSE rest[t]
    BY Zenon, <2>1 DEF Without
  <2>. HIDE DEF u, rest, new
  <2>4. CASE c # b
    <3>1. HeldOn(c)' \subseteq HeldOn(c)
      BY Zenon, <2>1, <2>2, <2>3, <2>4 DEF HeldOn, Held
    <3>. QED
      BY Zenon, <1>1, <3>1
  <2>5. CASE c = b
    <3>1. HeldOn(c)' \subseteq kept \cup {u}
      BY Zenon, <2>2, <2>3, <2>5 DEF HeldOn, Held
    <3>2. kept \subseteq HeldOn(b) /\ Cardinality(kept) < MAX_PENDING_REVIEWS_PER_BRIDGE
      BY Zenon, <2>1 DEF review_capacity_left
    <3>. HIDE DEF kept
    <3>3. IsFiniteSet(kept)
      BY Zenon, <3>2, FewerReviews
    <3>4. IsFiniteSet(kept \cup {u}) /\ Cardinality(kept \cup {u}) <= Cardinality(kept) + 1
      <4>1. /\ IsFiniteSet(kept \cup {u})
            /\ Cardinality(kept \cup {u}) = IF u \in kept THEN Cardinality(kept)
                                             ELSE Cardinality(kept) + 1
        BY <3>3, FS_AddElement, Zenon
      <4>2. Cardinality(kept) \in Nat
        BY Zenon, <3>3, FS_CardinalityType
      <4>. QED
        BY <4>1, <4>2
    <3>5. IsFiniteSet(HeldOn(c)') /\ Cardinality(HeldOn(c)') <= Cardinality(kept \cup {u})
      BY Zenon, <3>1, <3>4, FS_Subset
    <3>6. /\ Cardinality(kept) \in Nat /\ Cardinality(kept \cup {u}) \in Nat
          /\ Cardinality(HeldOn(c)') \in Nat
      BY Zenon, <3>3, <3>4, <3>5, FS_CardinalityType
    <3>. QED
      BY <3>2, <3>4, <3>5, <3>6, AdmissionAssumption
  <2>. QED
    BY Zenon, <2>4, <2>5
<1>. QED
  BY Zenon, <1>1, <1>2, <1>3, <1>4, <1>5, WhoHolds

(* A Bridge never holds more undecided Reviews than                        *)
(* MAX_PENDING_REVIEWS_PER_BRIDGE, whatever expires between the check and  *)
(* the insertion.                                                          *)
THEOREM ReviewsStayBounded == Spec => []ReviewsBounded
<1>1. Init => BoundInv
  <2>1. ASSUME Init, NEW b \in Bridges PROVE HeldOn(b) = {}
    BY Zenon, <2>1 DEF Init, HeldOn, Held
  <2>. QED
    BY <2>1, FS_EmptySet, AdmissionAssumption DEF BoundInv
<1>2. BoundInv => ReviewsBounded
  BY Zenon DEF BoundInv, ReviewsBounded
<1>. QED
  BY <1>1, <1>2, BoundPreserved, Invariant, PTL DEF Spec

(* Accept starts the task only on the session of its Review, before its    *)
(* expiry and with the share it needs, for every order of the steps.       *)
THEOREM AcceptsHonourReviews == Spec => AcceptHonoursReview
<1> DEFINE A(t) ==
      tasks[t] = Waiting /\ tasks'[t] = "running" =>
        /\ accepting = [task |-> t, current |-> pending[t].session]
        /\ pending[t].expires > now
        /\ pending[t].share = "yes" => pending[t].bridge \in shared
<1>1. ASSUME IInv, [Next]_vars, NEW u \in Tasks PROVE A(u)
  <2> USE <1>1 DEF IInv, Types, Waiting
  <2>1. CASE UNCHANGED vars
    BY Zenon, <2>1 DEF vars, admission
  <2>2. CASE Tick
    BY Zenon, <2>2 DEF Tick, admission
  <2>3. CASE \E b \in Bridges : NewSession(b)
    BY Zenon, <2>3 DEF NewSession, admission
  <2>4. CASE \E b \in Bridges : SessionLost(b)
    BY Zenon, <2>4 DEF SessionLost, admission
  <2>5. CASE \E b \in Bridges : grant_full_access(b)
    BY Zenon, <2>5 DEF grant_full_access, admission
  <2>6. CASE \E b \in Bridges : revoke_full_access(b)
    BY Zenon, <2>6 DEF revoke_full_access, admission
  <2>7. CASE \E b \in Bridges : SetShare(b)
    BY Zenon, <2>7 DEF SetShare, admission
  <2>8. CASE \E b \in Bridges, t \in Tasks, share \in {"yes", "no"} :
              Arrive(b, t, share)
    BY Zenon, <2>8 DEF Arrive, admission
  <2>9. CASE ListGrants
    BY Zenon, <2>9 DEF ListGrants, admission
  <2>10. CASE revoke_trusted_device
    BY Zenon, <2>10 DEF revoke_trusted_device, admission
  <2>11. CASE \E t \in Tasks : AcceptResolve(t)
    BY Zenon, <2>11 DEF AcceptResolve, admission
  <2>12. CASE \E b \in Bridges : ReceiveRefused(b)
    BY Zenon, <2>12 DEF ReceiveRefused, admission
  <2>13. CASE \E b \in Bridges : DeleteGrants(b)
    BY Zenon, <2>13 DEF DeleteGrants, admission
  <2>14. CASE \E b \in Bridges : readmit_bridge_after_fresh_trust(b)
    BY Zenon, <2>14 DEF readmit_bridge_after_fresh_trust, admission
  <2>15. CASE expire_invocation_reviews
    BY Zenon, <2>15 DEF expire_invocation_reviews, Held, HeldOn, Expired, Without,
       end_review, WithExpired
  <2>16. CASE \E b \in Bridges : ReceiveHeld(b)
    BY Zenon, <2>16 DEF ReceiveHeld, Held, HeldOn, Expired, Without, end_review,
       WithExpired, IsNew, Delivered
  <2>17. CASE \E b \in Bridges, result \in Results :
              ReceiveGranted(b, result)
    BY Zenon, <2>17 DEF ReceiveGranted, IsNew, start_admitted_peer_invocation
  <2>18. CASE AcceptUnavailable
    BY Zenon, <2>18 DEF AcceptUnavailable, Held, HeldOn, Expired, Without,
       end_review, WithExpired
  <2>19. CASE AcceptRefused
    BY Zenon, <2>19 DEF AcceptRefused, Held, HeldOn, Expired, Without, end_review,
       WithExpired
  <2>20. CASE \E result \in Results : accept_invocation_review(result)
    <3>1. PICK result \in Results : accept_invocation_review(result)
      BY Zenon, <2>20
    <3> DEFINE t == accepting.task
    <3>2. t \in Tasks /\ accepting = [task |-> t, current |-> accepting.current]
      BY Zenon, <3>1, AcceptType DEF accept_invocation_review, Accepts
    <3>3. /\ t \in Held \ Expired
          /\ accepting.current = pending[t].session
          /\ pending[t].share = "yes" => pending[t].bridge \in shared
          /\ tasks' = [WithExpired EXCEPT ![t] = tasks'[t]]
      BY Zenon, <3>1, <3>2 DEF accept_invocation_review, revalidate_review,
         share_requirement_holds, start_admitted_peer_invocation, WithExpired,
         end_review
    <3>4. pending[t].expires > now
      BY <3>2, <3>3 DEF Expired, Held, Reviews
    <3>5. CASE u = t
      BY Zenon, <3>2, <3>3, <3>4, <3>5
    <3>6. CASE u # t
      BY Zenon, <3>3, <3>6 DEF WithExpired, end_review
    <3>7. QED
      BY Zenon, <3>5, <3>6
  <2>21. CASE \E t \in Tasks : deny_invocation_review(t)
    BY Zenon, <2>21 DEF deny_invocation_review, Held, HeldOn, Expired, Without,
       end_review, WithExpired
  <2>22. CASE \E t \in Tasks : TaskEnds(t)
    BY Zenon, <2>22 DEF TaskEnds, Held, HeldOn, Expired, Without, end_review,
       WithExpired
  <2>23. CASE \E t \in Tasks : cancel_task(t)
    BY Zenon, <2>23 DEF cancel_task, Held, HeldOn, Expired, Without, end_review,
       WithExpired
  <2>24. CASE \E b \in Bridges : stop_full_access_tasks(b)
    BY Zenon, <2>24 DEF stop_full_access_tasks, Held, HeldOn, Expired, Without,
       end_review, WithExpired, granted_tasks
  <2>25. CASE \E b \in Bridges : revoke_bridge_session(b)
    BY Zenon, <2>25 DEF revoke_bridge_session, Held, HeldOn, Expired, Without,
       end_review, WithExpired, OwnedBy
  <2>26. CASE \E b \in Bridges : Purge(b)
    BY <2>26 DEF Purge, Held, HeldOn, Expired, Without, end_review,
       WithExpired, OwnedBy, purge_bridge_authority
  <2>27. CASE Restart
    BY Zenon, <2>27 DEF Restart, Held, HeldOn, Expired, Without, end_review,
       WithExpired
  <2>28. QED
    BY Zenon, <2>1, <2>2, <2>3, <2>4, <2>5, <2>6, <2>7, <2>8, <2>9, <2>10, <2>11,
       <2>12, <2>13, <2>14, <2>15, <2>16, <2>17, <2>18, <2>19, <2>20, <2>21,
       <2>22, <2>23, <2>24, <2>25, <2>26, <2>27 DEF Next, ServiceStep,
       AcceptStep
<1>2. IInv /\ [Next]_vars => \A t \in Tasks : A(t)
  BY Zenon, <1>1
<1> HIDE DEF A
<1>3. IInv /\ [Next]_vars => [\A t \in Tasks : A(t)]_vars
  BY Zenon, <1>2
<1>4. Spec => [][\A t \in Tasks : A(t)]_vars
  BY <1>3, Invariant, PTL DEF Spec
<1>5. QED
  BY Zenon, <1>4 DEF A, AcceptHonoursReview

-----------------------------------------------------------------------------
Counts == [faults : Nat, devices : Nat, trusts : Nat, restarts : Nat]

(* A running task of a grant is one the service will stop with the grant.  *)
GrantOK(t) ==
    tasks[t] = "running" /\ admittedBy[t] = "grant" /\ t \in durable =>
        t \in full_access /\ owner[t] \in grant \cup ending

(* No device revocation and no new trust so far: the two operations that   *)
(* delete grants without stopping each one's tasks.                        *)
Quiet == counts.devices = 0 /\ counts.trusts = 0

(* What holds in quiet times.                                              *)
GrantFacts ==
    /\ revoked = {}
    /\ clearing = {}
    /\ listed = {NoBridge}
    /\ \A t \in Tasks : GrantOK(t)

GrantInv == counts \in Counts /\ (Quiet => GrantFacts)

(* The start of a service holds no grant's task.                           *)
LEMMA GrantInitially == Init => GrantInv
  BY DEF Init, GrantInv, GrantFacts, GrantOK, Counts

(* The numbers of device revocations and new trusts never fall.            *)
LEMMA CountsGrow ==
    counts \in Counts /\ [Next]_vars => counts' \in Counts /\ (Quiet' => Quiet)
<1> SUFFICES ASSUME counts \in Counts, [Next]_vars
             PROVE  counts' \in Counts /\ (Quiet' => Quiet)
  BY Zenon
<1> USE DEF Counts, Quiet
<1>1. CASE UNCHANGED vars
  BY Zenon, <1>1 DEF vars
<1>2. CASE Tick
  BY Zenon, <1>2 DEF Tick
<1>3. CASE \E b \in Bridges : NewSession(b)
  BY Zenon, <1>3 DEF NewSession
<1>4. CASE \E b \in Bridges : SessionLost(b)
  BY Zenon, <1>4 DEF SessionLost
<1>5. CASE \E b \in Bridges : grant_full_access(b)
  BY Zenon, <1>5 DEF grant_full_access
<1>6. CASE \E b \in Bridges : revoke_full_access(b)
  BY Zenon, <1>6 DEF revoke_full_access
<1>7. CASE \E b \in Bridges : SetShare(b)
  BY Zenon, <1>7 DEF SetShare
<1>8. CASE \E b \in Bridges, t \in Tasks, share \in {"yes", "no"} :
                    Arrive(b, t, share)
  BY Zenon, <1>8 DEF Arrive
<1>9. CASE ListGrants
  BY <1>9 DEF ListGrants
<1>10. CASE revoke_trusted_device
  BY Zenon, <1>10 DEF revoke_trusted_device
<1>11. CASE \E t \in Tasks : AcceptResolve(t)
  BY Zenon, <1>11 DEF AcceptResolve
<1>12. CASE \E b \in Bridges : ReceiveRefused(b)
  BY Zenon, <1>12 DEF ReceiveRefused
<1>13. CASE \E b \in Bridges : DeleteGrants(b)
  BY Zenon, <1>13 DEF DeleteGrants
<1>14. CASE \E b \in Bridges : readmit_bridge_after_fresh_trust(b)
  BY Zenon, <1>14 DEF readmit_bridge_after_fresh_trust
<1>15. CASE expire_invocation_reviews
  BY Zenon, <1>15 DEF expire_invocation_reviews
<1>16. CASE \E b \in Bridges : ReceiveHeld(b)
  BY Zenon, <1>16 DEF ReceiveHeld
<1>17. CASE \E b \in Bridges, result \in Results :
                    ReceiveGranted(b, result)
  BY <1>17 DEF ReceiveGranted, start_admitted_peer_invocation, Unrecorded
<1>18. CASE AcceptUnavailable
  BY Zenon, <1>18 DEF AcceptUnavailable
<1>19. CASE AcceptRefused
  BY Zenon, <1>19 DEF AcceptRefused
<1>20. CASE \E result \in Results : accept_invocation_review(result)
  BY <1>20 DEF accept_invocation_review, start_admitted_peer_invocation,
     Unrecorded
<1>21. CASE \E t \in Tasks : deny_invocation_review(t)
  BY Zenon, <1>21 DEF deny_invocation_review
<1>22. CASE \E t \in Tasks : TaskEnds(t)
  BY Zenon, <1>22 DEF TaskEnds
<1>23. CASE \E t \in Tasks : cancel_task(t)
  BY Zenon, <1>23 DEF cancel_task
<1>24. CASE \E b \in Bridges : stop_full_access_tasks(b)
  BY Zenon, <1>24 DEF stop_full_access_tasks
<1>25. CASE \E b \in Bridges : revoke_bridge_session(b)
  BY Zenon, <1>25 DEF revoke_bridge_session
<1>26. CASE \E b \in Bridges : Purge(b)
  BY <1>26 DEF Purge
<1>27. CASE Restart
  BY <1>27 DEF Restart
<1>28. QED
  BY Zenon, <1>1, <1>2, <1>3, <1>4, <1>5, <1>6, <1>7, <1>8, <1>9, <1>10, <1>11,
     <1>12, <1>13, <1>14, <1>15, <1>16, <1>17, <1>18, <1>19, <1>20, <1>21,
     <1>22, <1>23, <1>24, <1>25, <1>26, <1>27 DEF Next, ServiceStep,
     AcceptStep

(* Every quiet step keeps each running task of a grant stoppable.          *)
LEMMA GrantPreserved ==
    IInv /\ counts \in Counts /\ GrantFacts /\ Quiet /\ Quiet' /\ [Next]_vars
      => GrantFacts'
<1> SUFFICES ASSUME IInv, counts \in Counts, GrantFacts, Quiet, Quiet',
                    [Next]_vars
             PROVE  GrantFacts'
  BY Zenon
<1> USE DEF IInv, Types, GrantFacts, Waiting
<1>1. CASE UNCHANGED vars
  BY Zenon, <1>1 DEF vars, outside, admission, GrantOK
<1>2. CASE Tick
  <2>1. Tick
    BY Zenon, <1>2
  <2>2. ASSUME NEW u \in Tasks PROVE GrantOK(u)'
    BY Zenon, <2>1 DEF Tick, outside, admission, Delivered, GrantOK, TaskOK
  <2>3. QED
    BY Zenon, <2>1, <2>2 DEF Tick, outside, admission, Counts
<1>3. CASE \E b \in Bridges : NewSession(b)
  <2>1. PICK b \in Bridges : NewSession(b)
    BY Zenon, <1>3
  <2>2. ASSUME NEW u \in Tasks PROVE GrantOK(u)'
    BY Zenon, <2>1 DEF NewSession, outside, admission, Delivered, GrantOK,
       TaskOK
  <2>3. QED
    BY Zenon, <2>1, <2>2 DEF NewSession, outside, admission, Counts
<1>4. CASE \E b \in Bridges : SessionLost(b)
  <2>1. PICK b \in Bridges : SessionLost(b)
    BY Zenon, <1>4
  <2>2. ASSUME NEW u \in Tasks PROVE GrantOK(u)'
    BY Zenon, <2>1 DEF SessionLost, outside, admission, Delivered, GrantOK,
       TaskOK
  <2>3. QED
    BY Zenon, <2>1, <2>2 DEF SessionLost, outside, admission, Counts
<1>5. CASE \E b \in Bridges : grant_full_access(b)
  <2>1. PICK b \in Bridges : grant_full_access(b)
    BY Zenon, <1>5
  <2>2. ASSUME NEW u \in Tasks PROVE GrantOK(u)'
    BY Zenon, <2>1 DEF grant_full_access, outside, admission, Delivered,
       GrantOK, TaskOK
  <2>3. QED
    BY Zenon, <2>1, <2>2 DEF grant_full_access, outside, admission, Counts
<1>6. CASE \E b \in Bridges : revoke_full_access(b)
  <2>1. PICK b \in Bridges : revoke_full_access(b)
    BY Zenon, <1>6
  <2>2. ASSUME NEW u \in Tasks PROVE GrantOK(u)'
    BY Zenon, <2>1 DEF revoke_full_access, outside, admission, Delivered,
       GrantOK, TaskOK
  <2>3. QED
    BY Zenon, <2>1, <2>2 DEF revoke_full_access, outside, admission, Counts
<1>7. CASE \E b \in Bridges : SetShare(b)
  <2>1. PICK b \in Bridges : SetShare(b)
    BY Zenon, <1>7
  <2>2. ASSUME NEW u \in Tasks PROVE GrantOK(u)'
    BY Zenon, <2>1 DEF SetShare, outside, admission, Delivered, GrantOK,
       TaskOK
  <2>3. QED
    BY Zenon, <2>1, <2>2 DEF SetShare, outside, admission, Counts
<1>8. CASE \E b \in Bridges, t \in Tasks, share \in {"yes", "no"} :
                    Arrive(b, t, share)
  <2>1. PICK b \in Bridges, t \in Tasks, share \in {"yes", "no"} : Arrive(b, t, share)
    BY Zenon, <1>8
  <2>2. ASSUME NEW u \in Tasks PROVE GrantOK(u)'
    BY Zenon, <2>1 DEF Arrive, outside, admission, Delivered, GrantOK, TaskOK
  <2>3. QED
    BY Zenon, <2>1, <2>2 DEF Arrive, outside, admission, Counts
<1>9. CASE ListGrants
  BY <1>9 DEF ListGrants, Counts, Quiet
<1>10. CASE revoke_trusted_device
  BY Zenon, <1>10 DEF revoke_trusted_device, Counts, Quiet
<1>11. CASE \E t \in Tasks : AcceptResolve(t)
  <2>1. PICK t \in Tasks : AcceptResolve(t)
    BY Zenon, <1>11
  <2>2. ASSUME NEW u \in Tasks PROVE GrantOK(u)'
    BY Zenon, <2>1 DEF AcceptResolve, outside, admission, Delivered, GrantOK,
       TaskOK
  <2>3. QED
    BY Zenon, <2>1, <2>2 DEF AcceptResolve, outside, admission, Counts
<1>12. CASE \E b \in Bridges : ReceiveRefused(b)
  <2>1. PICK b \in Bridges : ReceiveRefused(b)
    BY Zenon, <1>12
  <2>2. ASSUME NEW u \in Tasks PROVE GrantOK(u)'
    BY Zenon, <2>1 DEF ReceiveRefused, outside, admission, Delivered,
       GrantOK, TaskOK
  <2>3. QED
    BY Zenon, <2>1, <2>2 DEF ReceiveRefused, outside, admission, Counts
<1>13. CASE \E b \in Bridges : DeleteGrants(b)
  BY Zenon, <1>13 DEF DeleteGrants, Counts, Quiet
<1>14. CASE \E b \in Bridges : readmit_bridge_after_fresh_trust(b)
  BY Zenon, <1>14 DEF readmit_bridge_after_fresh_trust, Counts, Quiet
<1>15. CASE expire_invocation_reviews
  <2>1. expire_invocation_reviews
    BY Zenon, <1>15
  <2>2. ASSUME NEW u \in Tasks PROVE GrantOK(u)'
    BY Zenon, <2>1 DEF expire_invocation_reviews, outside, Held, HeldOn,
       Expired, Without, end_review, WithExpired, GrantOK, TaskOK
  <2>3. QED
    BY Zenon, <2>1, <2>2 DEF expire_invocation_reviews, outside, admission, Counts
<1>16. CASE \E b \in Bridges : ReceiveHeld(b)
  <2>1. PICK b \in Bridges : ReceiveHeld(b)
    BY Zenon, <1>16
  <2>2. ASSUME NEW u \in Tasks PROVE GrantOK(u)'
    BY Zenon, <2>1 DEF ReceiveHeld, outside, Held, HeldOn, Expired, Without,
       end_review, WithExpired, IsNew, Delivered, GrantOK, TaskOK
  <2>3. QED
    BY Zenon, <2>1, <2>2 DEF ReceiveHeld, outside, admission, Counts
<1>17. CASE \E b \in Bridges, result \in Results :
                    ReceiveGranted(b, result)
  <2>1. PICK b \in Bridges, result \in Results : ReceiveGranted(b, result)
    BY Zenon, <1>17
  <2>2. arriving[b].task \in Tasks
    BY Zenon, <2>1, RequestType DEF ReceiveGranted, IsNew
  <2>3. ASSUME NEW u \in Tasks PROVE GrantOK(u)'
    BY Zenon, <2>1, <2>2 DEF ReceiveGranted, outside, Held, HeldOn, Expired,
       Without, end_review, WithExpired, IsNew, Delivered,
       start_admitted_peer_invocation, Unrecorded, Results, GrantOK, TaskOK
  <2>4. QED
    BY Zenon, <2>1, <2>3 DEF ReceiveGranted, outside, admission, Counts,
       start_admitted_peer_invocation, Unrecorded
<1>18. CASE AcceptUnavailable
  <2>1. AcceptUnavailable
    BY Zenon, <1>18
  <2>2. ASSUME NEW u \in Tasks PROVE GrantOK(u)'
    BY Zenon, <2>1 DEF AcceptUnavailable, outside, Held, HeldOn, Expired,
       Without, end_review, WithExpired, GrantOK, TaskOK
  <2>3. QED
    BY Zenon, <2>1, <2>2 DEF AcceptUnavailable, outside, admission, Counts
<1>19. CASE AcceptRefused
  <2>1. AcceptRefused
    BY Zenon, <1>19
  <2>2. ASSUME NEW u \in Tasks PROVE GrantOK(u)'
    BY Zenon, <2>1 DEF AcceptRefused, outside, Held, HeldOn, Expired,
       Without, end_review, WithExpired, GrantOK, TaskOK
  <2>3. QED
    BY Zenon, <2>1, <2>2 DEF AcceptRefused, outside, admission, Counts
<1>20. CASE \E result \in Results : accept_invocation_review(result)
  <2>1. PICK result \in Results : accept_invocation_review(result)
    BY Zenon, <1>20
  <2>2. accepting.task \in Tasks
    BY Zenon, <2>1, AcceptType DEF accept_invocation_review
  <2>3. ASSUME NEW u \in Tasks PROVE GrantOK(u)'
    BY Zenon, <2>1, <2>2 DEF accept_invocation_review, outside, Held, HeldOn,
       Expired, Without, end_review, WithExpired,
       start_admitted_peer_invocation, Unrecorded, Results,
       revalidate_review, GrantOK, TaskOK
  <2>4. QED
    BY Zenon, <2>1, <2>3 DEF accept_invocation_review, outside, admission, Counts,
       start_admitted_peer_invocation, Unrecorded
<1>21. CASE \E t \in Tasks : deny_invocation_review(t)
  <2>1. PICK t \in Tasks : deny_invocation_review(t)
    BY Zenon, <1>21
  <2>2. ASSUME NEW u \in Tasks PROVE GrantOK(u)'
    BY Zenon, <2>1 DEF deny_invocation_review, outside, Held, HeldOn,
       Expired, Without, end_review, WithExpired, GrantOK, TaskOK
  <2>3. QED
    BY Zenon, <2>1, <2>2 DEF deny_invocation_review, outside, admission, Counts
<1>22. CASE \E t \in Tasks : TaskEnds(t)
  <2>1. PICK t \in Tasks : TaskEnds(t)
    BY Zenon, <1>22
  <2>2. ASSUME NEW u \in Tasks PROVE GrantOK(u)'
    BY Zenon, <2>1 DEF TaskEnds, outside, Held, HeldOn, Expired, Without,
       end_review, WithExpired, GrantOK, TaskOK
  <2>3. QED
    BY Zenon, <2>1, <2>2 DEF TaskEnds, outside, admission, Counts
<1>23. CASE \E t \in Tasks : cancel_task(t)
  <2>1. PICK t \in Tasks : cancel_task(t)
    BY Zenon, <1>23
  <2>2. ASSUME NEW u \in Tasks PROVE GrantOK(u)'
    BY Zenon, <2>1 DEF cancel_task, outside, Held, HeldOn, Expired, Without,
       end_review, WithExpired, GrantOK, TaskOK
  <2>3. QED
    BY Zenon, <2>1, <2>2 DEF cancel_task, outside, admission, Counts
<1>24. CASE \E b \in Bridges : stop_full_access_tasks(b)
  <2>1. PICK b \in Bridges : stop_full_access_tasks(b)
    BY Zenon, <1>24
  <2>2. ASSUME NEW u \in Tasks PROVE GrantOK(u)'
    BY Zenon, <2>1 DEF stop_full_access_tasks, outside, Held, HeldOn,
       Expired, Without, end_review, WithExpired, granted_tasks, GrantOK,
       TaskOK
  <2>3. QED
    BY Zenon, <2>1, <2>2 DEF stop_full_access_tasks, outside, admission, Counts
<1>25. CASE \E b \in Bridges : revoke_bridge_session(b)
  <2>1. PICK b \in Bridges : revoke_bridge_session(b)
    BY Zenon, <1>25
  <2>2. ASSUME NEW u \in Tasks PROVE GrantOK(u)'
    BY Zenon, <2>1 DEF revoke_bridge_session, outside, Held, HeldOn, Expired,
       Without, end_review, WithExpired, OwnedBy, GrantOK, TaskOK
  <2>3. QED
    BY Zenon, <2>1, <2>2 DEF revoke_bridge_session, outside, admission, Counts
<1>26. CASE \E b \in Bridges : Purge(b)
  BY <1>26 DEF Purge, Counts, Quiet
<1>27. CASE Restart
  <2>1. Restart
    BY Zenon, <1>27
  <2>2. ASSUME NEW u \in Tasks PROVE GrantOK(u)'
    BY Zenon, <2>1 DEF Restart, outside, Held, HeldOn, Expired, Without,
       end_review, WithExpired, GrantOK, TaskOK
  <2>3. QED
    BY Zenon, <2>1, <2>2 DEF Restart, outside, admission, Counts
<1>28. QED
  BY Zenon, <1>1, <1>2, <1>3, <1>4, <1>5, <1>6, <1>7, <1>8, <1>9, <1>10, <1>11,
     <1>12, <1>13, <1>14, <1>15, <1>16, <1>17, <1>18, <1>19, <1>20, <1>21,
     <1>22, <1>23, <1>24, <1>25, <1>26, <1>27 DEF Next, ServiceStep,
     AcceptStep

(* Ending Full Access stops every observed task it admitted, until a       *)
(* device is revoked or a Bridge is trusted anew.                          *)
THEOREM EndedGrantStops == Spec => []EndedGrantStopsItsTasks
<1>1. Init => GrantInv
  BY Zenon, GrantInitially
<1>2. IInv /\ GrantInv /\ [Next]_vars => GrantInv'
  BY Zenon, GrantPreserved, CountsGrow DEF GrantInv
<1>3. GrantInv => EndedGrantStopsItsTasks
  BY Zenon DEF GrantInv, GrantFacts, Quiet, GrantOK, EndedGrantStopsItsTasks
<1>4. QED
  BY <1>1, <1>2, <1>3, Invariant, PTL DEF Spec
=============================================================================
