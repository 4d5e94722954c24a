------------------------- MODULE PlanAttemptProofs -------------------------
(***************************************************************************)
(* The inductive invariant of PlanAttempt, for any Hosts, steps and         *)
(* dependencies and any number of faults, and the steps of the requester    *)
(* and of delivery that keep it.                                            *)
(***************************************************************************)
EXTENDS PlanAttempt, TLAPS

Kinds == {"review", "check", "start", "commit", "step", "cancel", "readiness", "prepared",
          "result", "failure"}
Notes == {"none", "ready", "unavailable", "prepared", "open", "closed", "user_cancelled",
          "review_delivery_failed", "coordination_delivery_failed", "external_step_failed"}
Msgs == [kind : Kinds, host : Bound, step : 0..StepCount, note : Notes]
Queue(S) == [kind : {"begin", "spawned", "direct", "cancel"}, items : Seq(S)]

(* A step whose one execution is over and left what it must leave.          *)
Done(s) == /\ dispatch[s] = "completed"
           /\ Op[s] = "managed" => claim[s] = "completed"
           /\ Op[s] = "transfer" => s \in receipts

(* What the existence of an event says about the rows, wherever it is: in a *)
(* queue, on the wire, judged or not.                                       *)
Fact(m) == /\ m.kind = "prepared" => recv[m.host] # "none"
           /\ m.kind = "commit" => decided
           /\ m.kind = "step" => m.step \in Steps /\ m.step \in commits[Requester]
           /\ m.kind = "result" => m.step \in Steps /\ Done(m.step)
           /\ m.kind = "cancel" => attempt \in Stopped
Good == {m \in Msgs : Fact(m)}
Flight == tasks \subseteq Queue(Good) /\ wire \subseteq Good

(* A step keeps every such fact.                                            *)
Grows == /\ \A h \in Bound : recv[h] # "none" => recv'[h] # "none"
         /\ decided => decided'
         /\ commits[Requester] \subseteq commits'[Requester]
         /\ \A s \in Steps : Done(s) => Done(s)'
         /\ attempt \in Stopped => attempt' \in Stopped

-----------------------------------------------------------------------------
(* Queues.                                                                  *)

(* An event that was justified stays justified while the rows only grow.    *)
LEMMA GoodGrows == Grows => Good \subseteq Good'
  BY Zenon DEF Grows, Good, Fact, Msgs

(* Sequences over a set are sequences over a larger one.                    *)
LEMMA SeqGrows == ASSUME NEW S, NEW T, S \subseteq T PROVE Seq(S) \subseteq Seq(T)
  OBVIOUS

(* A queue of events of S is a queue of events of a larger set.             *)
LEMMA QueueGrows == ASSUME NEW S, NEW T, S \subseteq T PROVE Queue(S) \subseteq Queue(T)
  BY Zenon, SeqGrows DEF Queue

(* The head and the tail of a non-empty sequence.                           *)
LEMMA Ends == ASSUME NEW S, NEW q \in Seq(S), q # <<>>
              PROVE  Head(q) \in S /\ Tail(q) \in Seq(S)
  OBVIOUS

(* Putting an element in front keeps a sequence over S.                     *)
LEMMA Cons == ASSUME NEW S, NEW m \in S, NEW q \in Seq(S) PROVE <<m>> \o q \in Seq(S)
  OBVIOUS

(* The concatenation of two sequences over S is one over S.                 *)
LEMMA Joined == ASSUME NEW S, NEW p \in Seq(S), NEW q \in Seq(S) PROVE p \o q \in Seq(S)
  OBVIOUS

(* A new task over events of S is a queue over S.                           *)
LEMMA TaskQueued == ASSUME NEW S, NEW q \in Seq(S),
                           NEW k \in {"begin", "spawned", "direct", "cancel"}
                    PROVE  Task(k, q) \subseteq Queue(S)
  BY DEF Task, Queue

(* What a failed delivery leaves of a task is again a queue over S.         *)
LEMMA FailedQueued == ASSUME NEW S, NEW t \in Queue(S) PROVE Failed(t) \subseteq Queue(S)
<1>1. <<>> \in Seq(S)
  OBVIOUS
<1>2. ASSUME t.kind \in {"begin", "spawned"}
      PROVE  [kind |-> t.kind, items |-> <<>>] \in Queue(S)
  BY Zenon, <1>1, <1>2 DEF Queue
<1>. QED
  BY Zenon, <1>2 DEF Failed

(* One event for every bound Host is a sequence over any set that holds     *)
(* them.                                                                    *)
LEMMA ToAllQueued ==
  ASSUME NEW S, NEW k, NEW s, NEW n, \A h \in Bound : Msg(k, h, s, n) \in S
  PROVE  ToAll(k, s, n) \in Seq(S)
<1>1. DOMAIN Order = 1..Len(Order) /\ Len(Order) \in Nat
  BY PlanAssumption
<1>2. \A i \in 1..Len(Order) : Msg(k, Order[i], s, n) \in S
  BY Zenon, <1>1 DEF Bound
<1>. QED
  BY <1>1, <1>2 DEF ToAll

(* So are the reviews and readiness checks of a range of Hosts.             *)
LEMMA OffersQueued ==
  ASSUME NEW S, NEW a \in Nat \ {0}, NEW b \in Nat, b <= Len(Order),
         \A h \in Bound : Msg("review", h, 0, "none") \in S /\ Msg("check", h, 0, "none") \in S
  PROVE  Offers(a, b) \in Seq(S)
<1>1. DOMAIN Order = 1..Len(Order) /\ Len(Order) \in Nat
  BY PlanAssumption
<1>2. \A k \in 1..(2 * (b + 1 - a)) : a + (k - 1) \div 2 \in 1..Len(Order)
  BY <1>1
<1>3. \A k \in 1..(2 * (b + 1 - a)) :
        Msg(IF k % 2 = 1 THEN "review" ELSE "check", Order[a + (k - 1) \div 2], 0, "none") \in S
  BY Zenon, <1>1, <1>2 DEF Bound
<1>4. CASE b + 1 >= a
  <2>1. 2 * (b + 1 - a) \in Nat
    BY <1>4
  <2>. QED
    BY <1>3, <2>1 DEF Offers
<1>5. CASE b + 1 < a
  <2>1. 1..(2 * (b + 1 - a)) = {}
    BY <1>5
  <2>2. Offers(a, b) = <<>>
    BY <2>1 DEF Offers
  <2>. QED
    BY <2>2
<1>. QED
  BY <1>4, <1>5

(* So is the first task of an attempt, with or without the requester as a   *)
(* Host (prepare_requester_attempt).                                        *)
LEMMA FirstQueued ==
  ASSUME NEW S,
         \A h \in Bound : Msg("review", h, 0, "none") \in S /\ Msg("check", h, 0, "none") \in S
  PROVE  FirstEvents \in Seq(S)
<1>1. DOMAIN Order = 1..Len(Order) /\ Len(Order) \in Nat
  BY PlanAssumption
<1>2. CASE Requester \notin Bound
  BY <1>1, <1>2, OffersQueued DEF FirstEvents
<1>3. CASE Requester \in Bound
  <2>. DEFINE p == CHOOSE i \in DOMAIN Order : Local(Order[i])
  <2>1. p \in DOMAIN Order
    BY Zenon, <1>3 DEF Bound, Local
  <2>. HIDE DEF p
  <2>2. Offers(1, p - 1) \in Seq(S) /\ Offers(p + 1, Len(Order)) \in Seq(S)
    <3>1. p - 1 \in Nat /\ p - 1 <= Len(Order) /\ p + 1 \in Nat \ {0}
      BY <1>1, <2>1
    <3>. QED
      BY <1>1, <3>1, OffersQueued
  <2>3. <<Msg("check", Requester, 0, "none")>> \in Seq(S)
    BY <1>3
  <2>4. (Offers(1, p - 1) \o <<Msg("check", Requester, 0, "none")>>) \o Offers(p + 1, Len(Order))
          \in Seq(S)
    BY Zenon, <2>2, <2>3, Joined
  <2>5. FirstEvents = Offers(1, p - 1) \o <<Msg("check", Requester, 0, "none")>>
                        \o Offers(p + 1, Len(Order))
    BY Zenon, <1>3 DEF FirstEvents, p
  <2>. QED
    BY Zenon, <2>4, <2>5
<1>. QED
  BY Zenon, <1>2, <1>3

(* Steps are well ordered.  PlanAttemptTheorems proves it.                  *)
Ordered == \A T \in SUBSET Steps : T # {} => \E s \in T : \A r \in T : s <= r
-----------------------------------------------------------------------------
(* The invariant.                                                           *)

(* Who has promised, and when the decision was made.                        *)
Promises ==
  /\ attempt = "none" => tasks = {}
  /\ attempt \in {"none", "checking_readiness", "preparing"} => ~decided
  /\ attempt \in {"running", "completed"} => decided
  /\ decided => \A h \in Bound : recv[h] # "none"
  /\ \A h \in Bound :
       /\ admission[h] = "prepared" => recv[h] # "none"
       /\ recv[h] # "none" => attempt # "none" /\ base[h] # "none"
       /\ worker[h] # "none" => recv[h] # "none"
       /\ recv[h] \in {"running", "completed"} => decided
       /\ h \in driving => recv[h] \notin {"none", "prepared"}

(* The requester's rows agree with each other.                              *)
Ledgers ==
  /\ StatusIsCoherent
  /\ \A h \in Bound : /\ commits[h] \subseteq commits[Requester]
                      /\ \A s \in commits[h] : DepsIn(s, commits[h])
                      /\ recv[h] = "completed" => Steps \subseteq commits[h]

(* A step is executed after all the steps before it are committed where it  *)
(* runs, so steps run in authored order.                                    *)
Execution ==
  /\ CommittedMeansDone
  /\ \A s \in Steps :
       /\ dispatch[s] # "none" => decided /\ 1..(s - 1) \subseteq commits[Runner[s]]
       /\ s \in work => dispatch[s] \notin {"none", "completed"}
       /\ claim[s] # "none" => Op[s] = "managed"
       /\ Op[s] = "managed" /\ dispatch[s] = "cancelled"
            => worker[Runner[s]] = "cancelled" /\ claim[s] \in {"none", "interrupted"}

(* A step that was dispatched and will never be committed.                  *)
Dead(s) == /\ dispatch[s] # "none" /\ s \notin commits[Requester]
           /\ attempt \in Stopped \/ dispatch[s] \in Stopped
(* A receiver that stopped while its worker lives on is held by such a step. *)
Halted == \A h \in Bound :
  recv[h] \in Stopped /\ base[h] = "accepted" /\ worker[h] \in Active
    => \E s \in Steps : Runner[s] = h /\ Dead(s)

State == Promises /\ Ledgers /\ Execution /\ Halted
-----------------------------------------------------------------------------
(* What the steps of a task do to the events in flight.                     *)

(* Events already in flight stay justified while the rows grow.             *)
LEMMA Kept == ASSUME Flight, Grows
              PROVE  tasks \subseteq Queue(Good') /\ wire \subseteq Good'
  BY Zenon, GoodGrows, QueueGrows DEF Flight

(* What a task of a queue over S consists of.                               *)
LEMMA Queued == ASSUME NEW S, tasks \subseteq Queue(S), NEW t \in tasks
                PROVE  /\ t \in Queue(S)
                       /\ t.kind \in {"begin", "spawned", "direct", "cancel"}
                       /\ t.items \in Seq(S)
                       /\ t.items # <<>> => Head(t.items) \in S /\ Tail(t.items) \in Seq(S)
<1>1. t \in Queue(S)
  BY Zenon
<1>2. t.kind \in {"begin", "spawned", "direct", "cancel"} /\ t.items \in Seq(S)
  BY Zenon, <1>1 DEF Queue
<1>. QED
  BY Zenon, <1>1, <1>2, Ends

(* Advancing a task to a rest over S keeps the tasks queues over S.         *)
LEMMA Advanced == ASSUME NEW S, tasks \subseteq Queue(S), NEW t \in tasks,
                         NEW items \in Seq(S), Advance(t, items)
                  PROVE  tasks' \subseteq Queue(S)
  BY Zenon, Queued, TaskQueued DEF Advance

(* Dropping a task whose delivery failed keeps them queues over S.          *)
LEMMA Dropped == ASSUME NEW S, tasks \subseteq Queue(S), NEW t \in tasks, Drop(t)
                 PROVE  tasks' \subseteq Queue(S)
  BY Zenon, Queued, FailedQueued DEF Drop

(* Delivering the head of a task and going on keeps them queues over S.     *)
LEMMA AnsweredQueued == ASSUME NEW S, tasks \subseteq Queue(S), NEW t \in tasks,
                               NEW items \in Seq(S), Answered(t, items)
                        PROVE  tasks' \subseteq Queue(S)
  BY Zenon, Advanced, Dropped DEF Answered

(* A Host's reply, put on the wire or at the head of a local task, keeps    *)
(* the tasks and the wire over S.                                           *)
LEMMA ReplyQueued ==
  ASSUME NEW S, tasks \subseteq Queue(S), wire \subseteq S, NEW t \in tasks, t.items # <<>>,
         NEW m \in S, Reply(t, m)
  PROVE  tasks' \subseteq Queue(S) /\ wire' \subseteq S
<1>1. Tail(t.items) \in Seq(S) /\ <<m>> \o Tail(t.items) \in Seq(S)
  BY Zenon, Queued, Cons
<1>. QED
  BY <1>1, AnsweredQueued, Zenon DEF Reply

(* An event that the requester can hear is one of S.                        *)
LEMMA Inbound == ASSUME NEW S, tasks \subseteq Queue(S), wire \subseteq S, NEW k,
                        NEW e \in Inbox(k)
                 PROVE  /\ e[2] \in S /\ e[2].kind = k
                        /\ e[1] = NoTask \/ (e[1] \in tasks /\ e[1].items # <<>>)
                        /\ e[1] = NoTask => e[2] \in wire
  BY Queued DEF Inbox, Ready, NoTask

(* Hearing it and spawning the next task keeps the tasks and the wire over  *)
(* S.                                                                       *)
LEMMA HeardQueued == ASSUME NEW S, tasks \subseteq Queue(S), wire \subseteq S, NEW k,
                            NEW e \in Inbox(k), NEW items \in Seq(S), Heard(e, items)
                     PROVE  tasks' \subseteq Queue(S) /\ wire' \subseteq S
<1>1. CASE e[1] = NoTask
  BY Zenon, <1>1, TaskQueued DEF Heard
<1>2. CASE e[1] # NoTask
  <2>1. e[1] \in tasks /\ e[1].items # <<>>
    BY <1>2, Inbound, Zenon
  <2>2. Tail(e[1].items) \o items \in Seq(S)
    BY Zenon, <2>1, Queued, Joined
  <2>. QED
    BY <1>2, <2>1, <2>2, Advanced, Zenon DEF Heard
<1>. QED
  BY Zenon, <1>1, <1>2

(* So does ignoring it.                                                     *)
LEMMA IgnoredQueued == ASSUME NEW S, tasks \subseteq Queue(S), wire \subseteq S, NEW k,
                              NEW e \in Inbox(k), Ignored(e)
                       PROVE  tasks' \subseteq Queue(S) /\ wire' \subseteq S
<1>1. CASE e[1] = NoTask
  BY Zenon, <1>1 DEF Ignored
<1>2. CASE e[1] # NoTask
  BY Zenon, <1>2, Inbound, Dropped DEF Ignored
<1>. QED
  BY Zenon, <1>1, <1>2

(* So does a Host's report of an event of S.                                *)
LEMMA ReportQueued == ASSUME NEW S, tasks \subseteq Queue(S), wire \subseteq S, NEW m \in S,
                             Report(m)
                      PROVE  tasks' \subseteq Queue(S) /\ wire' \subseteq S
<1>1. <<m>> \in Seq(S)
  OBVIOUS
<1>. QED
  BY <1>1, TaskQueued, Zenon DEF Report

(* The type of an event record.                                             *)
LEMMA MsgType == ASSUME NEW k \in Kinds, NEW h \in Bound, NEW s \in 0..StepCount,
                        NEW n \in Notes
                 PROVE  /\ Msg(k, h, s, n) \in Msgs
                        /\ Msg(k, h, s, n).kind = k /\ Msg(k, h, s, n).host = h
                        /\ Msg(k, h, s, n).step = s
  BY Zenon DEF Msg, Msgs

(* The head of a task ready for an event of kind k is a justified event of  *)
(* that kind.                                                               *)
LEMMA Item == ASSUME Flight, NEW k, NEW t \in Ready(k)
              PROVE  /\ t \in tasks /\ t.items # <<>>
                     /\ Head(t.items) \in Good /\ Head(t.items) \in Msgs
                     /\ Head(t.items).kind = k /\ Fact(Head(t.items))
                     /\ Head(t.items).host \in Bound /\ Head(t.items).step \in 0..StepCount
                     /\ Tail(t.items) \in Seq(Good)
<1>1. t \in tasks /\ t.items # <<>> /\ Head(t.items).kind = k
  BY Zenon DEF Ready
<1>2. Head(t.items) \in Good /\ Tail(t.items) \in Seq(Good)
  BY Zenon, <1>1, Queued DEF Flight
<1>. QED
  BY Zenon, <1>1, <1>2 DEF Good, Msgs

-----------------------------------------------------------------------------
(* The parts of the type invariant.                                         *)
Counted == /\ clock \in 0..MaxClock /\ approvedAt \in 0..MaxClock
           /\ {expired, unheard} \subseteq BOOLEAN /\ mishaps \in 0..MaxMishaps
           /\ fresh \in [Bound -> BOOLEAN]
RequesterTyped ==
  /\ attempt \in {"none"} \union Live \union Terminal
  /\ revision \in {"draft", "approved"} \union Live \union Terminal
  /\ steps \in [Steps -> {"pending", "eligible"} \union Terminal]
  /\ readiness \in [Bound -> {"pending", "ready", "unavailable"}]
  /\ admission \in [Bound -> {"pending", "prepared", "committed", "cancelled"}]
  /\ decided \in BOOLEAN
HostTyped ==
  /\ reviewed \subseteq Bound /\ review \in [Bound -> {"none", "ready", "unavailable"}]
  /\ base \in [Bound -> {"none", "accepted", "interrupted"}]
  /\ recv \in [Bound -> {"none"} \union Runnable \union Terminal]
  /\ worker \in [Bound -> {"none"} \union Active \union Stopped]
  /\ commits \in [Bound \union {Requester} -> SUBSET Steps]
  /\ driving \subseteq Bound
StepTyped ==
  /\ dispatch \in [Steps -> {"none", "dispatching"} \union Terminal]
  /\ claim \in [Steps -> {"none", "claimed", "completed", "interrupted"}]
  /\ receipts \subseteq Steps /\ work \subseteq Steps

IInv == Counted /\ RequesterTyped /\ HostTyped /\ StepTyped /\ Flight /\ State

(* The inductive invariant contains the type invariant.                     *)
LEMMA Typed == IInv => TypeOK
  BY Zenon DEF IInv, TypeOK, Counted, RequesterTyped, HostTyped, StepTyped

(* Steps that leave the requester's rows alone keep their types.            *)
LEMMA RequesterFrame == RequesterTyped /\ UNCHANGED reqVars => RequesterTyped'
  BY Zenon DEF RequesterTyped, reqVars

(* The same for the rows of the Hosts.                                      *)
LEMMA HostFrame == HostTyped /\ UNCHANGED <<hostVars, driving>> => HostTyped'
  BY Zenon DEF HostTyped, hostVars

(* The same for the dispatches, claims and receipts.                        *)
LEMMA StepFrame == StepTyped /\ UNCHANGED stepVars => StepTyped'
  BY Zenon DEF StepTyped, stepVars

(* Nothing but the clock, the sessions, the fault count and the history.    *)
LEMMA CountedFrame == Counted /\ UNCHANGED <<planVars, envVars, unheard>> => Counted'
  BY Zenon DEF Counted, planVars, envVars

(* A fault stays within the bound on faults.                                *)
LEMMA HitCounted == ASSUME NEW f, mishaps \in 0..MaxMishaps, Hit(f)
                    PROVE  mishaps' \in 0..MaxMishaps
  BY PlanAssumption DEF Hit

(* The history variable stays Boolean.                                      *)
LEMMA UnheardTyped == ASSUME NEW b, unheard \in BOOLEAN, Unheard(b) PROVE unheard' \in BOOLEAN
  BY Zenon DEF Unheard

(* A step that changes no row of the protocol keeps the state part of the   *)
(* invariant, and justified events stay so.                                 *)
LEMMA Quiet == ASSUME State, UNCHANGED <<reqVars, base, recv, worker, commits, stepVars, driving>>,
                      tasks = {} => tasks' = {}
               PROVE  State' /\ Grows
<1>1. Promises'
  BY Zenon DEF State, Promises, reqVars
<1>2. Ledgers'
  BY Zenon DEF State, Ledgers, reqVars, StatusIsCoherent, DepsIn
<1>3. Execution'
  BY Zenon DEF State, Execution, reqVars, stepVars, CommittedMeansDone
<1>4. Halted'
  BY Zenon DEF State, Halted, Dead, reqVars, stepVars
<1>5. Grows
  BY Zenon DEF Grows, Done, reqVars, stepVars
<1>. QED
  BY Zenon, <1>1, <1>2, <1>3, <1>4, <1>5 DEF State

(* Delivering an event keeps the counters and the history variable typed.   *)
LEMMA AnsweredCounted ==
  ASSUME Counted, NEW t, NEW items, Answered(t, items), UNCHANGED <<planVars, fresh, expired>>
  PROVE  Counted'
<1>1. mishaps' \in 0..MaxMishaps
  BY Zenon, HitCounted DEF Counted, Answered
<1>2. unheard' \in BOOLEAN
  BY Zenon, UnheardTyped DEF Counted, Answered, Drop
<1>. QED
  BY Zenon, <1>1, <1>2 DEF Counted, planVars

(* So does replying.                                                        *)
LEMMA ReplyCounted ==
  ASSUME Counted, NEW t, NEW m, Reply(t, m), UNCHANGED <<planVars, fresh, expired>>
  PROVE  Counted'
  BY Zenon, AnsweredCounted DEF Reply

(* So does ignoring an event.                                               *)
LEMMA IgnoredCounted ==
  ASSUME Counted, NEW e, Ignored(e), UNCHANGED <<planVars, envVars>>
  PROVE  Counted'
<1>1. unheard' \in BOOLEAN
  BY UnheardTyped, Zenon DEF Counted, Ignored, Drop
<1>. QED
  BY Zenon, <1>1 DEF Counted, planVars, envVars

-----------------------------------------------------------------------------
(* Steps that change none of the rows the invariant is about.               *)

(* The clock keeps the invariant.                                           *)
LEMMA TickKeeps == ASSUME IInv, Tick PROVE IInv'
<1>1. Counted' /\ RequesterTyped' /\ HostTyped' /\ StepTyped'
  BY RequesterFrame, HostFrame, StepFrame, PlanAssumption DEF IInv, Tick, Counted, envVars
<1>2. State' /\ Grows
  BY Zenon, Quiet DEF IInv, Tick, hostVars
<1>3. Flight'
  BY Zenon, <1>2, Kept DEF IInv, Tick, Flight
<1>. QED
  BY Zenon, <1>1, <1>2, <1>3 DEF IInv

(* A delivered review keeps the invariant.                                  *)
LEMMA ReviewKeeps == ASSUME IInv, DeliverReview PROVE IInv'
<1>1. PICK t \in Ready("review") :
        /\ Accepts(Head(t.items)) /\ Answered(t, Tail(t.items))
        /\ reviewed' = reviewed \union {Head(t.items).host}
  BY Zenon DEF DeliverReview
<1>2. t \in tasks /\ Head(t.items).host \in Bound /\ Tail(t.items) \in Seq(Good)
  BY Zenon, Item DEF IInv
<1>3. Counted'
  BY Zenon, <1>1, AnsweredCounted DEF IInv, DeliverReview
<1>4. RequesterTyped' /\ StepTyped' /\ HostTyped'
  BY Zenon, <1>1, <1>2, RequesterFrame, StepFrame DEF IInv, DeliverReview, HostTyped
<1>5. State' /\ Grows
  BY Zenon, <1>2, Quiet DEF IInv, DeliverReview
<1>6. Tail(t.items) \in Seq(Good')
  BY Zenon, <1>2, <1>5, GoodGrows, SeqGrows
<1>7. Flight'
  BY <1>1, <1>2, <1>5, <1>6, Kept, AnsweredQueued, Zenon DEF IInv, DeliverReview, Flight
<1>. QED
  BY Zenon, <1>3, <1>4, <1>5, <1>7 DEF IInv

(* A delivered readiness check keeps the invariant.                         *)
LEMMA CheckKeeps == ASSUME IInv, DeliverCheck PROVE IInv'
<1>1. PICK t \in Ready("check"), answer \in Answers :
        /\ Reply(t, Msg("readiness", Head(t.items).host, 0, answer))
        /\ reviewed' = reviewed \union {Head(t.items).host}
        /\ review' = [review EXCEPT ![Head(t.items).host] = answer]
  BY Zenon DEF DeliverCheck
<1>. DEFINE m == Msg("readiness", Head(t.items).host, 0, answer)
<1>2. t \in tasks /\ t.items # <<>> /\ Head(t.items).host \in Bound
  BY Zenon, Item DEF IInv
<1>3. Counted'
  BY Zenon, <1>1, ReplyCounted DEF IInv, DeliverCheck
<1>4. HostTyped'
  BY Zenon, <1>1, <1>2, PlanAssumption DEF IInv, DeliverCheck, HostTyped
<1>5. RequesterTyped' /\ StepTyped'
  BY Zenon, RequesterFrame, StepFrame DEF IInv, DeliverCheck
<1>6. State' /\ Grows
  BY Zenon, <1>2, Quiet DEF IInv, DeliverCheck
<1>7. m \in Msgs /\ m.kind = "readiness"
  <2>1. "readiness" \in Kinds /\ 0 \in 0..StepCount /\ answer \in Notes
    BY PlanAssumption DEF Kinds, Notes
  <2>. QED
    BY <1>2, <2>1, MsgType
<1>8. m \in Good'
  BY Zenon, <1>7 DEF Good, Fact, Msgs
<1>9. Flight'
  BY Zenon, <1>1, <1>2, <1>6, <1>8, Kept, ReplyQueued DEF IInv, Flight
<1>. QED
  BY Zenon, <1>3, <1>4, <1>5, <1>6, <1>9 DEF IInv

(* A refused or lost delivery keeps the invariant.                          *)
LEMMA RefusedKeeps == ASSUME IInv, DeliveryRefused PROVE IInv'
<1>1. PICK t \in tasks : (UNCHANGED mishaps \/ \E f \in {"lost", "denied"} : Hit(f)) /\ Drop(t)
  BY Zenon DEF DeliveryRefused
<1>2. Counted'
  BY Zenon, <1>1, HitCounted, UnheardTyped DEF IInv, DeliveryRefused, Counted, planVars, Drop
<1>3. RequesterTyped' /\ StepTyped' /\ HostTyped'
  BY Zenon, RequesterFrame, StepFrame, HostFrame DEF IInv, DeliveryRefused
<1>4. State' /\ Grows
  BY Zenon, <1>1, Quiet DEF IInv, DeliveryRefused, hostVars
<1>5. Flight'
  BY Zenon, <1>1, <1>4, Kept, Dropped DEF IInv, DeliveryRefused, Flight
<1>. QED
  BY Zenon, <1>2, <1>3, <1>4, <1>5 DEF IInv

(* A replaced session keeps the invariant.                                  *)
LEMMA SessionKeeps == ASSUME IInv, NEW h \in Bound, SessionReplaced(h) PROVE IInv'
<1>1. Counted'
  BY Zenon, HitCounted DEF IInv, SessionReplaced, Counted, planVars
<1>2. RequesterTyped' /\ StepTyped' /\ HostTyped'
  BY Zenon, RequesterFrame, StepFrame, HostFrame DEF IInv, SessionReplaced
<1>3. State' /\ Grows
  BY Zenon, Quiet DEF IInv, SessionReplaced, hostVars
<1>4. Flight'
  BY Zenon, <1>3, Kept DEF IInv, SessionReplaced, Flight
<1>. QED
  BY Zenon, <1>1, <1>2, <1>3, <1>4 DEF IInv

(* The expiry of the attempt keeps the invariant.                           *)
LEMMA ExpireKeeps == ASSUME IInv, Expire PROVE IInv'
<1>1. Counted'
  BY Zenon, HitCounted DEF IInv, Expire, Counted, planVars
<1>2. RequesterTyped' /\ StepTyped' /\ HostTyped'
  BY Zenon, RequesterFrame, StepFrame, HostFrame DEF IInv, Expire
<1>3. State' /\ Grows
  BY Zenon, Quiet DEF IInv, Expire, hostVars
<1>4. Flight'
  BY Zenon, <1>3, Kept DEF IInv, Expire, Flight
<1>. QED
  BY Zenon, <1>1, <1>2, <1>3, <1>4 DEF IInv

(* A lost message keeps the invariant.                                      *)
LEMMA LostKeeps == ASSUME IInv, LoseMessage PROVE IInv'
<1>1. Counted'
  BY HitCounted, UnheardTyped, Zenon DEF IInv, LoseMessage, Counted, planVars
<1>2. RequesterTyped' /\ StepTyped' /\ HostTyped'
  BY Zenon, RequesterFrame, StepFrame, HostFrame DEF IInv, LoseMessage
<1>3. State' /\ Grows
  BY Zenon, Quiet DEF IInv, LoseMessage, hostVars
<1>4. Flight'
  BY Zenon, <1>3, Kept DEF IInv, LoseMessage, Flight
<1>. QED
  BY Zenon, <1>1, <1>2, <1>3, <1>4 DEF IInv

(* An event the requester can hear is justified and of the kind asked for.  *)
LEMMA Event == ASSUME Flight, NEW k, NEW e \in Inbox(k)
               PROVE  /\ e[2] \in Good /\ e[2] \in Msgs /\ Fact(e[2]) /\ e[2].kind = k
                      /\ e[2].host \in Bound /\ e[2].step \in 0..StepCount
                      /\ e[1] = NoTask \/ (e[1] \in tasks /\ e[1].items # <<>>)
<1>1. /\ e[2] \in Good /\ e[2].kind = k
      /\ e[1] = NoTask \/ (e[1] \in tasks /\ e[1].items # <<>>)
  BY Zenon, Inbound DEF Flight
<1>. QED
  BY Zenon, <1>1 DEF Good, Msgs

(* An event of a justified kind for every bound Host is a sequence of       *)
(* justified events.                                                        *)
LEMMA ToAllGood ==
  ASSUME NEW k \in Kinds, NEW s \in 0..StepCount, NEW n \in Notes,
         \A h \in Bound : Fact(Msg(k, h, s, n))'
  PROVE  ToAll(k, s, n) \in Seq(Good')
<1>1. \A h \in Bound : Msg(k, h, s, n) \in Good'
  BY Zenon, MsgType DEF Good
<1>. QED
  BY Zenon, <1>1, ToAllQueued

(* The check that precedes the judgement of a readiness or prepared answer  *)
(* keeps the invariant.                                                     *)
LEMMA PrevalidateKeeps == ASSUME IInv, Prevalidate PROVE IInv'
<1>1. PICK e \in Inbox("readiness") \union Inbox("prepared"), n \in {"open", "closed"} :
        \/ /\ UNCHANGED unheard
           /\ IF e[1] = NoTask
              THEN wire' = (wire \ {e[2]}) \union {[e[2] EXCEPT !.note = n]} /\ tasks' = tasks
              ELSE wire' = wire /\ Advance(e[1], <<[e[2] EXCEPT !.note = n]>> \o Tail(e[1].items))
        \/ Ignored(e)
  BY Zenon DEF Prevalidate
<1>. DEFINE seen == [e[2] EXCEPT !.note = n]
<1>0. PICK k \in {"readiness", "prepared"} : e \in Inbox(k)
  BY Zenon
<1>2. e[2] \in Msgs /\ Fact(e[2]) /\ (e[1] = NoTask \/ (e[1] \in tasks /\ e[1].items # <<>>))
  BY Zenon, <1>0, Event DEF IInv
<1>3. Counted'
  BY Zenon, <1>1, IgnoredCounted, CountedFrame DEF IInv, Prevalidate
<1>4. RequesterTyped' /\ StepTyped' /\ HostTyped'
  BY Zenon, RequesterFrame, StepFrame, HostFrame DEF IInv, Prevalidate
<1>5. tasks = {} => tasks' = {}
  BY <1>1, <1>2, Zenon DEF Ignored
<1>6. State' /\ Grows
  BY Zenon, <1>5, Quiet DEF IInv, Prevalidate, hostVars
<1>7. seen \in Good
  BY Zenon, <1>2 DEF Good, Msgs, Fact, Notes
<1>8. seen \in Good' /\ tasks \subseteq Queue(Good') /\ wire \subseteq Good'
  BY Zenon, <1>6, <1>7, GoodGrows, Kept DEF IInv
<1>. HIDE DEF seen
<1>9. Flight'
  <2>1. CASE Ignored(e)
    BY Zenon, <1>0, <1>8, <2>1, IgnoredQueued DEF Flight
  <2>2. CASE e[1] = NoTask /\ wire' = (wire \ {e[2]}) \union {seen} /\ tasks' = tasks
    BY Zenon, <1>8, <2>2 DEF Flight
  <2>3. CASE e[1] # NoTask /\ wire' = wire /\ Advance(e[1], <<seen>> \o Tail(e[1].items))
    <3>1. e[1] \in tasks /\ <<seen>> \o Tail(e[1].items) \in Seq(Good')
      BY Zenon, <1>2, <1>8, <2>3, Queued, Cons
    <3>. QED
      BY <1>8, <2>3, <3>1, Advanced, Zenon DEF Flight
  <2>. QED
    BY Zenon, <1>1, <2>1, <2>2, <2>3 DEF seen
<1>. QED
  BY Zenon, <1>3, <1>4, <1>6, <1>9 DEF IInv

-----------------------------------------------------------------------------
(* The requester.                                                           *)

(* The approval keeps the invariant.                                        *)
LEMMA ApproveKeeps == ASSUME IInv, approve PROVE IInv'
<1>1. Counted' /\ RequesterTyped'
  BY Zenon DEF IInv, approve, Counted, RequesterTyped, envVars
<1>2. StepTyped' /\ HostTyped'
  BY Zenon, StepFrame, HostFrame DEF IInv, approve
<1>3. attempt = "none"
  BY Zenon DEF IInv, approve, State, Ledgers, StatusIsCoherent, RequesterTyped, Live, Terminal, Stopped
<1>4. Promises' /\ Ledgers' /\ Grows
  BY Zenon, <1>3 DEF IInv, State, approve, Promises, Ledgers, StatusIsCoherent, DepsIn, Grows, Done,
              hostVars, stepVars
<1>5. Execution' /\ Halted'
  BY Zenon, <1>3 DEF IInv, State, approve, Execution, Halted, Dead, CommittedMeansDone, hostVars, stepVars
<1>6. Flight'
  BY Zenon, <1>4, Kept DEF IInv, approve, Flight
<1>. QED
  BY Zenon, <1>1, <1>2, <1>4, <1>5, <1>6 DEF IInv, State

(* The start of the attempt keeps the invariant.                            *)
LEMMA BeginKeeps == ASSUME IInv, prepare_requester_attempt PROVE IInv'
<1>1. Counted'
  BY Zenon, CountedFrame DEF IInv, prepare_requester_attempt
<1>2. RequesterTyped'
  BY Zenon DEF IInv, prepare_requester_attempt, RequesterTyped, Live
<1>3. StepTyped' /\ HostTyped'
  BY Zenon, StepFrame, HostFrame DEF IInv, prepare_requester_attempt
<1>4. Promises' /\ Ledgers' /\ Grows
  BY Zenon DEF IInv, State, prepare_requester_attempt, Promises, Ledgers, StatusIsCoherent, DepsIn,
         Grows, Done, hostVars, stepVars, Stopped
<1>5. Execution' /\ Halted'
  BY Zenon DEF IInv, State, prepare_requester_attempt, Execution, Halted, Dead, CommittedMeansDone,
         hostVars, stepVars, Stopped
<1>6. \A h \in Bound : Msg("review", h, 0, "none") \in Good' /\ Msg("check", h, 0, "none") \in Good'
  <2>1. {"review", "check"} \subseteq Kinds /\ 0 \in 0..StepCount /\ "none" \in Notes
    BY PlanAssumption DEF Kinds, Notes
  <2>2. ASSUME NEW h \in Bound, NEW k \in {"review", "check"} PROVE Msg(k, h, 0, "none") \in Good'
    <3>1. Msg(k, h, 0, "none") \in Msgs /\ Msg(k, h, 0, "none").kind = k
      BY <2>1, MsgType
    <3>. QED
      BY Zenon, <3>1 DEF Good, Fact, Msgs
  <2>. QED
    BY Zenon, <2>2
<1>7. Task("begin", FirstEvents) \subseteq Queue(Good')
  BY <1>6, FirstQueued, TaskQueued, Zenon
<1>8. Flight'
  BY Zenon, <1>4, <1>7, Kept DEF IInv, prepare_requester_attempt, Flight
<1>. QED
  BY Zenon, <1>1, <1>2, <1>3, <1>4, <1>5, <1>8 DEF IInv, State

(* Ending a live attempt of the requester (terminate_requester_attempt)     *)
(* keeps the state part of the invariant.                                   *)
LEMMA Terminated ==
  ASSUME IInv, attempt \in Live, NEW st \in Stopped, terminate_requester_attempt(st),
         UNCHANGED <<readiness, decided, hostVars, stepVars, driving>>
  PROVE  RequesterTyped' /\ State' /\ Grows
<1>. USE DEF IInv, State, terminate_requester_attempt
<1>1. RequesterTyped'
  BY Zenon DEF RequesterTyped, Terminal
<1>2. \A s \in Steps : steps'[s] = "completed" <=> steps[s] = "completed"
  BY Zenon DEF Stopped
<1>3. Promises'
  BY Zenon DEF Promises, hostVars, Stopped, Live
<1>4. Ledgers'
  BY Zenon, <1>2 DEF Ledgers, StatusIsCoherent, DepsIn, hostVars, Stopped, Live
<1>5. Execution'
  BY Zenon DEF Execution, CommittedMeansDone, hostVars, stepVars
<1>6. Halted'
  BY Zenon DEF Halted, Dead, hostVars, stepVars
<1>7. Grows
  BY Zenon DEF Grows, Done, hostVars, stepVars
<1>. QED
  BY Zenon, <1>1, <1>3, <1>4, <1>5, <1>6, <1>7

(* After the attempt has stopped, cancellations for all Hosts are           *)
(* justified.                                                               *)
LEMMA CancelsGood ==
  ASSUME attempt' \in Stopped, NEW n \in Notes PROVE ToAll("cancel", 0, n) \in Seq(Good')
<1>1. "cancel" \in Kinds /\ 0 \in 0..StepCount
  BY PlanAssumption DEF Kinds
<1>2. \A h \in Bound : Fact(Msg("cancel", h, 0, n))'
  BY Zenon DEF Fact, Msg
<1>. QED
  BY Zenon, <1>1, <1>2, ToAllGood

(* A reported step failure keeps the invariant.                             *)
LEMMA FailureKeeps == ASSUME IInv, accept_requester_step_failure PROVE IInv'
<1>1. PICK e \in Inbox("failure") :
        \/ /\ MayTerminate /\ terminate_requester_attempt("failed")
           /\ Heard(e, ToAll("cancel", 0, "external_step_failed")) /\ UNCHANGED unheard
        \/ Ignored(e) /\ UNCHANGED <<attempt, revision, steps, admission>>
  BY Zenon DEF accept_requester_step_failure
<1>2. StepTyped' /\ HostTyped'
  BY Zenon, StepFrame, HostFrame DEF IInv, accept_requester_step_failure
<1>3. Counted'
  BY Zenon, <1>1, IgnoredCounted, CountedFrame DEF IInv, accept_requester_step_failure
<1>4. CASE /\ MayTerminate /\ terminate_requester_attempt("failed")
           /\ Heard(e, ToAll("cancel", 0, "external_step_failed"))
  <2>1. RequesterTyped' /\ State' /\ Grows
    BY Zenon, <1>4, Terminated DEF accept_requester_step_failure, MayTerminate, Stopped
  <2>2. ToAll("cancel", 0, "external_step_failed") \in Seq(Good')
    BY Zenon, <1>4, CancelsGood DEF terminate_requester_attempt, Stopped, Notes
  <2>3. Flight'
    BY Zenon, <1>4, <2>1, <2>2, Kept, HeardQueued DEF IInv, Flight
  <2>. QED
    BY Zenon, <1>2, <1>3, <2>1, <2>3 DEF IInv
<1>5. CASE Ignored(e) /\ UNCHANGED <<attempt, revision, steps, admission>>
  <2>1. RequesterTyped'
    BY Zenon, <1>5, RequesterFrame DEF IInv, accept_requester_step_failure, reqVars
  <2>2. tasks = {} => tasks' = {}
    BY <1>5, Event, Zenon DEF IInv, Ignored
  <2>3. State' /\ Grows
    BY Zenon, <1>5, <2>2, Quiet DEF IInv, accept_requester_step_failure, hostVars, reqVars
  <2>4. Flight'
    BY Zenon, <1>5, <2>3, Kept, IgnoredQueued DEF IInv, Flight
  <2>. QED
    BY Zenon, <1>2, <1>3, <2>1, <2>3, <2>4 DEF IInv
<1>. QED
  BY Zenon, <1>1, <1>4, <1>5

(* The end of a delivery task keeps the invariant.                          *)
LEMMA SpawnKeeps == ASSUME IInv, spawn_native_v2_events PROVE IInv'
<1>1. PICK t \in tasks, code \in {"review_delivery_failed", "coordination_delivery_failed"} :
        \/ /\ MayTerminate /\ terminate_requester_attempt("interrupted")
           /\ tasks' = (tasks \ {t}) \union Task("cancel", ToAll("cancel", 0, code))
           /\ UNCHANGED unheard
        \/ /\ tasks' = tasks \ {t} /\ Unheard(TRUE)
           /\ UNCHANGED <<attempt, revision, steps, admission>>
  BY Zenon DEF spawn_native_v2_events
<1>2. StepTyped' /\ HostTyped'
  BY Zenon, StepFrame, HostFrame DEF IInv, spawn_native_v2_events
<1>3. Counted'
  BY <1>1, UnheardTyped, Zenon DEF IInv, spawn_native_v2_events, Counted, planVars, envVars
<1>4. CASE /\ MayTerminate /\ terminate_requester_attempt("interrupted")
           /\ tasks' = (tasks \ {t}) \union Task("cancel", ToAll("cancel", 0, code))
  <2>1. RequesterTyped' /\ State' /\ Grows
    BY Zenon, <1>4, Terminated DEF spawn_native_v2_events, MayTerminate, Stopped
  <2>2. Task("cancel", ToAll("cancel", 0, code)) \subseteq Queue(Good')
    BY Zenon, <1>4, CancelsGood, TaskQueued DEF terminate_requester_attempt, Stopped, Notes
  <2>3. Flight'
    BY Zenon, <1>4, <2>1, <2>2, Kept DEF IInv, Flight, spawn_native_v2_events
  <2>. QED
    BY Zenon, <1>2, <1>3, <2>1, <2>3 DEF IInv
<1>5. CASE tasks' = tasks \ {t} /\ UNCHANGED <<attempt, revision, steps, admission>>
  <2>1. RequesterTyped'
    BY Zenon, <1>5, RequesterFrame DEF IInv, spawn_native_v2_events, reqVars
  <2>2. State' /\ Grows
    BY Zenon, <1>5, Quiet DEF IInv, spawn_native_v2_events, hostVars, reqVars
  <2>3. Flight'
    BY Zenon, <1>5, <2>2, Kept DEF IInv, Flight, spawn_native_v2_events
  <2>. QED
    BY Zenon, <1>2, <1>3, <2>1, <2>2, <2>3 DEF IInv
<1>. QED
  BY <1>1, <1>4, <1>5, Zenon

(* The user's cancellation keeps the invariant.                             *)
LEMMA UserCancelKeeps == ASSUME IInv, cancel_native_v2_product_attempt PROVE IInv'
<1>1. Counted' /\ StepTyped' /\ HostTyped'
  BY Zenon, CountedFrame, StepFrame, HostFrame DEF IInv, cancel_native_v2_product_attempt
<1>2. RequesterTyped' /\ State' /\ Grows
  BY Zenon, Terminated DEF cancel_native_v2_product_attempt, MayTerminate, Stopped
<1>3. Task("cancel", ToAll("cancel", 0, "user_cancelled")) \subseteq Queue(Good')
  BY Zenon, CancelsGood, TaskQueued
     DEF cancel_native_v2_product_attempt, terminate_requester_attempt, Stopped, Notes
<1>4. Flight'
  BY Zenon, <1>2, <1>3, Kept DEF IInv, Flight, cancel_native_v2_product_attempt
<1>. QED
  BY Zenon, <1>1, <1>2, <1>4 DEF IInv
(* An event the requester does not apply leaves its rows as they are.       *)
LEMMA IgnoredKeeps ==
  ASSUME IInv, NEW k, NEW e \in Inbox(k), Ignored(e),
         UNCHANGED <<planVars, reqVars, hostVars, stepVars, driving, envVars>>
  PROVE  IInv'
<1>1. Counted' /\ RequesterTyped' /\ StepTyped' /\ HostTyped'
  BY Zenon, IgnoredCounted, RequesterFrame, StepFrame, HostFrame DEF IInv
<1>2. tasks = {} => tasks' = {}
  BY Event, Zenon DEF IInv, Ignored
<1>3. State' /\ Grows
  BY Zenon, <1>2, Quiet DEF IInv, hostVars
<1>4. Flight'
  BY Zenon, <1>3, Kept, IgnoredQueued DEF IInv, Flight
<1>. QED
  BY Zenon, <1>1, <1>3, <1>4 DEF IInv

(* A readiness answer keeps the invariant.                                  *)
LEMMA ReadinessKeeps == ASSUME IInv, accept_requester_readiness PROVE IInv'
<1>1. PICK e \in Inbox("readiness") :
        \/ /\ attempt = "checking_readiness" /\ UNCHANGED unheard
           /\ \/ /\ attempt' = "failed" /\ revision' = "failed" /\ Heard(e, <<>>)
                 /\ readiness' = [readiness EXCEPT ![e[2].host] = "unavailable"]
              \/ /\ UNCHANGED <<attempt, revision>> /\ Heard(e, <<>>)
                 /\ readiness' = [readiness EXCEPT ![e[2].host] = "ready"]
              \/ /\ attempt' = "preparing" /\ revision' = "preparing"
                 /\ Heard(e, ToAll("start", 0, "none"))
                 /\ readiness' = [readiness EXCEPT ![e[2].host] = "ready"]
        \/ Ignored(e) /\ UNCHANGED <<readiness, attempt, revision>>
  BY Zenon DEF accept_requester_readiness, AcceptsReadiness
<1>2. CASE Ignored(e) /\ UNCHANGED <<readiness, attempt, revision>>
  BY Zenon, <1>2, IgnoredKeeps DEF accept_requester_readiness, reqVars
<1>3. CASE ~(Ignored(e) /\ UNCHANGED <<readiness, attempt, revision>>)
  <2>1. /\ attempt = "checking_readiness" /\ UNCHANGED unheard
        /\ attempt' \in {"checking_readiness", "failed", "preparing"}
        /\ (revision' = attempt' \/ UNCHANGED <<attempt, revision>>)
        /\ readiness' \in [Bound -> {"pending", "ready", "unavailable"}]
    BY Zenon, <1>1, <1>3 DEF IInv, RequesterTyped
  <2>2. Counted' /\ StepTyped' /\ HostTyped'
    BY Zenon, <2>1, CountedFrame, StepFrame, HostFrame DEF IInv, accept_requester_readiness
  <2>3. RequesterTyped'
    BY Zenon, <2>1 DEF IInv, accept_requester_readiness, RequesterTyped, Live, Terminal, Stopped
  <2>4. Promises' /\ Ledgers' /\ Grows
    BY Zenon, <2>1 DEF IInv, State, accept_requester_readiness, Promises, Ledgers, StatusIsCoherent,
                DepsIn, Grows, Done, hostVars, stepVars, Stopped
  <2>5. Execution' /\ Halted'
    BY <2>1 DEF IInv, State, accept_requester_readiness, Execution, Halted, Dead,
                CommittedMeansDone, hostVars, stepVars, Stopped
  <2>6. PICK items \in {<<>>, ToAll("start", 0, "none")} : Heard(e, items)
    BY Zenon, <1>1, <1>3
  <2>7. items \in Seq(Good')
    <3>1. <<>> \in Seq(Good')
      OBVIOUS
    <3>2. "start" \in Kinds /\ 0 \in 0..StepCount /\ "none" \in Notes
      BY PlanAssumption DEF Kinds, Notes
    <3>3. \A h \in Bound : Fact(Msg("start", h, 0, "none"))'
      BY Zenon DEF Fact, Msg
    <3>. QED
      BY <3>1, <3>2, <3>3, ToAllGood, Zenon
  <2>8. Flight'
    BY Zenon, <2>4, <2>6, <2>7, Kept, HeardQueued DEF IInv, Flight
  <2>. QED
    BY Zenon, <2>2, <2>3, <2>4, <2>5, <2>8 DEF IInv, State
<1>. QED
  BY Zenon, <1>2, <1>3

(* project_eligible moves no step into or out of completed.                 *)
LEMMA Projected ==
  ASSUME NEW st \in [Steps -> {"pending", "eligible"} \union Terminal]
  PROVE  /\ project_eligible(st) \in [Steps -> {"pending", "eligible"} \union Terminal]
         /\ \A s \in Steps : project_eligible(st)[s] = "completed" <=> st[s] = "completed"
  BY Zenon DEF project_eligible

(* A prepared answer keeps the invariant.                                   *)
LEMMA PreparedKeeps == ASSUME IInv, accept_requester_prepared PROVE IInv'
<1>1. PICK e \in Inbox("prepared") :
        \/ /\ attempt = "preparing" /\ UNCHANGED unheard
           /\ \/ /\ UNCHANGED <<attempt, revision, steps, decided>> /\ Heard(e, <<>>)
                 /\ admission' = [admission EXCEPT ![e[2].host] = "prepared"]
              \/ /\ LastPrepared(e[2].host)
                 /\ attempt' = "running" /\ revision' = "running" /\ decided' = TRUE
                 /\ steps' = project_eligible(steps)
                 /\ Heard(e, ToAll("commit", 0, "none"))
                 /\ admission' = [h \in Bound |-> "committed"]
        \/ Ignored(e) /\ UNCHANGED <<admission, attempt, revision, steps, decided>>
  BY Zenon DEF accept_requester_prepared, AcceptsPrepared
<1>2. e[2].host \in Bound /\ recv[e[2].host] # "none"
  BY Zenon, Event DEF IInv, Fact
<1>3. CASE Ignored(e) /\ UNCHANGED <<admission, attempt, revision, steps, decided>>
  BY Zenon, <1>3, IgnoredKeeps DEF accept_requester_prepared, reqVars
<1>4. CASE /\ attempt = "preparing" /\ UNCHANGED unheard
           /\ UNCHANGED <<attempt, revision, steps, decided>> /\ Heard(e, <<>>)
           /\ admission' = [admission EXCEPT ![e[2].host] = "prepared"]
  <2>1. Counted' /\ StepTyped' /\ HostTyped'
    BY Zenon, <1>4, CountedFrame, StepFrame, HostFrame DEF IInv, accept_requester_prepared
  <2>2. RequesterTyped'
    BY <1>4, Zenon DEF IInv, accept_requester_prepared, RequesterTyped
  <2>3. Promises' /\ Ledgers' /\ Grows
    BY Zenon, <1>2, <1>4 DEF IInv, State, accept_requester_prepared, Promises, Ledgers,
                StatusIsCoherent, DepsIn, Grows, Done, hostVars, stepVars, RequesterTyped
  <2>4. Execution' /\ Halted'
    BY Zenon, <1>4 DEF IInv, State, accept_requester_prepared, Execution, Halted, Dead,
                CommittedMeansDone, hostVars, stepVars
  <2>5. <<>> \in Seq(Good')
    OBVIOUS
  <2>6. Flight'
    BY <1>4, <2>3, <2>5, Kept, HeardQueued, Zenon DEF IInv, Flight
  <2>. QED
    BY Zenon, <2>1, <2>2, <2>3, <2>4, <2>6 DEF IInv, State
<1>5. CASE /\ attempt = "preparing" /\ UNCHANGED unheard /\ LastPrepared(e[2].host)
           /\ attempt' = "running" /\ revision' = "running" /\ decided' = TRUE
           /\ steps' = project_eligible(steps) /\ Heard(e, ToAll("commit", 0, "none"))
           /\ admission' = [h \in Bound |-> "committed"]
  <2>1. Counted' /\ StepTyped' /\ HostTyped'
    BY Zenon, <1>5, CountedFrame, StepFrame, HostFrame DEF IInv, accept_requester_prepared
  <2>2. RequesterTyped'
    BY Zenon, <1>5, Projected DEF IInv, accept_requester_prepared, RequesterTyped, Live
  <2>3. \A h \in Bound : recv[h] # "none"
    BY Zenon, <1>2, <1>5 DEF IInv, State, Promises, LastPrepared
  <2>4. Promises' /\ Grows
    BY Zenon, <1>5, <2>3 DEF IInv, State, accept_requester_prepared, Promises, Grows, Done, hostVars,
                      stepVars, Stopped
  <2>5. Ledgers'
    BY Zenon, <1>5, Projected DEF IInv, State, accept_requester_prepared, Ledgers, StatusIsCoherent,
                      DepsIn, hostVars, RequesterTyped
  <2>6. Execution' /\ Halted'
    BY Zenon, <1>5 DEF IInv, State, accept_requester_prepared, Execution, Halted, Dead,
                CommittedMeansDone, hostVars, stepVars, Stopped
  <2>7. ToAll("commit", 0, "none") \in Seq(Good')
    <3>1. "commit" \in Kinds /\ 0 \in 0..StepCount /\ "none" \in Notes
      BY PlanAssumption DEF Kinds, Notes
    <3>2. \A h \in Bound : Fact(Msg("commit", h, 0, "none"))'
      BY Zenon, <1>5 DEF Fact, Msg
    <3>. QED
      BY Zenon, <3>1, <3>2, ToAllGood
  <2>8. Flight'
    BY Zenon, <1>5, <2>4, <2>7, Kept, HeardQueued DEF IInv, Flight
  <2>. QED
    BY Zenon, <2>1, <2>2, <2>4, <2>5, <2>6, <2>8 DEF IInv, State
<1>. QED
  BY <1>1, <1>3, <1>4, <1>5, Zenon
=============================================================================
