-------------------------- MODULE TransferScheduler --------------------------
(***************************************************************************)
(* The transfer queue of the user interface (src/lib/transferScheduler.ts, *)
(* driven by src/App.tsx) together with the shared capacity admission of   *)
(* Rust (transfer_orchestration.rs).                                       *)
(*                                                                         *)
(* The user interface is one thread. A task of it is one action; the       *)
(* promise continuations a task leaves behind run in order before the next *)
(* task (micro). A change of the scheduler state makes React render, and   *)
(* the effects of that render are one action (Effects). Rust and the peers *)
(* run on their own: a send is requested, admitted or refused, runs, ends, *)
(* and its answer is delivered. A window change is asked for, applied to   *)
(* the lease, and answered.                                                *)
(***************************************************************************)
EXTENDS TransferPlanner

CONSTANTS
    Batches,     \* batches the user enqueues
    BatchOf,     \* [Items -> Batches]
    Path,        \* [Items -> paths with their target]: what enqueue compares
    Unprepared,  \* items enqueued without name, size and date
    Disks,       \* what metadata may say: the identities (with their target) of
                 \* the files, and which are larger than the largest that is sent
    MaxManaged   \* transfers started outside the queue

ASSUME SchedulerAssumption ==
    /\ BatchOf \in [Items -> Batches]
    /\ Unprepared \subseteq Items
    /\ \A d \in Disks : d.oversize \subseteq Items /\ DOMAIN d.identity = Items
    /\ MaxManaged \in Nat

VARIABLES
    disk,        \* the member of Disks that is the case
    item,        \* scheduler.items: status, metadata, window, known transfer
    batch,       \* scheduler.batches: status
    group,       \* scheduler.microGroups: the last group, and its runner
    launching,   \* launchingQueueItemWindowsRef; NotLaunching when absent
    closed,      \* closedRoomIdsRef
    dirty,       \* React has a state to render
    micro,       \* continuations that run before the next task
    pc,          \* where processTransferQueueItem of an item is
    rebalance,   \* rebalances waiting in runtimeWindowRebalanceChainRef
    resize,      \* window changes: n asked for, -n answered, 0 none
    leases,      \* TransferCapacityCoordinator.reservations; 0 when absent
    managed      \* how many managed transfers were started

ui == <<item, batch, group, launching, closed, dirty, micro, rebalance>>

vars == <<disk, item, batch, group, launching, closed, dirty, micro, pc, rebalance,
          resize, leases, managed>>

Rooms == {Room[i] : i \in Items}

NotLaunching == -1

\* The holder of the lease of a managed transfer.
Managed == 0

Holders == Items \union {Managed}

Terminal == {"completed", "failed", "cancelled"}

TerminalGroup == {"completed", "completed_with_errors", "cancelled", "interrupted"}

NoGroup == [children |-> <<>>, at |-> 0, status |-> "none", running |-> FALSE,
            ended |-> [i \in Items |-> "none"]]

Init ==
    /\ disk \in Disks
    /\ item = [i \in Items |->
                [status |-> "none", window |-> 0, correlated |-> FALSE,
                 metadata |-> IF i \in Unprepared THEN "unknown" ELSE "ready"]]
    /\ batch = [b \in Batches |-> "none"]
    /\ group = NoGroup
    /\ launching = [i \in Items |-> NotLaunching]
    /\ closed = {}
    /\ dirty = FALSE
    /\ micro = <<>>
    /\ pc = [i \in Items |-> "idle"]
    /\ rebalance = 0
    /\ resize = [i \in Items |-> 0]
    /\ leases = [h \in Holders |-> 0]
    /\ managed = 0

-----------------------------------------------------------------------------
(* Scheduler state.                                                        *)

isTerminal(i) == item[i].status \in Terminal

Nonterminal == {i \in Items : item[i].status \notin Terminal \union {"none"}}

\* updateBatchStatus: the status of b when its items are as in "items".
BatchStatus(b, items) ==
    LET statuses == {items[i].status : i \in {j \in Items : BatchOf[j] = b}}
    IN  IF batch[b] = "cancelled" THEN "cancelled"
        ELSE IF statuses \intersect {"queued", "preparing", "sending"} # {} THEN "running"
        ELSE IF "failed" \in statuses THEN "completed_with_errors"
        ELSE "completed"

\* replaceItem with the batch of the item updated, and a render to come.
ReplaceItem(i, record) ==
    LET items == [item EXCEPT ![i] = record]
    IN  /\ item' = items
        /\ batch' = [batch EXCEPT ![BatchOf[i]] = BatchStatus(BatchOf[i], items)]
        /\ dirty' = TRUE

\* updateItemStatus: a terminal item keeps its status.
UpdateItemStatus(i, status) ==
    ReplaceItem(i, IF isTerminal(i) THEN item[i] ELSE [item[i] EXCEPT !.status = status])

\* enqueueTransferBatch: items whose path is in the queue already are left out.
Accepted(b) ==
    {i \in Items : /\ BatchOf[i] = b
                   /\ \A j \in Items \ {i} : Path[j] = Path[i] =>
                        /\ j \notin Nonterminal
                        /\ BatchOf[j] = b => i < j}

enqueueTransferBatch(b) ==
    /\ micro = <<>>
    /\ batch[b] = "none"
    /\ Accepted(b) # {}
    /\ \A i \in Accepted(b) : Room[i] \notin closed
    /\ item' = [i \in Items |-> IF i \in Accepted(b)
                                THEN [item[i] EXCEPT !.status = "queued"] ELSE item[i]]
    /\ batch' = [batch EXCEPT ![b] = "running"]
    /\ dirty' = TRUE
    /\ UNCHANGED <<disk, group, launching, closed, micro, pc, rebalance, resize, leases, managed>>

mutant_counts_ended_copies(i) ==
    \E j \in Items \ {i} : /\ item[j].status # "none"
                           /\ item[j].metadata = "ready"
                           /\ disk.identity[j] = disk.identity[i]

\* hasNonterminalDedupeKey: the identity of an item is known with its metadata.
HasNonterminalDuplicate(i) ==
    \E j \in Nonterminal \ {i} :
        item[j].metadata = "ready" /\ disk.identity[j] = disk.identity[i]

-----------------------------------------------------------------------------
(* Micro-groups.                                                           *)

\* The first child at or after k that is still queued; 0 when there is none.
NextQueuedChild(g, k, items) ==
    LET left == {j \in k..Len(g.children) : items[g.children[j]].status = "queued"}
    IN  IF left = {} THEN 0 ELSE Min(left)

mutant_last_child_unrecorded(g, k, items) ==
    [g EXCEPT !.ended = [i \in Items |->
        IF (\E j \in 1..(k - 2) : g.children[j] = i) /\ items[i].status \in Terminal
        THEN items[i].status ELSE @[i]]]

\* recordMicroFlowGroupChildTerminal for the children before index k.
RecordEnded(g, k, items) ==
    [g EXCEPT !.ended = [i \in Items |->
        IF (\E j \in 1..(k - 1) : g.children[j] = i) /\ items[i].status \in Terminal
        THEN items[i].status ELSE @[i]]]

\* completeMicroFlowGroupFromChildren, unless the group ended before.
CompleteFromChildren(g) ==
    LET endings == {g.ended[g.children[j]] : j \in DOMAIN g.children}
    IN  IF g.status \in TerminalGroup THEN g
        ELSE [g EXCEPT !.status = CASE endings = {"completed"} -> "completed"
                                    [] endings = {"cancelled"} -> "cancelled"
                                    [] OTHER -> "completed_with_errors"]

\* processMicroFlowGroup from child k on: start the next queued child, or end.
\* The group is stopped when it ended, its room was closed or its batch was.
GroupStep(g, k, items) ==
    LET next  == NextQueuedChild(g, k, items)
        child == g.children[next]
        upto  == IF next = 0 THEN Len(g.children) + 1 ELSE next
        seen  == RecordEnded(g, upto, items)
    IN  IF g.status \in TerminalGroup THEN [group |-> g, child |-> 0]
        ELSE IF next = 0 THEN [group |-> CompleteFromChildren(seen), child |-> 0]
        ELSE IF Room[child] \in closed
             THEN [group |-> [seen EXCEPT !.status = "interrupted"], child |-> 0]
        ELSE IF batch[BatchOf[child]] # "running"
             THEN [group |-> [seen EXCEPT !.status = "cancelled"], child |-> 0]
        ELSE [group |-> [seen EXCEPT !.status = "running", !.at = next], child |-> child]

-----------------------------------------------------------------------------
(* Effects of a render.                                                    *)

InOpenRoom(i) == Room[i] \notin closed

\* Items the planner may launch; children of a started group are left out.
QueuedCandidates ==
    {i \in Items : /\ item[i].status = "queued"
                   /\ item[i].metadata = "ready"
                   /\ launching[i] = NotLaunching
                   /\ batch[BatchOf[i]] = "running"
                   /\ InOpenRoom(i)}

ActiveCandidates ==
    {i \in Items : item[i].status \in {"preparing", "sending"} /\ InOpenRoom(i)}

Windows == [i \in Items |-> item[i].window]

planRunnableTransferLaunches ==
    PlanLaunches(QueuedCandidates, ActiveCandidates, Windows)

queuedItemsNeedingMetadata ==
    {i \in Items : /\ item[i].status = "queued"
                   /\ item[i].metadata = "unknown"
                   /\ batch[BatchOf[i]] = "running"
                   /\ InOpenRoom(i)}

\* The plans of files, in the order in which they are launched.
FilePlans(plans) ==
    SetToSortSeq({p \in plans : ~p.candidate.isGroup},
                 LAMBDA p, q : AllocationOrder(p.candidate, q.candidate))

\* The group that is started: the first one, when no group is running.
GroupPlans(plans) ==
    {p \in plans : /\ p.candidate.isGroup
                   /\ ~group.running
                   /\ \A q \in plans : q.candidate.isGroup =>
                        Age(p.candidate) <= Age(q.candidate)}

ItemOf(plan) == Min(plan.candidate.tasks)

\* The metadata, launch and clean-up effects. A launch marks its item Preparing
\* and leaves a continuation; a group starts with its oldest child.
Launch(files, groups, loading) ==
    LET launched == {ItemOf(files[k]) : k \in DOMAIN files}
        window(i) == files[CHOOSE k \in DOMAIN files : ItemOf(files[k]) = i].window
        children == UNION {p.candidate.tasks : p \in groups}
        first    == {ItemOf(p) : p \in groups}
    IN  /\ item' = [i \in Items |->
              IF i \in launched
              THEN [item[i] EXCEPT !.status = "preparing", !.window = window(i)]
              ELSE IF i \in first
              THEN [item[i] EXCEPT !.status = "preparing", !.window = MinWindow]
              ELSE IF i \in loading THEN [item[i] EXCEPT !.metadata = "loading"]
              ELSE item[i]]
        /\ launching' = [i \in Items |->
              IF i \in launched THEN window(i)
              ELSE IF i \in children THEN 0
              ELSE IF isTerminal(i) THEN NotLaunching
              ELSE launching[i]]
        /\ group' = IF groups = {} THEN group
                    ELSE [NoGroup EXCEPT !.children = SetToSortSeq(children, <),
                                         !.at = 1, !.status = "running", !.running = TRUE]
        /\ micro' = [k \in DOMAIN files |-> ItemOf(files[k])] \o SetToSeq(first)
        /\ dirty' = (launched \union first \union loading # {})

Effects ==
    /\ dirty
    /\ micro = <<>>
    /\ \E plans \in {planRunnableTransferLaunches} :
        Launch(FilePlans(plans), GroupPlans(plans), queuedItemsNeedingMetadata)
    /\ UNCHANGED <<disk, batch, closed, pc, rebalance, resize, leases, managed>>

\* prepareQueueItemMetadata, answered by Rust while the item is not terminal.
MetadataReady(i) ==
    /\ micro = <<>>
    /\ item[i].metadata = "loading"
    /\ ~isTerminal(i)
    /\ ReplaceItem(i, [item[i] EXCEPT !.metadata = "ready"])
    /\ UNCHANGED <<disk, group, launching, closed, micro, pc, rebalance, resize, leases, managed>>

MetadataFailed(i) ==
    /\ micro = <<>>
    /\ item[i].metadata = "loading"
    /\ ~isTerminal(i)
    /\ ReplaceItem(i, [item[i] EXCEPT !.status = "failed", !.metadata = "failed"])
    /\ UNCHANGED <<disk, group, launching, closed, micro, pc, rebalance, resize, leases, managed>>

-----------------------------------------------------------------------------
(* processTransferQueueItem.                                               *)

\* The continuation of a launch: refused when too large, dropped when another
\* copy is in the queue, otherwise sent.
Continue(i, refused, duplicate) ==
    LET status == CASE refused   -> "failed"
                    [] duplicate -> "cancelled"
                    [] OTHER     -> "sending"
    IN  /\ UpdateItemStatus(i, status)
        /\ pc' = [pc EXCEPT ![i] = IF status = "sending" THEN "requested" ELSE "ending"]

Continuation ==
    /\ micro # <<>>
    /\ micro' = Tail(micro)
    /\ Continue(Head(micro), Head(micro) \in disk.oversize, HasNonterminalDuplicate(Head(micro)))
    /\ UNCHANGED <<disk, group, launching, closed, rebalance, resize, leases, managed>>

Used == FoldSet(LAMBDA h, sum : leases[h] + sum, 0, Holders)

Available == Larger(0, GlobalWindowBudget - Used)

\* TransferCapacityCoordinator::admit.
MayAdmit(h) ==
    /\ leases[h] = 0
    /\ Cardinality({g \in Holders : leases[g] > 0}) < ActiveTransferCap
    /\ Available > 0

mutant_window_as_asked(requested) == Smaller(GlobalWindowBudget, Larger(1, requested))

EffectiveWindow(requested) ==
    Smaller(Smaller(GlobalWindowBudget, Larger(1, requested)), Available)

Admit(i) ==
    /\ pc[i] = "requested"
    /\ MayAdmit(i)
    /\ leases' = [leases EXCEPT ![i] = EffectiveWindow(item[i].window)]
    /\ pc' = [pc EXCEPT ![i] = "transferring"]
    /\ UNCHANGED <<disk, ui, resize, managed>>

Refuse(i) ==
    /\ pc[i] = "requested"
    /\ ~MayAdmit(i)
    /\ pc' = [pc EXCEPT ![i] = "refused"]
    /\ UNCHANGED <<disk, ui, resize, leases, managed>>

\* The transfer ends, well or not, and its lease is dropped.
TransferEnds(i, outcome) ==
    /\ pc[i] = "transferring"
    /\ leases' = [leases EXCEPT ![i] = 0]
    /\ pc' = [pc EXCEPT ![i] = outcome]
    /\ UNCHANGED <<disk, ui, resize, managed>>

\* correlateTransferProgress.
Progress(i) ==
    /\ micro = <<>>
    /\ pc[i] = "transferring"
    /\ item[i].status = "sending"
    /\ ~item[i].correlated
    /\ InOpenRoom(i)
    /\ ReplaceItem(i, [item[i] EXCEPT !.correlated = TRUE])
    /\ UNCHANGED <<disk, group, launching, closed, micro, pc, rebalance, resize, leases, managed>>

\* The answer of send_file_to_room; a rebalance follows.
Answer(i) ==
    /\ micro = <<>>
    /\ pc[i] \in {"sent", "broken", "refused"}
    /\ UpdateItemStatus(i, IF pc[i] = "sent" THEN "completed" ELSE "failed")
    /\ pc' = [pc EXCEPT ![i] = "ending"]
    /\ rebalance' = rebalance + 1
    /\ UNCHANGED <<disk, group, launching, closed, micro, resize, leases, managed>>

\* After the refresh: a file leaves the launching map, a child hands over.
FinishFile(i) ==
    /\ micro = <<>>
    /\ pc[i] = "ending"
    /\ ~(group.running /\ group.children[group.at] = i)
    /\ pc' = [pc EXCEPT ![i] = "idle"]
    /\ launching' = [launching EXCEPT ![i] = NotLaunching]
    /\ dirty' = TRUE
    /\ UNCHANGED <<disk, item, batch, group, closed, micro, rebalance, resize, leases, managed>>

mutant_runner_never_ends(i) ==
    LET step == GroupStep(group, group.at + 1, item)
        over == step.child = 0
    IN  /\ micro = <<>>
        /\ pc[i] = "ending"
        /\ group.running
        /\ group.children[group.at] = i
        /\ pc' = [pc EXCEPT ![i] = "idle"]
        /\ group' = [step.group EXCEPT !.at = group.at + 1]
        /\ item' = IF over THEN item
                   ELSE [item EXCEPT ![step.child].status = "preparing",
                                     ![step.child].window = MinWindow]
        /\ micro' = IF over THEN <<>> ELSE <<step.child>>
        /\ launching' = [j \in Items |->
              IF over /\ \E k \in DOMAIN group.children : group.children[k] = j
              THEN NotLaunching ELSE launching[j]]
        /\ dirty' = TRUE
        /\ UNCHANGED <<disk, batch, closed, rebalance, resize, leases, managed>>

FinishChild(i) ==
    LET step == GroupStep(group, group.at + 1, item)
        over == step.child = 0
    IN  /\ micro = <<>>
        /\ pc[i] = "ending"
        /\ group.running
        /\ group.children[group.at] = i
        /\ pc' = [pc EXCEPT ![i] = "idle"]
        /\ group' = [step.group EXCEPT !.running = ~over]
        /\ item' = IF over THEN item
                   ELSE [item EXCEPT ![step.child].status = "preparing",
                                     ![step.child].window = MinWindow]
        /\ micro' = IF over THEN <<>> ELSE <<step.child>>
        /\ launching' = [j \in Items |->
              IF over /\ \E k \in DOMAIN group.children : group.children[k] = j
              THEN NotLaunching ELSE launching[j]]
        /\ dirty' = TRUE
        /\ UNCHANGED <<disk, batch, closed, rebalance, resize, leases, managed>>

-----------------------------------------------------------------------------
(* Rebalancing of active windows.                                          *)

\* planActiveTransferWindowRebalances: active transfers whose window changes.
planActiveTransferWindowRebalances ==
    {p \in PlanRebalance(QueuedCandidates, ActiveCandidates) :
        LET i == ItemOf(p)
        IN  /\ ~p.candidate.isGroup
            /\ item[i].status = "sending"
            /\ item[i].correlated
            /\ batch[BatchOf[i]] = "running"
            /\ item[i].window # p.window}

\* One rebalance starts when the one before it has all its answers.
Rebalance ==
    /\ micro = <<>>
    /\ rebalance > 0
    /\ \A i \in Items : resize[i] = 0
    /\ rebalance' = rebalance - 1
    /\ \E plans \in {planActiveTransferWindowRebalances} :
        resize' = [i \in Items |->
            IF \E p \in plans : ItemOf(p) = i
            THEN (CHOOSE p \in plans : ItemOf(p) = i).window ELSE 0]
    /\ UNCHANGED <<disk, item, batch, group, launching, closed, dirty, micro, pc, leases, managed>>

\* TransferCapacityCoordinator::resize and update_active_transfer_window. A
\* transfer that ended meanwhile answers "not_active".
Resize(i) ==
    LET free      == Larger(0, GlobalWindowBudget - (Used - leases[i]))
        effective == Smaller(Smaller(GlobalWindowBudget, resize[i]), Larger(1, free))
    IN  /\ resize[i] > 0
        /\ resize' = [resize EXCEPT ![i] = IF leases[i] = 0 THEN 0 ELSE -effective]
        /\ leases' = [leases EXCEPT ![i] = IF @ = 0 THEN 0 ELSE effective]
        /\ UNCHANGED <<disk, ui, pc, managed>>

\* markQueueItemRuntimeWindow with the effective window.
ResizeAnswered(i) ==
    /\ micro = <<>>
    /\ resize[i] < 0
    /\ ReplaceItem(i, IF isTerminal(i) THEN item[i] ELSE [item[i] EXCEPT !.window = -resize[i]])
    /\ resize' = [resize EXCEPT ![i] = 0]
    /\ UNCHANGED <<disk, group, launching, closed, micro, pc, rebalance, leases, managed>>

-----------------------------------------------------------------------------
(* Managed transfers and Burn.                                             *)

\* A managed transfer asks for the default window, the whole budget.
ManagedAdmit ==
    /\ managed < MaxManaged
    /\ MayAdmit(Managed)
    /\ leases' = [leases EXCEPT ![Managed] = EffectiveWindow(GlobalWindowBudget)]
    /\ managed' = managed + 1
    /\ UNCHANGED <<disk, ui, pc, resize>>

ManagedEnds ==
    /\ leases[Managed] > 0
    /\ leases' = [leases EXCEPT ![Managed] = 0]
    /\ UNCHANGED <<disk, ui, pc, resize, managed>>

mutant_burn_keeps_queued(r) ==
    LET burned == {i \in Items : Room[i] = r}
    IN  /\ micro = <<>>
        /\ r \notin closed
        /\ item' = [i \in Items |-> IF i \in burned /\ item[i].status \in {"preparing", "sending"}
                                    THEN [item[i] EXCEPT !.status = "cancelled"] ELSE item[i]]
        /\ closed' = closed \union {r}
        /\ dirty' = TRUE
        /\ UNCHANGED <<disk, batch, group, launching, micro, pc, rebalance, resize, leases, managed>>

\* handleBurnBridge: clearQueuedItemsForRoom, then the room is closed.
Burn(r) ==
    LET burned == {i \in Items : Room[i] = r}
    IN  /\ micro = <<>>
        /\ r \notin closed
        /\ item' = [i \in Items |-> IF i \in burned \intersect Nonterminal
                                    THEN [item[i] EXCEPT !.status = "cancelled"] ELSE item[i]]
        /\ batch' = [b \in Batches |->
              IF batch[b] # "none" /\ \E i \in burned : BatchOf[i] = b
              THEN "cancelled" ELSE batch[b]]
        /\ group' = IF /\ group.status = "running"
                       /\ Room[group.children[1]] = r
                    THEN [group EXCEPT !.status = "interrupted"] ELSE group
        /\ closed' = closed \union {r}
        /\ dirty' = TRUE
        /\ UNCHANGED <<disk, launching, micro, pc, rebalance, resize, leases, managed>>

-----------------------------------------------------------------------------
\* What the user and the peers choose to do.
Environment ==
    \/ \E b \in Batches : enqueueTransferBatch(b)
    \/ ManagedAdmit
    \/ \E r \in Rooms : Burn(r)

System ==
    \/ Effects
    \/ Continuation
    \/ \E i \in Items : MetadataReady(i)
    \/ \E i \in Items : MetadataFailed(i)
    \/ \E i \in Items : Admit(i)
    \/ \E i \in Items : Refuse(i)
    \/ \E i \in Items, outcome \in {"sent", "broken"} : TransferEnds(i, outcome)
    \/ \E i \in Items : Progress(i)
    \/ \E i \in Items : Answer(i)
    \/ \E i \in Items : FinishFile(i)
    \/ \E i \in Items : FinishChild(i)
    \/ Rebalance
    \/ \E i \in Items : Resize(i)
    \/ \E i \in Items : ResizeAnswered(i)
    \/ ManagedEnds

Next == Environment \/ System

Spec == Init /\ [][Next]_vars

\* ENABLED System, written out: evaluating the planner under ENABLED is slow.
Pending ==
    \/ micro # <<>>
    \/ dirty
    \/ rebalance > 0
    \/ leases[Managed] > 0
    \/ \E i \in Items : \/ pc[i] # "idle"
                        \/ resize[i] # 0
                        \/ item[i].metadata = "loading" /\ ~isTerminal(i)

\* The user interface thread runs, Rust answers, and a started transfer ends:
\* none of them is left undone for ever, in whatever order they are done.
Fairness == []<>~Pending \/ []<><<System>>_vars

LiveSpec == Spec /\ Fairness

-----------------------------------------------------------------------------
(* Properties.                                                             *)

\* Every variable has its type.
TypeOK ==
    /\ item \in [Items -> [status : {"none", "queued", "preparing", "sending"} \union Terminal,
                           metadata : {"unknown", "loading", "ready", "failed"},
                           window : 0..GlobalWindowBudget, correlated : BOOLEAN]]
    /\ batch \in [Batches -> {"none", "running", "completed", "completed_with_errors",
                              "cancelled"}]
    /\ group.status \in {"none", "running"} \union TerminalGroup
    /\ group.running => group.at \in DOMAIN group.children
    /\ launching \in [Items -> NotLaunching..GlobalWindowBudget]
    /\ closed \subseteq Rooms
    /\ pc \in [Items -> {"idle", "requested", "transferring", "sent", "broken",
                         "refused", "ending"}]
    /\ resize \in [Items -> -GlobalWindowBudget..GlobalWindowBudget]
    /\ leases \in [Holders -> 0..GlobalWindowBudget]
    /\ rebalance \in 0..Cardinality(Items)

\* However launches, rebalances in flight and managed transfers interleave, the
\* leases of transfer_orchestration.rs fit the window budget and the safety cap,
\* and exactly the running transfers hold one, of at least one window.
CapacityRespected ==
    /\ Used <= GlobalWindowBudget
    /\ Cardinality({h \in Holders : leases[h] > 0}) <= ActiveTransferCap
    /\ \A i \in Items : leases[i] > 0 <=> pc[i] = "transferring"

\* Copies of one file: two are never sent at a time, and of the copies that the
\* check in processTransferQueueItem drops as duplicates one is left over.
DuplicatesResolve ==
    /\ \A i, j \in Items : i # j /\ disk.identity[i] = disk.identity[j] =>
            ~(item[i].status = "sending" /\ item[j].status = "sending")
    /\ \A i \in Items : item[i].status = "cancelled" /\ InOpenRoom(i) =>
            \E j \in Items : /\ disk.identity[j] = disk.identity[i]
                            /\ item[j].status \notin {"none", "cancelled"}

\* planWeightedTransfers: the plan fits the budget and the cap beside what is
\* active, leaves a candidate out only when one of them is used up, and uses
\* the whole budget when it launches a file.
PlanIsSound ==
    LET held  == ActiveReservations(ActiveCandidates, Windows).held
        plans == planRunnableTransferLaunches
        total == FoldSet(LAMBDA h, sum : h[2] + sum, 0, held)
                 + FoldSet(LAMBDA p, sum : p.window + sum, 0, plans)
        count == Cardinality(held) + Cardinality(plans)
        left  == Launchable(QueuedCandidates, ActiveCandidates) \ {p.candidate : p \in plans}
    IN  /\ total <= GlobalWindowBudget
        /\ \A p \in plans : p.window \in MinWindow..MaxWindowOf(p.candidate)
        /\ plans # {} => count <= ActiveTransferCap
        /\ left # {} => count >= ActiveTransferCap \/ total = GlobalWindowBudget
        /\ (\E p \in plans : ~p.candidate.isGroup) => total = GlobalWindowBudget

\* processMicroFlowGroup: a group that ended without Burn has accounted for
\* every child, each with the status the child really has.
GroupAccountsForChildren ==
    group.status \in TerminalGroup \ {"interrupted"} =>
        \A k \in DOMAIN group.children :
            LET i == group.children[k]
            IN  isTerminal(i) /\ group.ended[i] = item[i].status

\* Nothing stays in the queue: an enqueued item is in the end completed, failed
\* or cancelled, whatever is refused, dropped, resized or burned on the way.
QueueDrains ==
    Nonterminal # {} ~> Nonterminal = {}

=============================================================================
