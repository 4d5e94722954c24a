--------------------------- MODULE TransferPlanner ---------------------------
(***************************************************************************)
(* The size-weighted transfer planner (src/lib/transferPlanner.ts) as pure *)
(* operators. A task is a queue item: its number gives its age. Sizes are  *)
(* in units of 256 KiB. A candidate is what gets a window: one file, or a  *)
(* micro-group of small files that are sent one after the other.           *)
(***************************************************************************)
EXTENDS Integers, Sequences, FiniteSets, FiniteSetsExt, SequencesExt

CONSTANTS
    Items,              \* queue items, numbered by age
    Size,               \* [Items -> Nat]: size in units of 256 KiB
    Room,               \* [Items -> Rooms]
    GlobalWindowBudget, \* windows shared by all transfers
    ActiveTransferCap,  \* transfers that may be active at once
    GroupMode           \* "dynamic" or "fixed" micro-groups

ASSUME PlannerAssumption ==
    /\ Items \subseteq Nat \ {0}
    /\ Size \in [Items -> Nat]
    /\ GlobalWindowBudget \in Nat \ {0}
    /\ ActiveTransferCap \in Nat \ {0}
    /\ GroupMode \in {"dynamic", "fixed"}

MinWindow == 1

MiB == 4

Smaller(a, b) == IF a <= b THEN a ELSE b

Larger(a, b) == IF a >= b THEN a ELSE b

ClampBytes(value, low, high) == Smaller(high, Larger(low, value))

SizeClass(size) ==
    CASE size <= 1       -> "tiny"
      [] size <= 8 * MiB   -> "small"
      [] size <= 64 * MiB  -> "medium"
      [] OTHER             -> "bulk"

-----------------------------------------------------------------------------
(* Candidates and their order.                                             *)

AsCandidate(i) == [tasks |-> {i}, size |-> Size[i], isGroup |-> FALSE]

Age(c) == Min(c.tasks)

AllocationWeight(c) == Larger(1, c.size)

\* Heavier first, then older; of two equally old ones a file goes first.
AllocationOrder(a, b) ==
    \/ AllocationWeight(a) > AllocationWeight(b)
    \/ AllocationWeight(a) = AllocationWeight(b) /\ Age(a) < Age(b)

SortAllocation(candidates) == SetToSortSeq(candidates, AllocationOrder)

LatencySensitive(i) == SizeClass(Size[i]) \in {"tiny", "small"}

\* Small files before the others, then older first.
ActiveOrder(a, b) ==
    \/ LatencySensitive(a) /\ ~LatencySensitive(b)
    \/ LatencySensitive(a) = LatencySensitive(b) /\ a < b

MaxWindowOf(c) == IF c.isGroup THEN MinWindow ELSE GlobalWindowBudget

-----------------------------------------------------------------------------
(* Micro-groups.                                                           *)

Overhead == IF GroupMode = "dynamic" THEN 1 ELSE 0

Cost(i) == Size[i] + Overhead

Contention(candidates) ==
    \/ Cardinality(candidates) > ActiveTransferCap
    \/ /\ Cardinality(candidates) > 1
       /\ \E i \in candidates : SizeClass(Size[i]) = "bulk"

\* The largest child and group that the live policy allows.
GroupCaps(candidates) ==
    LET quantum == ClampBytes(Max({Size[i] : i \in candidates} \union {0})
                                  \div GlobalWindowBudget, 4 * MiB, 16 * MiB)
    IN  IF GroupMode = "fixed" THEN [child |-> MiB, group |-> 4 * MiB]
        ELSE IF Contention(candidates)
        THEN [child |-> ClampBytes(quantum, MiB, 4 * MiB),
              group |-> ClampBytes(quantum, 4 * MiB, 16 * MiB)]
        ELSE [child |-> 0, group |-> 0]

MaxGroupItems == 32

\* The entries of one bucket, packed in order into groups within the caps.
Pack(entries, cap) ==
    LET add(acc, i) ==
            IF \/ Cardinality(acc.open) >= MaxGroupItems
               \/ acc.open # {} /\ acc.bytes + Cost(i) > cap
            THEN [done |-> acc.done \union {acc.open},
                  open |-> {i}, bytes |-> Cost(i)]
            ELSE [acc EXCEPT !.open = @ \union {i}, !.bytes = @ + Cost(i)]
        packed == FoldLeft(add, [done |-> {}, open |-> {}, bytes |-> 0], entries)
    IN  {g \in packed.done \union {packed.open} : Cardinality(g) >= 2}

AsGroup(tasks) ==
    [tasks |-> tasks, isGroup |-> TRUE,
     size |-> FoldSet(LAMBDA i, sum : Cost(i) + sum, 0, tasks)]

\* The groups the queued items form beside the active ones.
MicroFlowGroups(queued, active) ==
    LET caps == GroupCaps(queued \union active)
        eligible == {i \in queued : /\ Cost(i) <= caps.child
                                    /\ LatencySensitive(i)}
        bucket(i) == {j \in eligible : /\ Room[j] = Room[i]
                                       /\ SizeClass(Size[j]) = SizeClass(Size[i])}
        packingOrder(a, b) ==
            IF GroupMode = "fixed"
            THEN AllocationOrder(AsCandidate(a), AsCandidate(b))
            ELSE Size[a] < Size[b] \/ (Size[a] = Size[b] /\ a < b)
        groups == UNION {Pack(SetToSortSeq(bucket(i), packingOrder), caps.group) :
                            i \in eligible}
        better(g, h) ==
            \/ Cardinality(g) > Cardinality(h)
            \/ /\ Cardinality(g) = Cardinality(h)
               /\ \/ AsGroup(g).size > AsGroup(h).size
                  \/ AsGroup(g).size = AsGroup(h).size /\ Min(g) < Min(h)
    IN  IF GroupMode = "fixed" \/ groups = {} THEN groups
        ELSE {CHOOSE g \in groups : \A h \in groups \ {g} : better(g, h)}

-----------------------------------------------------------------------------
(* Windows.                                                                *)

SelectRunnable(candidates, slots, budget) ==
    LET count == Smaller(Cardinality(candidates),
                         Smaller(Larger(0, slots), Larger(0, budget) \div MinWindow))
    IN  SubSeq(SortAllocation(candidates), 1, count)

WindowSum(windows) == FoldLeft(LAMBDA sum, w : sum + w, 0, windows)

\* One window each, the rest by weight, what rounding leaves to the largest
\* remainders.
DistributeWeightedWindows(candidates, budget) ==
    LET n         == Smaller(Len(candidates), budget \div MinWindow)
        remaining == budget - n * MinWindow
        weight(k) == AllocationWeight(candidates[k])
        total     == WindowSum([k \in 1..n |-> weight(k)])
        room(k)   == MaxWindowOf(candidates[k]) - MinWindow
        base      == [k \in 1..n |->
                        MinWindow + Smaller(room(k), (remaining * weight(k)) \div total)]
        rest      == [k \in 1..n |->
                        IF room(k) = 0 THEN 0 ELSE (remaining * weight(k)) % total]
        giveOne(acc, turn) ==
            LET open == {k \in 1..n : acc.windows[k] < MaxWindowOf(candidates[k])}
                before(j, k) ==
                    \/ acc.rest[j] > acc.rest[k]
                    \/ /\ acc.rest[j] = acc.rest[k]
                       /\ \/ weight(j) > weight(k)
                          \/ weight(j) = weight(k) /\ j < k
                best == CHOOSE j \in open : \A k \in open \ {j} : before(j, k)
            IN  IF open = {} THEN acc
                ELSE [windows |-> [acc.windows EXCEPT ![best] = @ + 1],
                      rest    |-> [acc.rest EXCEPT ![best] = 0]]
    IN  IF n = 0 THEN <<>>
        ELSE FoldLeft(giveOne, [windows |-> base, rest |-> rest],
                      [k \in 1..(budget - WindowSum(base)) |-> k]).windows

Allocated(candidates, budget) ==
    LET windows == DistributeWeightedWindows(candidates, budget)
    IN  {[candidate |-> candidates[k], window |-> windows[k]] : k \in DOMAIN windows}

\* What may be launched: files outside the groups, and the groups.
Launchable(queued, active) ==
    LET groups == MicroFlowGroups(queued, active)
    IN  {AsCandidate(i) : i \in queued \ UNION groups} \union {AsGroup(g) : g \in groups}

mutant_reservation_not_deducted(active, window) ==
    [left |-> GlobalWindowBudget,
     held |-> {<<i, Larger(MinWindow, window[i])>> : i \in active}]

\* The windows active items keep: each reserves its own while there are any.
ActiveReservations(active, window) ==
    LET reserve(acc, i) ==
            LET w == Smaller(Smaller(GlobalWindowBudget, Larger(MinWindow, window[i])),
                             acc.left)
            IN  IF w < MinWindow THEN acc
                ELSE [left |-> acc.left - w, held |-> acc.held \union {<<i, w>>}]
    IN  FoldLeft(reserve, [left |-> GlobalWindowBudget, held |-> {}],
                 SetToSortSeq(active, ActiveOrder))

\* What is launched beside active items that keep their windows.
PlanLaunches(queued, active, window) ==
    LET reserved == ActiveReservations(active, window)
        slots    == ActiveTransferCap - Cardinality(reserved.held)
    IN  Allocated(SelectRunnable(Launchable(queued, active), slots, reserved.left),
                  reserved.left)

\* The windows of everything when active windows are distributed anew.
PlanRebalance(queued, active) ==
    LET sorted   == SortAllocation({AsCandidate(i) : i \in active})
        planned  == SubSeq(sorted, 1, Smaller(Len(sorted), GlobalWindowBudget \div MinWindow))
        slots    == ActiveTransferCap - Len(planned)
        chosen   == SelectRunnable(Launchable(queued, active), slots,
                                   GlobalWindowBudget - Len(planned) * MinWindow)
    IN  Allocated(planned \o chosen, GlobalWindowBudget)
=============================================================================
