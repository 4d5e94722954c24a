----------------------------- MODULE PlanLedger -----------------------------
(***************************************************************************)
(* What a coordinated managed Plan promises, with hosts, messages, tables   *)
(* and failures left out: every Host promises to take part, the requester   *)
(* decides once, a step starts only after the decision and after its        *)
(* predecessors are recorded, and a step is recorded at most once, by an    *)
(* attempt that has not stopped.  PlanAttempt implements this.              *)
(***************************************************************************)
CONSTANTS Hosts,    \* the Hosts bound by the Plan
          Steps,    \* its authored steps
          Deps      \* Deps[s]: the steps s depends on

VARIABLES phase,    \* "idle", "voting", "running", "completed" or "stopped"
          promised, \* the Hosts that hold a prepared attempt
          decided,  \* the requester has decided to run the Plan
          started,  \* the steps whose one execution was dispatched
          recorded  \* the steps the requester has committed

vars == <<phase, promised, decided, started, recorded>>

Init == /\ phase = "idle" /\ promised = {} /\ decided = FALSE
        /\ started = {} /\ recorded = {}

Begin == /\ phase = "idle" /\ phase' = "voting"
         /\ UNCHANGED <<promised, decided, started, recorded>>

(* A Host may promise after the attempt stopped: the request was under way. *)
Promise(h) == /\ phase # "idle" /\ promised' = promised \union {h}
              /\ UNCHANGED <<phase, decided, started, recorded>>

Decide == /\ phase = "voting" /\ promised = Hosts
          /\ phase' = "running" /\ decided' = TRUE
          /\ UNCHANGED <<promised, started, recorded>>

(* A Host that has not yet heard of the stop may still start a step.        *)
Start(s) == /\ decided /\ s \notin started /\ Deps[s] \subseteq recorded
            /\ started' = started \union {s}
            /\ UNCHANGED <<phase, promised, decided, recorded>>

Record(s) == /\ phase = "running" /\ s \in started \ recorded
             /\ recorded' = recorded \union {s}
             /\ phase' = IF recorded' = Steps THEN "completed" ELSE phase
             /\ UNCHANGED <<promised, decided, started>>

Stop == /\ phase \in {"voting", "running"} /\ phase' = "stopped"
        /\ UNCHANGED <<promised, decided, started, recorded>>

Next == \/ Begin \/ Decide \/ Stop
        \/ \E h \in Hosts : Promise(h)
        \/ \E s \in Steps : Start(s) \/ Record(s)

Spec == Init /\ [][Next]_vars

(* Nothing starts before the decision, the decision needs every promise, a  *)
(* step starts after its predecessors are recorded, only what started is    *)
(* recorded, and the attempt is complete exactly when all steps are.        *)
Safe == /\ started # {} => decided
        /\ decided => promised = Hosts
        /\ \A s \in started : Deps[s] \subseteq recorded
        /\ recorded \subseteq started /\ started \subseteq Steps
        /\ phase = "completed" => recorded = Steps
=============================================================================
