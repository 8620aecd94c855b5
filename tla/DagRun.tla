------------------------------- MODULE DagRun -------------------------------
(***************************************************************************)
(* What a pipeline runner promises, without saying how it does it: of a    *)
(* request for some tasks of a graph it either refuses the request, or it  *)
(* finishes tasks one at a time, each at most once and only after all its  *)
(* predecessors, until every wanted task is finished or one fails.  It     *)
(* starts only when the wanted tasks include their predecessors and their  *)
(* graph has no cycle.  The order in which independent tasks finish is     *)
(* left open.                                                              *)
(***************************************************************************)
VARIABLES
    dag,        \* the predecessors of each task
    wanted,     \* the tasks the request is for
    done,       \* the tasks finished for this request
    status      \* of the request

dagVars == <<dag, wanted, done, status>>

\* Every nonempty set of wanted tasks has one with no predecessor in the set.
Acyclic ==
    \A S \in SUBSET wanted : S # {} => \E t \in S : dag[t] \cap S = {}

SelfContained == \A t \in wanted : t \in DOMAIN dag /\ dag[t] \subseteq wanted

\* A task that can be worked on now.
Enabled(t) == t \in wanted \ done /\ dag[t] \subseteq done

DagInit ==
    /\ done = {}
    /\ status = "submitted"

Refuse ==
    /\ status = "submitted"
    /\ status' = "refused"
    /\ UNCHANGED <<dag, wanted, done>>

Start ==
    /\ status = "submitted"
    /\ SelfContained
    /\ Acyclic
    /\ status' = "running"
    /\ UNCHANGED <<dag, wanted, done>>

FinishTask ==
    /\ status = "running"
    /\ \E t \in wanted :
        /\ Enabled(t)
        /\ done' = done \cup {t}
        /\ \/ status' = "running"
           \/ status' = "succeeded" /\ done' = wanted
    /\ UNCHANGED <<dag, wanted>>

FailTask ==
    /\ status = "running"
    /\ \E t \in wanted : Enabled(t)
    /\ status' = "failed"
    /\ UNCHANGED <<dag, wanted, done>>

Succeed ==
    /\ status = "running"
    /\ done = wanted
    /\ status' = "succeeded"
    /\ UNCHANGED <<dag, wanted, done>>

\* The same request, made once more.
Resubmit ==
    /\ status \in {"succeeded", "failed"}
    /\ status' = "submitted"
    /\ done' = {}
    /\ UNCHANGED <<dag, wanted>>

DagNext == Refuse \/ Start \/ FinishTask \/ FailTask \/ Succeed \/ Resubmit

DagSpec == DagInit /\ [][DagNext]_dagVars

=============================================================================
