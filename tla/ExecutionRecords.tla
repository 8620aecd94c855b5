-------------------------- MODULE ExecutionRecords --------------------------
(***************************************************************************)
(* What the table of executions promises, whoever keeps it and whatever    *)
(* fails: a row appears as "running", its pipeline is run at most once,    *)
(* and "succeeded" is written only when that run was good.  The one thing  *)
(* ever taken back is a success that nobody was told of, and what was told *)
(* is told once and stays.  That a row is settled at all is not promised.  *)
(***************************************************************************)
VARIABLES
    status,     \* of each execution: "absent", "running", "succeeded" or "failed"
    ran,        \* what the run of each came to, or "none"
    told        \* what clients were told: records of an execution and its status

recordVars == <<status, ran, told>>

Settled == {"succeeded", "failed"}

Told(e) == \E t \in told : t.execution = e

RecordInit ==
    /\ \A e \in DOMAIN status : status[e] = "absent"
    /\ \A e \in DOMAIN ran : ran[e] = "none"
    /\ told = {}

Open(e) ==
    /\ status[e] = "absent"
    /\ status' = [status EXCEPT ![e] = "running"]
    /\ UNCHANGED <<ran, told>>

Run(e) ==
    /\ status[e] = "running"
    /\ ran[e] = "none"
    /\ \E result \in {"ok", "rejected", "node failed"} : ran' = [ran EXCEPT ![e] = result]
    /\ UNCHANGED <<status, told>>

Settle(e) ==
    /\ status[e] = "running"
    /\ \E s \in Settled :
        /\ s = "succeeded" => ran[e] = "ok"
        /\ status' = [status EXCEPT ![e] = s]
    /\ UNCHANGED <<ran, told>>

Revise(e) ==
    /\ status[e] = "succeeded"
    /\ ~Told(e)
    /\ status' = [status EXCEPT ![e] = "failed"]
    /\ UNCHANGED <<ran, told>>

Tell(e) ==
    /\ status[e] \in Settled
    /\ ~Told(e)
    /\ told' = told \cup {[execution |-> e, status |-> status[e]]}
    /\ UNCHANGED <<status, ran>>

RecordNext == \E e \in DOMAIN status : Open(e) \/ Run(e) \/ Settle(e) \/ Revise(e) \/ Tell(e)

RecordSpec == RecordInit /\ [][RecordNext]_recordVars

=============================================================================
