------------------------------ MODULE MCWorker ------------------------------
(***************************************************************************)
(* Small instances of Worker.                                              *)
(***************************************************************************)
EXTENDS Worker

\* A pipeline without nodes, one that reads what tenant t1 has loaded, one
\* whose graph build_runner refuses, and another tenant's.
MCPipelines ==
    [p \in {"empty", "reader", "cyclic", "foreign"} |->
        [owner |-> IF p = "foreign" THEN "t2" ELSE "t1",
         reads |-> IF p = "reader" THEN {"sales"} ELSE {},
         valid |-> p # "cyclic"]]

Asks(p) == [pipeline |-> p, tenant |-> "t1"]

MCMessage == {"m1", "m2"}
Pair(p, q) == [m \in MCMessage |-> IF m = "m1" THEN Asks(p) ELSE Asks(q)]

\* Two messages for two workers: executions that go well and that are refused
\* or fail, and a pipeline of another tenant or none at all.
MCRequests == {Pair("empty", "cyclic"), Pair("reader", "none")}

=============================================================================
