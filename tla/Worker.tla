------------------------------- MODULE Worker -------------------------------
(***************************************************************************)
(* The Celery task openflow.execute_pipeline (worker.py): worker processes *)
(* take messages from the broker, run a stored pipeline and keep its       *)
(* Execution row in the database.                                          *)
(*                                                                         *)
(* The task is modelled call by call, because each call to the database    *)
(* may fail and the process may die between any two.  A commit that fails  *)
(* may or may not have reached the database.  Celery's defaults hold: a    *)
(* message is acknowledged when its task starts, a reserved one that is    *)
(* not yet acknowledged goes back to the queue when its visibility timeout *)
(* ends or the process dies, and nothing is retried.                       *)
(***************************************************************************)
EXTENDS Naturals, FiniteSets

CONSTANTS
    Message,        \* messages of the broker
    Worker,         \* worker processes
    Execution,      \* ids of Execution rows
    Requests,       \* what the messages may ask for: message -> [pipeline, tenant]
    Pipelines,      \* the Pipeline table: id -> [owner, reads, valid]
    MayFail,        \* whether calls to the database may fail
    MaxCrashes,     \* bound: how often worker processes die
    MaxRedeliveries \* bound: how often one message's visibility timeout ends

NoMessage == "no message"
NoExecution == "no execution"

ASSUME WorkerAssumption ==
    /\ NoMessage \notin Message
    /\ NoExecution \notin Execution
    /\ \A asked \in Requests : DOMAIN asked = Message
    /\ MayFail \in BOOLEAN
    /\ MaxCrashes \in Nat
    /\ MaxRedeliveries \in Nat

VARIABLES
    request,        \* the arguments in the messages
    queue,          \* messages a worker can reserve
    timeouts,       \* per message, how often its visibility timeout ended
    pc,             \* per worker, the next call of the task
    message,        \* per worker, the message it works on
    execution,      \* per worker, the id of its Execution object
    session,        \* per worker, the state of its database session
    verdict,        \* per worker, the status it is about to commit
    inTry,          \* per worker, whether an exception is still caught
    rows,           \* the executions table: id -> status
    of,             \* the message each execution was made for
    outcome,        \* what the runner did for each execution
    reports,        \* what Celery keeps of tasks: [message, execution, status]
    faulted,        \* messages whose task met a failed call
    crashed,        \* messages whose task died with its process
    crashes         \* how often a process died

brokerVars == <<request, queue, timeouts>>
taskVars == <<message, execution, session, verdict, inTry>>
dbVars == <<rows, of, outcome>>
endVars == <<reports, faulted>>
crashVars == <<crashed, crashes>>
vars == <<brokerVars, pc, taskVars, dbVars, endVars, crashVars>>

Busy(w) == pc[w] \notin {"idle", "reserved"}
Pipeline(w) == Pipelines[request[message[w]].pipeline]

\* PipelineService() makes an InMemoryConnector of its own.
Visible(w) == {}

Init ==
    /\ request \in Requests
    /\ queue = Message
    /\ timeouts = [m \in Message |-> 0]
    /\ pc = [w \in Worker |-> "idle"]
    /\ message = [w \in Worker |-> NoMessage]
    /\ execution = [w \in Worker |-> NoExecution]
    /\ session = [w \in Worker |-> "none"]
    /\ verdict = [w \in Worker |-> "none"]
    /\ inTry = [w \in Worker |-> FALSE]
    /\ rows = [e \in Execution |-> "absent"]
    /\ of = [e \in Execution |-> NoMessage]
    /\ outcome = [e \in Execution |-> "none"]
    /\ reports = {}
    /\ faulted = {}
    /\ crashed = {}
    /\ crashes = 0

-----------------------------------------------------------------------------
(* The broker *)

Reserve(w) ==
    /\ pc[w] = "idle"
    /\ \E m \in queue :
        /\ queue' = queue \ {m}
        /\ message' = [message EXCEPT ![w] = m]
    /\ pc' = [pc EXCEPT ![w] = "reserved"]
    /\ UNCHANGED <<crashVars, request, timeouts, execution, session, verdict, inTry, dbVars, endVars>>

VisibilityTimeout(w) ==
    /\ pc[w] = "reserved"
    /\ LET m == message[w]
       IN  /\ timeouts[m] < MaxRedeliveries
           /\ timeouts' = [timeouts EXCEPT ![m] = @ + 1]
           /\ queue' = queue \cup {m}
    /\ UNCHANGED <<crashVars, request, pc, taskVars, dbVars, endVars>>

-----------------------------------------------------------------------------
(* How a task ends *)

Goto(w, label) == pc' = [pc EXCEPT ![w] = label]

\* The task leaves a report, and the session is no longer used.
End(w, status) ==
    /\ reports' = reports \cup
         {[message |-> message[w], execution |-> execution[w], status |-> status]}
    /\ pc' = [pc EXCEPT ![w] = "idle"]
    /\ message' = [message EXCEPT ![w] = NoMessage]
    /\ execution' = [execution EXCEPT ![w] = NoExecution]
    /\ session' = [session EXCEPT ![w] = "none"]
    /\ verdict' = [verdict EXCEPT ![w] = "none"]
    /\ inTry' = [inTry EXCEPT ![w] = FALSE]

Fault(w) == faulted' = faulted \cup {message[w]}

\* An exception that nothing in the task catches: before its try statement,
\* or in one of its except clauses.
Raise(w) == Fault(w) /\ End(w, "raised")

\* An exception in the try block that is no PipelineExecutionError.
CatchAll(w) ==
    /\ verdict' = [verdict EXCEPT ![w] = "failed"]
    /\ inTry' = [inTry EXCEPT ![w] = FALSE]
    /\ Goto(w, "commit")

-----------------------------------------------------------------------------
(* The task *)

\* The message is acknowledged and the session opened.
Start(w) ==
    /\ pc[w] = "reserved"
    /\ session' = [session EXCEPT ![w] = "open"]
    /\ Goto(w, "fetch")
    /\ UNCHANGED <<crashVars, brokerVars, message, execution, verdict, inTry, dbVars, endVars>>

OwnPipeline(w) ==
    /\ request[message[w]].pipeline \in DOMAIN Pipelines
    /\ Pipeline(w).owner = request[message[w]].tenant

Fetch(w) ==
    /\ pc[w] = "fetch"
    /\ OwnPipeline(w)
    /\ Goto(w, "insert")
    /\ UNCHANGED <<crashVars, brokerVars, taskVars, dbVars, endVars>>

NotFound(w) ==
    /\ pc[w] = "fetch"
    /\ ~OwnPipeline(w)
    /\ End(w, "raised")
    /\ UNCHANGED <<crashVars, brokerVars, dbVars, faulted>>

FetchFails(w) ==
    /\ MayFail
    /\ pc[w] = "fetch"
    /\ Raise(w)
    /\ UNCHANGED <<crashVars, brokerVars, dbVars>>

\* generate_uuid: an id that no row has.
Unused == {e \in Execution : rows[e] = "absent"}
Fresh == CHOOSE e \in Unused : TRUE

InsertRow(w, e) ==
    /\ e \in Unused
    /\ rows' = [rows EXCEPT ![e] = "running"]
    /\ of' = [of EXCEPT ![e] = message[w]]
    /\ UNCHANGED outcome

\* Deviation: an execution waits until no row is "running".
InsertWhenIdle(w) ==
    /\ pc[w] = "insert"
    /\ \A e \in Execution : rows[e] # "running"
    /\ InsertRow(w, Fresh)
    /\ execution' = [execution EXCEPT ![w] = Fresh]
    /\ Goto(w, "refresh")
    /\ UNCHANGED <<crashVars, brokerVars, message, session, verdict, inTry, endVars>>

Insert(w) ==
    /\ pc[w] = "insert"
    /\ InsertRow(w, Fresh)
    /\ execution' = [execution EXCEPT ![w] = Fresh]
    /\ Goto(w, "refresh")
    /\ UNCHANGED <<crashVars, brokerVars, message, session, verdict, inTry, endVars>>

InsertFails(w) ==
    /\ MayFail
    /\ pc[w] = "insert"
    /\ \/ UNCHANGED dbVars
       \/ InsertRow(w, Fresh)
    /\ Raise(w)
    /\ UNCHANGED <<crashVars, brokerVars>>

Refresh(w) ==
    /\ pc[w] = "refresh"
    /\ inTry' = [inTry EXCEPT ![w] = TRUE]
    /\ Goto(w, "run")
    /\ UNCHANGED <<crashVars, brokerVars, message, execution, session, verdict, dbVars, endVars>>

RefreshFails(w) ==
    /\ MayFail
    /\ pc[w] = "refresh"
    /\ Raise(w)
    /\ UNCHANGED <<crashVars, brokerVars, dbVars>>

\* The first commit has expired the pipeline: graph_json is read again.
LoadGraphFails(w) ==
    /\ MayFail
    /\ pc[w] = "run"
    /\ CatchAll(w)
    /\ Fault(w)
    /\ UNCHANGED <<crashVars, brokerVars, message, execution, session, dbVars, reports>>

RunResult(w) ==
    IF ~Pipeline(w).valid THEN "rejected"
    ELSE IF Pipeline(w).reads \subseteq Visible(w) THEN "ok"
    ELSE "node failed"

\* Deviation: the handlers of a failed run return without their commit.
RunUnsettled(w) ==
    /\ pc[w] = "run"
    /\ outcome' = [outcome EXCEPT ![execution[w]] = RunResult(w)]
    /\ verdict' = [verdict EXCEPT ![w] = IF RunResult(w) = "ok" THEN "succeeded" ELSE "failed"]
    /\ inTry' = [inTry EXCEPT ![w] = RunResult(w) = "ok"]
    /\ Goto(w, IF RunResult(w) = "ok" THEN "commit" ELSE "return")
    /\ UNCHANGED <<crashVars, brokerVars, message, execution, session, rows, of, endVars>>

\* build_runner and run; a PipelineExecutionError has a handler of its own.
RunPipeline(w) ==
    /\ pc[w] = "run"
    /\ outcome' = [outcome EXCEPT ![execution[w]] = RunResult(w)]
    /\ verdict' = [verdict EXCEPT ![w] = IF RunResult(w) = "ok" THEN "succeeded" ELSE "failed"]
    /\ inTry' = [inTry EXCEPT ![w] = RunResult(w) = "ok"]
    /\ Goto(w, "commit")
    /\ UNCHANGED <<crashVars, brokerVars, message, execution, session, rows, of, endVars>>

\* Deviation: the row is marked as succeeded whatever the run did.
CommitSuccess(w) == rows' = [rows EXCEPT ![execution[w]] = "succeeded"]

CommitRow(w) == rows' = [rows EXCEPT ![execution[w]] = verdict[w]]

Commit(w) ==
    /\ pc[w] = "commit"
    /\ session[w] = "open"
    /\ CommitRow(w)
    /\ Goto(w, "return")
    /\ UNCHANGED <<crashVars, brokerVars, taskVars, of, outcome, endVars>>

\* Deviation: the failure of a commit is swallowed.
CommitFailsUnseen(w) ==
    /\ MayFail
    /\ pc[w] = "commit"
    /\ session[w] = "open"
    /\ session' = [session EXCEPT ![w] = "broken"]
    /\ Goto(w, "return")
    /\ Fault(w)
    /\ UNCHANGED <<crashVars, brokerVars, message, execution, verdict, inTry, dbVars, reports>>

CommitFails(w) ==
    /\ MayFail
    /\ pc[w] = "commit"
    /\ session[w] = "open"
    /\ UNCHANGED rows \/ CommitRow(w)
    /\ IF inTry[w]
       THEN /\ CatchAll(w)
            /\ session' = [session EXCEPT ![w] = "broken"]
            /\ Fault(w)
            /\ UNCHANGED <<message, execution, reports>>
       ELSE Raise(w)
    /\ UNCHANGED <<crashVars, brokerVars, of, outcome>>

\* A session whose commit has failed refuses every other one until it is
\* rolled back, which nobody does.
CommitRefused(w) ==
    /\ pc[w] = "commit"
    /\ session[w] = "broken"
    /\ Raise(w)
    /\ UNCHANGED <<crashVars, brokerVars, dbVars>>

\* Deviation: the result is returned although the row could not be read.
ReturnAnyway(w) ==
    /\ pc[w] \in {"commit", "return"}
    /\ End(w, verdict[w])
    /\ UNCHANGED <<crashVars, brokerVars, dbVars, faulted>>

Return(w) ==
    /\ pc[w] = "return"
    /\ End(w, verdict[w])
    /\ UNCHANGED <<crashVars, brokerVars, dbVars, faulted>>

\* The commit has expired the object: execution.id in the result is read
\* from the database again.
ReloadFails(w) ==
    /\ MayFail
    /\ pc[w] = "return"
    /\ IF inTry[w]
       THEN /\ CatchAll(w)
            /\ Fault(w)
            /\ UNCHANGED <<message, execution, session, reports>>
       ELSE Raise(w)
    /\ UNCHANGED <<crashVars, brokerVars, dbVars>>

TaskStep(w) ==
    \/ Start(w)
    \/ Fetch(w)
    \/ NotFound(w)
    \/ Insert(w)
    \/ Refresh(w)
    \/ RunPipeline(w)
    \/ Commit(w)
    \/ CommitRefused(w)
    \/ Return(w)

CallFails(w) ==
    \/ FetchFails(w)
    \/ InsertFails(w)
    \/ RefreshFails(w)
    \/ LoadGraphFails(w)
    \/ CommitFails(w)
    \/ ReloadFails(w)

\* Deviation: every message of a dead process comes back (acks_late).
CrashRequeues(w) ==
    /\ crashes < MaxCrashes
    /\ crashes' = crashes + 1
    /\ pc[w] # "idle"
    /\ queue' = queue \cup {message[w]}
    /\ crashed' = IF Busy(w) THEN crashed \cup {message[w]} ELSE crashed
    /\ pc' = [pc EXCEPT ![w] = "idle"]
    /\ message' = [message EXCEPT ![w] = NoMessage]
    /\ execution' = [execution EXCEPT ![w] = NoExecution]
    /\ session' = [session EXCEPT ![w] = "none"]
    /\ verdict' = [verdict EXCEPT ![w] = "none"]
    /\ inTry' = [inTry EXCEPT ![w] = FALSE]
    /\ UNCHANGED <<request, timeouts, dbVars, endVars>>

\* The process dies, and a new one takes its place.
Crash(w) ==
    /\ crashes < MaxCrashes
    /\ crashes' = crashes + 1
    /\ pc[w] # "idle"
    /\ queue' = IF pc[w] = "reserved" THEN queue \cup {message[w]} ELSE queue
    /\ crashed' = IF Busy(w) THEN crashed \cup {message[w]} ELSE crashed
    /\ pc' = [pc EXCEPT ![w] = "idle"]
    /\ message' = [message EXCEPT ![w] = NoMessage]
    /\ execution' = [execution EXCEPT ![w] = NoExecution]
    /\ session' = [session EXCEPT ![w] = "none"]
    /\ verdict' = [verdict EXCEPT ![w] = "none"]
    /\ inTry' = [inTry EXCEPT ![w] = FALSE]
    /\ UNCHANGED <<request, timeouts, dbVars, endVars>>

Next ==
    \E w \in Worker :
        \/ Reserve(w)
        \/ VisibilityTimeout(w)
        \/ TaskStep(w)
        \/ CallFails(w)
        \/ Crash(w)

Spec == Init /\ [][Next]_vars

\* A worker process that lives reserves a message when there is one and makes
\* the next call of its task; failures, timeouts and deaths are never owed.
FairSpec == Spec /\ \A w \in Worker : WF_vars(Reserve(w) \/ TaskStep(w))

-----------------------------------------------------------------------------
(***************************************************************************)
(* Properties                                                              *)
(***************************************************************************)

Labels == {"idle", "reserved", "fetch", "insert", "refresh", "run", "commit", "return"}
Statuses == {"absent", "running", "succeeded", "failed"}

\* The variables keep their types; only a worker in its task has a session,
\* only one past its insert has an execution.
WorkerTypeOK ==
    /\ request \in Requests
    /\ queue \in SUBSET Message
    /\ timeouts \in [Message -> 0 .. MaxRedeliveries]
    /\ pc \in [Worker -> Labels]
    /\ rows \in [Execution -> Statuses]
    /\ of \in [Execution -> Message \cup {NoMessage}]
    /\ outcome \in [Execution -> {"none", "rejected", "node failed", "ok"}]
    /\ faulted \in SUBSET Message
    /\ crashed \in SUBSET Message
    /\ crashes \in 0 .. MaxCrashes
    /\ \A w \in Worker :
         /\ message[w] \in IF pc[w] = "idle" THEN {NoMessage} ELSE Message
         /\ session[w] \in IF ~Busy(w) THEN {"none"}
                          ELSE IF pc[w] = "commit" THEN {"open", "broken"} ELSE {"open"}
         /\ execution[w] \in IF pc[w] \in {"refresh", "run", "commit", "return"}
                             THEN Execution ELSE {NoExecution}
         /\ verdict[w] \in IF pc[w] \in {"commit", "return"}
                           THEN {"succeeded", "failed"} ELSE {"none"}

\* What Celery reports of an execution is what its row says: a status is
\* returned only after the commit that wrote it (worker.py).
ReportMatchesRow ==
    \A r \in reports :
        r.status \in {"succeeded", "failed"} => rows[r.execution] = r.status

\* A row tells what the runner did: "succeeded" always, "failed" unless a
\* call to the database failed after a good run.
RowTellsOutcome ==
    \A e \in Execution :
        /\ rows[e] = "succeeded" => outcome[e] = "ok"
        /\ rows[e] = "failed" /\ outcome[e] = "ok" => of[e] \in faulted

\* No row stays "running" behind its task, unless a call failed or the
\* process died: the normal paths through the task all settle it.
StuckOnlyByFault ==
    \A e \in Execution :
        rows[e] = "running" /\ (\A w \in Worker : execution[w] # e)
            => of[e] \in faulted \cup crashed

\* A message is acknowledged before its task does anything: unless its
\* visibility timeout has ended it makes one execution, crashes or not.
ExecutedOnce ==
    \A m \in Message :
        timeouts[m] = 0 => Cardinality({e \in Execution : of[e] = m}) <= 1

\* What clients can read of executions in the reports of their tasks.
Reported ==
    LET settled == {r \in reports : r.status \in {"succeeded", "failed"}}
    IN  {[execution |-> r.execution, status |-> r.status] : r \in settled}

Records == INSTANCE ExecutionRecords WITH status <- rows, ran <- outcome, told <- Reported

\* The task keeps the promises of the executions table, step by step: a run
\* happens once, a row says "succeeded" only after a good one, a success is
\* taken back only while its task has not reported it, and a failure never.
KeepsRecords == Records!RecordSpec

\* Every message is answered at last, whatever calls fail, unless its task
\* died with its process.
EveryMessageAnswered ==
    \A m \in Message : <>(m \in crashed \/ \E r \in reports : r.message = m)

=============================================================================
