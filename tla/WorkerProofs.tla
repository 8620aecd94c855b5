---------------------------- MODULE WorkerProofs ----------------------------
(***************************************************************************)
(* Proofs about Worker, for any messages, worker processes, pipelines and  *)
(* bounds: the safety properties of the task under failing calls, crashes  *)
(* and redelivery.                                                         *)
(***************************************************************************)
EXTENDS Worker, FiniteSetTheorems, TLAPS

-----------------------------------------------------------------------------
(* The invariant *)

Verdicts == {"none", "succeeded", "failed"}

\* The variables of the tasks are functions on the workers, too.
TasksOK ==
    /\ message \in [Worker -> Message \cup {NoMessage}]
    /\ execution \in [Worker -> Execution \cup {NoExecution}]
    /\ session \in [Worker -> {"none", "open", "broken"}]
    /\ verdict \in [Worker -> Verdicts]
    /\ inTry \in [Worker -> BOOLEAN]

\* A row is made by one task, for its message, and no other task touches it.
RowsOwned ==
    /\ \A e \in Execution : rows[e] = "absent" <=> of[e] = NoMessage
    /\ \A w \in Worker : execution[w] # NoExecution =>
         of[execution[w]] = message[w] /\ message[w] # NoMessage
    /\ \A v, w \in Worker : execution[v] = execution[w] /\ execution[v] # NoExecution => v = w

\* A status, written or about to be, and what the runner did.
Tells(status, e) ==
    /\ status = "succeeded" => outcome[e] = "ok"
    /\ status = "failed" /\ outcome[e] = "ok" => of[e] \in faulted

\* Rows, and what the tasks are about to commit, tell the outcome; a row is
\* running until its task has run, and says the verdict before it is returned.
VerdictsTell ==
    /\ \A e \in Execution : Tells(rows[e], e)
    /\ \A w \in Worker : pc[w] \in {"refresh", "run"} => rows[execution[w]] = "running"
    /\ \A w \in Worker : pc[w] \in {"commit", "return"} => Tells(verdict[w], execution[w])
    /\ \A w \in Worker : pc[w] = "return" => rows[execution[w]] = verdict[w]

\* A status that was reported is that of a row no task has any more.
ReportsFinal ==
    \A r \in reports : r.status \in {"succeeded", "failed"} =>
        /\ r.execution \in Execution
        /\ rows[r.execution] = r.status
        /\ \A w \in Worker : execution[w] # r.execution

\* A message that was never redelivered is in one place at most, and has no
\* execution before it is past its insert.
MessagesOnce ==
    \A m \in Message : timeouts[m] = 0 =>
        /\ m \in queue => \A w \in Worker : message[w] # m
        /\ \A v, w \in Worker : message[v] = m /\ message[w] = m => v = w
        /\ m \in queue \/ (\E w \in Worker : message[w] = m /\ execution[w] = NoExecution)
             => \A e \in Execution : of[e] # m
        /\ \A d, e \in Execution : of[d] = m /\ of[e] = m => d = e

WorkerInv ==
    /\ WorkerTypeOK
    /\ TasksOK
    /\ RowsOwned
    /\ VerdictsTell
    /\ ReportsFinal
    /\ StuckOnlyByFault
    /\ MessagesOnce

-----------------------------------------------------------------------------
(* The shapes of the steps *)

Step(w) ==
    \/ Reserve(w)
    \/ VisibilityTimeout(w)
    \/ TaskStep(w)
    \/ CallFails(w)
    \/ Crash(w)

\* The part of WorkerTypeOK about one worker.
TaskOK(w) ==
    /\ message[w] \in IF pc[w] = "idle" THEN {NoMessage} ELSE Message
    /\ session[w] \in IF ~Busy(w) THEN {"none"}
                     ELSE IF pc[w] = "commit" THEN {"open", "broken"} ELSE {"open"}
    /\ execution[w] \in IF pc[w] \in {"refresh", "run", "commit", "return"}
                        THEN Execution ELSE {NoExecution}
    /\ verdict[w] \in IF pc[w] \in {"commit", "return"}
                      THEN {"succeeded", "failed"} ELSE {"none"}

\* What the type invariant says of one worker.
LEMMA TaskTyped == ASSUME WorkerInv, NEW w \in Worker PROVE TaskOK(w)
BY DEF WorkerInv, WorkerTypeOK, TaskOK

\* The id of a new row is one no row has.
LEMMA FreshFacts ==
    ASSUME Fresh \in Unused
    PROVE  Fresh \in Execution /\ rows[Fresh] = "absent"
BY DEF Unused

\* A task that ends, by a report or with its process.
Leaves(w) ==
    /\ pc[w] # "idle" /\ pc'[w] = "idle"
    /\ message'[w] = NoMessage /\ execution'[w] = NoExecution
    /\ session'[w] = "none" /\ verdict'[w] = "none"

\* A task that ends lets go of all it held and reports at most its own row.
LEMMA EndFacts ==
    ASSUME TasksOK, pc \in [Worker -> Labels], NEW w \in Worker, pc[w] # "idle",
           NEW status, End(w, status)
    PROVE  /\ Leaves(w)
           /\ \A r \in reports' :
                \/ r \in reports
                \/ r.execution = execution[w] /\ r.status = status
<1> DEFINE report == [message |-> message[w], execution |-> execution[w], status |-> status]
<1>1. reports' = reports \cup {report}
  BY DEF End
<1>2. report.execution = execution[w] /\ report.status = status
  OBVIOUS
<1>3. Leaves(w)
  BY DEF End, Leaves, TasksOK
<1> HIDE DEF report
<1> QED BY <1>1, <1>2, <1>3

\* Which steps end a task.
LEMMA LeaveFacts ==
    ASSUME WorkerInv, NEW w \in Worker,
           NotFound(w) \/ FetchFails(w) \/ InsertFails(w) \/ RefreshFails(w)
             \/ CommitRefused(w) \/ Return(w) \/ Crash(w)
    PROVE  Leaves(w)
<1> USE DEF WorkerInv
<1>a. pc \in [Worker -> Labels]
  BY DEF WorkerTypeOK
<1>1. CASE NotFound(w)       BY <1>a, <1>1, EndFacts DEF NotFound
<1>2. CASE FetchFails(w)     BY <1>a, <1>2, EndFacts DEF FetchFails, Raise
<1>3. CASE InsertFails(w)    BY <1>a, <1>3, EndFacts DEF InsertFails, Raise
<1>4. CASE RefreshFails(w)   BY <1>a, <1>4, EndFacts DEF RefreshFails, Raise
<1>5. CASE CommitRefused(w)  BY <1>a, <1>5, EndFacts DEF CommitRefused, Raise
<1>6. CASE Return(w)         BY <1>a, <1>6, EndFacts DEF Return
<1>7. CASE Crash(w)          BY <1>a, <1>7 DEF Crash, Leaves, TasksOK
<1> QED BY <1>1, <1>2, <1>3, <1>4, <1>5, <1>6, <1>7

\* An exception in the try block goes to the next commit; with a commit or
\* a reload that fails outside of it the task ends.
Catches(w) ==
    /\ pc'[w] = "commit" /\ verdict'[w] = "failed"
    /\ message'[w] = message[w] /\ execution'[w] = execution[w]
    /\ session'[w] \in {session[w], "broken"}
    /\ faulted' = faulted \cup {message[w]}
    /\ reports' = reports

\* Where except Exception may catch, and where it certainly does.
LEMMA CatchFacts ==
    ASSUME WorkerInv, NEW w \in Worker,
           LoadGraphFails(w) \/ CommitFails(w) \/ ReloadFails(w)
    PROVE  /\ pc[w] \in {"run", "commit", "return"}
           /\ Catches(w) \/ Leaves(w)
           /\ pc[w] = "run" => Catches(w)
<1> USE DEF WorkerInv
<1>a. pc \in [Worker -> Labels]
  BY DEF WorkerTypeOK
<1>b. CatchAll(w) => pc'[w] = "commit" /\ verdict'[w] = "failed"
  BY <1>a DEF CatchAll, Goto, TasksOK
<1>1. CASE LoadGraphFails(w)
  BY <1>b, <1>1 DEF LoadGraphFails, Fault, Catches
<1>2. CASE CommitFails(w)
  <2>1. CASE inTry[w]
    BY <1>b, <1>2, <2>1 DEF CommitFails, Fault, Catches, TasksOK
  <2>2. CASE ~inTry[w]
    BY <1>a, <1>2, <2>2, EndFacts DEF CommitFails, Raise
  <2> QED BY <2>1, <2>2, <1>2 DEF CommitFails
<1>3. CASE ReloadFails(w)
  <2>1. CASE inTry[w]
    BY <1>b, <1>3, <2>1 DEF ReloadFails, Fault, Catches
  <2>2. CASE ~inTry[w]
    BY <1>a, <1>3, <2>2, EndFacts DEF ReloadFails, Raise
  <2> QED BY <2>1, <2>2, <1>3 DEF ReloadFails
<1> QED BY <1>1, <1>2, <1>3

\* A step leaves the other workers alone, and the types are kept.
LEMMA OthersFacts ==
    ASSUME WorkerInv, NEW w \in Worker, Step(w)
    PROVE  /\ pc' \in [Worker -> Labels] /\ TasksOK'
           /\ \A v \in Worker \ {w} :
                /\ pc'[v] = pc[v] /\ message'[v] = message[v]
                /\ execution'[v] = execution[v] /\ session'[v] = session[v]
                /\ verdict'[v] = verdict[v]
<1> USE DEF taskVars
<1>a. pc \in [Worker -> Labels] /\ TasksOK
  BY DEF WorkerInv, WorkerTypeOK
<1>b. ASSUME NEW status, End(w, status)
      PROVE  /\ pc' \in [Worker -> Labels] /\ TasksOK'
             /\ \A v \in Worker \ {w} :
                  /\ pc'[v] = pc[v] /\ message'[v] = message[v]
                  /\ execution'[v] = execution[v] /\ session'[v] = session[v]
                  /\ verdict'[v] = verdict[v]
  BY <1>a, <1>b DEF End, TasksOK, Labels, Verdicts
<1> USE DEF TasksOK, Labels, Verdicts, Goto
<1>1. CASE Reserve(w)
  <2>1. queue \subseteq Message
    BY DEF WorkerInv, WorkerTypeOK
  <2>2. PICK m \in queue : message' = [message EXCEPT ![w] = m]
    BY <1>1 DEF Reserve
  <2> QED BY <1>a, <1>1, <2>1, <2>2 DEF Reserve
<1>2. CASE VisibilityTimeout(w)
  BY <1>a, <1>2 DEF VisibilityTimeout
<1>3. CASE Start(w)
  BY <1>a, <1>3 DEF Start
<1>4. CASE Fetch(w)
  BY <1>a, <1>4 DEF Fetch
<1>5. CASE Insert(w)
  BY <1>a, <1>5, FreshFacts DEF Insert, InsertRow
<1>6. CASE Refresh(w)
  BY <1>a, <1>6 DEF Refresh
<1>7. CASE RunPipeline(w)
  BY <1>a, <1>7 DEF RunPipeline
<1>8. CASE Commit(w)
  BY <1>a, <1>8 DEF Commit
<1>9. CASE LoadGraphFails(w)
  BY <1>a, <1>9 DEF LoadGraphFails, CatchAll
<1>10. CASE CommitFails(w)
  <2>1. CASE inTry[w]
    BY <1>a, <1>10, <2>1 DEF CommitFails, CatchAll
  <2>2. CASE ~inTry[w]
    BY <1>b, <1>10, <2>2 DEF CommitFails, Raise
  <2> QED BY <2>1, <2>2, <1>10 DEF CommitFails
<1>11. CASE ReloadFails(w)
  <2>1. CASE inTry[w]
    BY <1>a, <1>11, <2>1 DEF ReloadFails, CatchAll
  <2>2. CASE ~inTry[w]
    BY <1>b, <1>11, <2>2 DEF ReloadFails, Raise
  <2> QED BY <2>1, <2>2, <1>11 DEF ReloadFails
<1>12. CASE NotFound(w) \/ FetchFails(w) \/ InsertFails(w) \/ RefreshFails(w)
              \/ CommitRefused(w) \/ Return(w)
  BY <1>b, <1>12 DEF NotFound, FetchFails, InsertFails, RefreshFails, CommitRefused, Return, Raise
<1>13. CASE Crash(w)
  BY <1>a, <1>13 DEF Crash
<1> QED
  BY <1>1, <1>2, <1>3, <1>4, <1>5, <1>6, <1>7, <1>8, <1>9, <1>10, <1>11, <1>12, <1>13
  DEF Step, TaskStep, CallFails

\* What a step does to the database.
Inserts(w) ==
    /\ pc[w] = "insert"
    /\ \E e \in Execution :
         /\ rows[e] = "absent"
         /\ rows' = [rows EXCEPT ![e] = "running"]
         /\ of' = [of EXCEPT ![e] = message[w]]
         /\ outcome' = outcome
         /\ \/ execution'[w] = e /\ message'[w] = message[w]
            \/ Leaves(w) /\ message[w] \in faulted'

Runs(w) ==
    /\ pc[w] = "run" /\ execution'[w] = execution[w] /\ message'[w] = message[w]
    /\ UNCHANGED <<rows, of>>
    /\ \A e \in Execution \ {execution[w]} : outcome'[e] = outcome[e]

Commits(w) ==
    /\ pc[w] = "commit"
    /\ UNCHANGED <<of, outcome>>
    /\ rows' = [rows EXCEPT ![execution[w]] = verdict[w]]

\* A step leaves the table alone, or inserts a row, runs or commits one.
LEMMA DbFacts ==
    ASSUME WorkerInv, NEW w \in Worker, Step(w)
    PROVE  UNCHANGED <<rows, of, outcome>> \/ Inserts(w) \/ Runs(w) \/ Commits(w)
<1> USE DEF dbVars
<1>a. /\ TasksOK /\ rows \in [Execution -> Statuses]
      /\ outcome \in [Execution -> {"none", "rejected", "node failed", "ok"}]
  BY DEF WorkerInv, WorkerTypeOK
<1>1. CASE Insert(w)
  BY <1>a, <1>1, FreshFacts DEF Insert, InsertRow, Inserts, TasksOK
<1>2. CASE InsertFails(w)
  <2>1. Leaves(w) /\ message[w] \in faulted'
    BY <1>2, LeaveFacts DEF InsertFails, Raise, Fault
  <2> QED BY <1>2, <2>1, FreshFacts DEF InsertFails, InsertRow, Inserts
<1>3. CASE RunPipeline(w)
  BY <1>a, <1>3 DEF RunPipeline, Runs, TasksOK
<1>4. CASE Commit(w)
  BY <1>4 DEF Commit, CommitRow, Commits
<1>5. CASE CommitFails(w)
  BY <1>5 DEF CommitFails, CommitRow, Commits
<1>6. CASE UNCHANGED <<rows, of, outcome>>
  BY <1>6
<1> QED
  BY <1>1, <1>2, <1>3, <1>4, <1>5, <1>6
  DEF Step, TaskStep, CallFails, Reserve, VisibilityTimeout, Start, Fetch, NotFound, Refresh,
      CommitRefused, Return, FetchFails, RefreshFails, LoadGraphFails, ReloadFails, Crash

\* What a step does to its worker's hold of a message and an execution.
Stays(w) ==
    message'[w] = message[w] /\ execution'[w] = execution[w] /\ pc[w] # "idle"

\* A worker gets a message or a row, leaves its task, or goes on with it.
LEMMA HoldFacts ==
    ASSUME WorkerInv, NEW w \in Worker, Step(w)
    PROVE  Reserve(w) \/ Insert(w) \/ Leaves(w) \/ Stays(w)
<1> USE DEF taskVars
<1>a. TasksOK
  BY DEF WorkerInv
<1>1. CASE NotFound(w) \/ FetchFails(w) \/ InsertFails(w) \/ RefreshFails(w)
             \/ CommitRefused(w) \/ Return(w) \/ Crash(w)
  BY <1>1, LeaveFacts
<1>2. CASE LoadGraphFails(w) \/ CommitFails(w) \/ ReloadFails(w)
  BY <1>2, CatchFacts DEF Catches, Stays
<1>3. CASE VisibilityTimeout(w) \/ Start(w) \/ Fetch(w) \/ Refresh(w) \/ RunPipeline(w) \/ Commit(w)
  BY <1>3 DEF VisibilityTimeout, Start, Fetch, Refresh, RunPipeline, Commit, Stays
<1> QED BY <1>1, <1>2, <1>3 DEF Step, TaskStep, CallFails

\* Faults and deaths are not forgotten.
LEMMA FaultsGrow ==
    ASSUME WorkerInv, NEW w \in Worker, Step(w)
    PROVE  faulted \subseteq faulted' /\ crashed \subseteq crashed' /\ request' = request
BY DEF WorkerInv, Step, TaskStep, CallFails, Reserve, VisibilityTimeout, Start, Fetch, NotFound,
   Insert, Refresh, RunPipeline, Commit, CommitRefused, Return, FetchFails, InsertFails, RefreshFails,
   LoadGraphFails, CommitFails, ReloadFails, Crash, Raise, Fault, endVars, crashVars, brokerVars

-----------------------------------------------------------------------------
(* Each part of the invariant is preserved *)

LEMMA TaskStepOK ==
    ASSUME WorkerInv, NEW w \in Worker, Step(w)
    PROVE  TaskOK(w)'
<1> USE DEF Busy
<1>a. TaskOK(w) /\ TasksOK /\ pc \in [Worker -> Labels]
  BY TaskTyped DEF WorkerInv, WorkerTypeOK
<1>1. CASE Leaves(w)
  BY <1>1 DEF Leaves, TaskOK
<1>2. CASE Reserve(w)
  <2>1. PICK m \in queue : message' = [message EXCEPT ![w] = m]
    BY <1>2 DEF Reserve
  <2>2. m \in Message
    BY DEF WorkerInv, WorkerTypeOK
  <2> QED BY <1>a, <1>2, <2>1, <2>2 DEF Reserve, TaskOK, TasksOK
<1>3. CASE VisibilityTimeout(w)
  BY <1>a, <1>3 DEF VisibilityTimeout, TaskOK, taskVars
<1>4. CASE Start(w)
  BY <1>a, <1>4 DEF Start, Goto, TaskOK, TasksOK
<1>5. CASE Fetch(w)
  BY <1>a, <1>5 DEF Fetch, Goto, TaskOK, taskVars
<1>6. CASE Insert(w)
  BY <1>a, <1>6, FreshFacts DEF Insert, InsertRow, Goto, TaskOK, TasksOK
<1>7. CASE Refresh(w)
  BY <1>a, <1>7 DEF Refresh, Goto, TaskOK
<1>8. CASE RunPipeline(w)
  BY <1>a, <1>8 DEF RunPipeline, Goto, TaskOK, TasksOK
<1>9. CASE Commit(w)
  BY <1>a, <1>9 DEF Commit, Goto, TaskOK, taskVars
<1>10. CASE Catches(w) /\ pc[w] \in {"run", "commit", "return"}
  BY <1>a, <1>10 DEF Catches, TaskOK
<1> QED
  BY <1>1, <1>2, <1>3, <1>4, <1>5, <1>6, <1>7, <1>8, <1>9, <1>10, LeaveFacts, CatchFacts
  DEF Step, TaskStep, CallFails

\* The steps of one worker keep the types,
LEMMA TypeStep ==
    ASSUME WorkerInv, NEW w \in Worker, Step(w)
    PROVE  WorkerTypeOK'
<1>a. WorkerTypeOK /\ TasksOK /\ TaskOK(w)
  BY TaskTyped DEF WorkerInv
<1>1. \A v \in Worker : TaskOK(v)'
  <2>1. \A v \in Worker \ {w} : TaskOK(v)'
    BY OthersFacts, TaskTyped DEF TaskOK, Busy
  <2> QED BY <2>1, TaskStepOK
<1>2. /\ rows' \in [Execution -> Statuses]
      /\ of' \in [Execution -> Message \cup {NoMessage}]
  <2>a. rows \in [Execution -> Statuses] /\ of \in [Execution -> Message \cup {NoMessage}]
    BY <1>a DEF WorkerTypeOK
  <2>1. CASE Inserts(w)
    BY <1>a, <2>a, <2>1 DEF Inserts, TasksOK, Statuses
  <2>2. CASE Commits(w)
    BY <1>a, <2>a, <2>2 DEF Commits, TaskOK, Statuses
  <2>3. CASE UNCHANGED <<rows, of>>
    BY <2>a, <2>3
  <2> QED BY <2>1, <2>2, <2>3, DbFacts DEF Runs
<1>3. outcome' \in [Execution -> {"none", "rejected", "node failed", "ok"}]
  <2>1. CASE RunPipeline(w)
    BY <1>a, <2>1 DEF RunPipeline, RunResult, WorkerTypeOK
  <2>2. CASE outcome' = outcome
    BY <1>a, <2>2 DEF WorkerTypeOK
  <2> QED
    BY <2>1, <2>2
    DEF Step, TaskStep, CallFails, Reserve, VisibilityTimeout, Start, Fetch, NotFound, Insert,
        Refresh, Commit, CommitRefused, Return, FetchFails, InsertFails, InsertRow,
        RefreshFails, LoadGraphFails, CommitFails, ReloadFails, Crash, dbVars
<1>4. /\ faulted' \in SUBSET Message
      /\ pc[w] # "idle" => message[w] \in Message
  <2>1. faulted' \subseteq faulted \cup {message[w]} /\ (pc[w] = "idle" => faulted' = faulted)
    BY DEF Step, TaskStep, CallFails, Reserve, VisibilityTimeout, Start, Fetch, NotFound, Insert,
        Refresh, RunPipeline, Commit, CommitRefused, Return, FetchFails, InsertFails,
        RefreshFails, LoadGraphFails, CommitFails, ReloadFails, Crash, Raise, Fault, endVars
  <2> QED BY <1>a, <2>1 DEF WorkerTypeOK, TaskOK
<1>5. CASE Reserve(w)
  BY <1>a, <1>1, <1>2, <1>3, <1>4, <1>5, OthersFacts DEF Reserve, WorkerTypeOK, TaskOK, crashVars
<1>6. CASE VisibilityTimeout(w)
  <2>1. message[w] \in Message /\ timeouts[message[w]] + 1 \in 0 .. MaxRedeliveries
    <3>1. message[w] \in Message /\ timeouts[message[w]] < MaxRedeliveries
      BY <1>4, <1>6 DEF VisibilityTimeout
    <3>2. timeouts[message[w]] \in 0 .. MaxRedeliveries
      BY <1>a, <3>1 DEF WorkerTypeOK
    <3>3. MaxRedeliveries \in Nat
      BY WorkerAssumption
    <3> QED BY <3>1, <3>2, <3>3
  <2> QED BY <1>a, <1>1, <1>2, <1>3, <1>4, <1>6, <2>1, OthersFacts
    DEF VisibilityTimeout, WorkerTypeOK, TaskOK, crashVars
<1>7. CASE Crash(w)
  <2>1. crashes + 1 \in 0 .. MaxCrashes
    <3>1. crashes \in 0 .. MaxCrashes /\ crashes < MaxCrashes
      BY <1>a, <1>7 DEF Crash, WorkerTypeOK
    <3>2. MaxCrashes \in Nat
      BY WorkerAssumption
    <3> QED BY <3>1, <3>2
  <2> QED BY <1>a, <1>1, <1>2, <1>3, <1>4, <1>7, <2>1, OthersFacts DEF Crash, WorkerTypeOK, TaskOK
<1>8. CASE UNCHANGED <<request, queue, timeouts, crashed, crashes>>
  BY <1>a, <1>1, <1>2, <1>3, <1>4, <1>8, OthersFacts DEF WorkerTypeOK, TaskOK
<1> QED
  BY <1>5, <1>6, <1>7, <1>8
  DEF Step, TaskStep, CallFails, Start, Fetch, NotFound, Insert, Refresh, RunPipeline, Commit,
      CommitRefused, Return, FetchFails, InsertFails, RefreshFails, LoadGraphFails, CommitFails,
      ReloadFails, brokerVars, crashVars

\* that a row is touched by one task only,
LEMMA RowsStep ==
    ASSUME WorkerInv, NEW w \in Worker, Step(w)
    PROVE  RowsOwned'
<1>a. /\ RowsOwned /\ TaskOK(w) /\ TasksOK
      /\ NoMessage \notin Message /\ NoExecution \notin Execution
      /\ rows \in [Execution -> Statuses] /\ of \in [Execution -> Message \cup {NoMessage}]
  BY TaskTyped, WorkerAssumption DEF WorkerInv, WorkerTypeOK
<1>b. \A v \in Worker \ {w} : message'[v] = message[v] /\ execution'[v] = execution[v]
  BY OthersFacts
<1>c. \A v \in Worker : execution[v] # NoExecution =>
        execution[v] \in Execution /\ rows[execution[v]] # "absent"
  BY <1>a DEF RowsOwned, TasksOK
<1>1. CASE Inserts(w)
  <2>1. PICK e \in Execution :
          /\ rows[e] = "absent"
          /\ rows' = [rows EXCEPT ![e] = "running"]
          /\ of' = [of EXCEPT ![e] = message[w]]
          /\ \/ execution'[w] = e /\ message'[w] = message[w]
             \/ Leaves(w)
    BY <1>1 DEF Inserts
  <2>2. message[w] \in Message
    BY <1>a, <1>1 DEF Inserts, TaskOK
  <2> QED BY <1>a, <1>b, <1>c, <2>1, <2>2 DEF RowsOwned, Leaves
<1>2. CASE Commits(w)
  <2>1. verdict[w] \in {"succeeded", "failed"} /\ execution[w] \in Execution
    BY <1>a, <1>2 DEF Commits, TaskOK
  <2>2. Leaves(w) \/ Stays(w)
    BY <1>2, HoldFacts DEF Commits, Reserve, Insert
  <2>3. \A e \in Execution : rows'[e] = "absent" <=> rows[e] = "absent"
    BY <1>a, <1>c, <1>2, <2>1 DEF Commits
  <2> QED BY <1>a, <1>b, <1>2, <2>2, <2>3 DEF Commits, RowsOwned, Leaves, Stays
<1>3. CASE UNCHANGED <<rows, of>> /\ pc[w] # "insert"
  <2>1. CASE Reserve(w)
    <3>1. execution[w] = NoExecution /\ execution' = execution
      BY <1>a, <2>1 DEF Reserve, TaskOK
    <3> QED BY <1>a, <1>b, <1>3, <3>1 DEF RowsOwned
  <2>2. CASE Leaves(w) \/ Stays(w)
    BY <1>a, <1>b, <1>3, <2>2 DEF RowsOwned, Leaves, Stays
  <2> QED BY <1>3, <2>1, <2>2, HoldFacts DEF Insert
<1>4. CASE UNCHANGED <<rows, of>> /\ pc[w] = "insert"
  <2>1. Leaves(w)
    <3>1. ~Insert(w)
      BY <1>a, <1>4, FreshFacts DEF Insert, InsertRow
    <3> QED
      BY <1>4, <3>1, LeaveFacts, CatchFacts
      DEF Step, TaskStep, CallFails, Reserve, VisibilityTimeout, Start, Fetch, Refresh,
          RunPipeline, Commit
  <2> QED BY <1>a, <1>b, <1>4, <2>1 DEF RowsOwned, Leaves
<1> QED BY <1>1, <1>2, <1>3, <1>4, DbFacts DEF Runs

\* what a place in the task has already committed,
LEMMA VerdictsStep ==
    ASSUME WorkerInv, NEW w \in Worker, Step(w)
    PROVE  VerdictsTell'
<1>a. /\ TaskOK(w) /\ TasksOK /\ RowsOwned /\ VerdictsTell
      /\ NoMessage \notin Message /\ NoExecution \notin Execution
      /\ rows \in [Execution -> Statuses] /\ of \in [Execution -> Message \cup {NoMessage}]
      /\ outcome \in [Execution -> {"none", "rejected", "node failed", "ok"}]
      /\ pc \in [Worker -> Labels] /\ faulted \subseteq faulted'
  BY TaskTyped, FaultsGrow, WorkerAssumption DEF WorkerInv, WorkerTypeOK
<1>b. \A v \in Worker \ {w} :
        /\ pc'[v] = pc[v] /\ verdict'[v] = verdict[v] /\ execution'[v] = execution[v]
        /\ pc[v] \in {"refresh", "run", "commit", "return"} =>
             /\ execution[v] \in Execution /\ execution[v] # execution[w]
             /\ rows[execution[v]] # "absent"
  <2>1. \A v \in Worker : TaskOK(v)
    BY TaskTyped
  <2>2. \A v \in Worker : pc[v] \in {"refresh", "run", "commit", "return"} =>
          execution[v] \in Execution /\ of[execution[v]] # NoMessage
    BY <1>a, <2>1 DEF TaskOK, RowsOwned
  <2>3. \A v \in Worker \ {w} : execution[v] # NoExecution => execution[v] # execution[w]
    BY <1>a DEF RowsOwned
  <2> QED BY <1>a, <2>2, <2>3, OthersFacts DEF RowsOwned
\* The others keep their verdicts, and it is left to look at w and the rows.
<1>c. ASSUME \A e \in Execution : Tells(rows[e], e)',
             \A e \in Execution \ {execution[w]} : rows[e] # "absent" =>
                 rows'[e] = rows[e] /\ of'[e] = of[e] /\ outcome'[e] = outcome[e],
             pc'[w] \in {"refresh", "run"} => rows'[execution'[w]] = "running",
             pc'[w] \in {"commit", "return"} => Tells(verdict[w], execution[w])',
             pc'[w] = "return" => rows'[execution'[w]] = verdict'[w]
      PROVE  VerdictsTell'
  <2>1. ASSUME NEW v \in Worker, v # w
        PROVE  /\ pc'[v] \in {"refresh", "run"} => rows'[execution'[v]] = "running"
               /\ pc'[v] \in {"commit", "return"} => Tells(verdict[v], execution[v])'
               /\ pc'[v] = "return" => rows'[execution'[v]] = verdict'[v]
    <3>1. /\ pc[v] \in {"refresh", "run"} => rows[execution[v]] = "running"
          /\ pc[v] \in {"commit", "return"} => Tells(verdict[v], execution[v])
          /\ pc[v] = "return" => rows[execution[v]] = verdict[v]
      BY <1>a DEF VerdictsTell
    <3>2. pc[v] \in {"refresh", "run", "commit", "return"} =>
            /\ rows'[execution[v]] = rows[execution[v]]
            /\ of'[execution[v]] = of[execution[v]]
            /\ outcome'[execution[v]] = outcome[execution[v]]
      BY <1>b, <1>c, <2>1
    <3> QED BY <1>a, <1>b, <2>1, <3>1, <3>2 DEF Tells
  <2> QED BY <1>c, <2>1 DEF VerdictsTell
<1>1. CASE Inserts(w)
  <2>1. PICK e \in Execution :
          /\ rows[e] = "absent"
          /\ rows' = [rows EXCEPT ![e] = "running"]
          /\ of' = [of EXCEPT ![e] = message[w]]
          /\ outcome' = outcome
          /\ execution'[w] = e \/ Leaves(w)
    BY <1>1 DEF Inserts
  <2>2. pc'[w] \in {"refresh", "idle"} /\ (pc'[w] = "refresh" => execution'[w] = e)
    BY <1>a, <1>1, <2>1, LeaveFacts, CatchFacts DEF Inserts, Step, TaskStep, CallFails, Reserve,
       VisibilityTimeout, Start, Fetch, Insert, Goto, Refresh, RunPipeline, Commit, Leaves
  <2> QED BY <1>a, <1>c, <2>1, <2>2 DEF VerdictsTell, Tells
<1>2. CASE RunPipeline(w)
  <2>1. execution[w] \in Execution /\ rows[execution[w]] = "running"
    BY <1>a, <1>2 DEF RunPipeline, TaskOK, VerdictsTell
  <2>2. /\ UNCHANGED <<rows, of, execution, faulted>>
        /\ pc'[w] = "commit"
        /\ \A e \in Execution \ {execution[w]} : outcome'[e] = outcome[e]
        /\ verdict'[w] = "succeeded" => outcome'[execution[w]] = "ok"
        /\ verdict'[w] = "failed" => outcome'[execution[w]] # "ok"
    BY <1>a, <1>2, <2>1 DEF RunPipeline, Goto, TasksOK, endVars
  <2> QED BY <1>a, <1>c, <2>1, <2>2 DEF VerdictsTell, Tells
<1>3. CASE Commits(w)
  <2>1. execution[w] \in Execution /\ Tells(verdict[w], execution[w])
    BY <1>a, <1>3 DEF Commits, TaskOK, VerdictsTell
  <2>2. of[execution[w]] = message[w]
    BY <1>a, <2>1 DEF RowsOwned
  <2>3. \/ pc'[w] = "return" /\ verdict'[w] = verdict[w] /\ execution'[w] = execution[w]
        \/ Catches(w)
        \/ Leaves(w)
    BY <1>a, <1>3, LeaveFacts, CatchFacts DEF Commits, Step, TaskStep, CallFails, Reserve,
       VisibilityTimeout, Start, Fetch, Insert, Refresh, RunPipeline, Commit, Goto, taskVars
  <2>4. \A e \in Execution : Tells(rows[e], e)'
    BY <1>a, <1>3, <2>1 DEF Commits, VerdictsTell, Tells
  <2>5. /\ pc'[w] \in {"commit", "return"} => Tells(verdict[w], execution[w])'
        /\ pc'[w] = "return" => rows'[execution'[w]] = verdict'[w]
        /\ pc'[w] \notin {"refresh", "run"}
    BY <1>a, <1>3, <2>1, <2>2, <2>3 DEF Commits, Catches, Leaves, Tells
  <2> QED BY <1>a, <1>c, <1>3, <2>4, <2>5 DEF Commits
<1>4. CASE UNCHANGED <<rows, of, outcome>>
  <2>1. \A e \in Execution : Tells(rows[e], e)'
    BY <1>a, <1>4 DEF VerdictsTell, Tells
  <2>2. CASE Leaves(w)
    BY <1>c, <1>4, <2>1, <2>2 DEF Leaves
  <2>3. CASE Catches(w) /\ pc[w] \in {"run", "commit", "return"}
    <3>1. execution[w] \in Execution /\ of[execution[w]] = message[w]
      BY <1>a, <2>3 DEF TaskOK, RowsOwned
    <3> QED BY <1>a, <1>c, <1>4, <2>1, <2>3, <3>1 DEF Catches, Tells
  <2>4. CASE Reserve(w) \/ VisibilityTimeout(w) \/ Start(w) \/ Fetch(w)
    <3>1. pc'[w] \in {"reserved", "fetch", "insert"}
      BY <1>a, <2>4 DEF Reserve, VisibilityTimeout, Start, Fetch, Goto
    <3> QED BY <1>c, <1>4, <2>1, <3>1
  <2>5. CASE Refresh(w)
    <3>1. pc[w] = "refresh" /\ pc'[w] = "run" /\ execution' = execution
      BY <1>a, <2>5 DEF Refresh, Goto
    <3> QED BY <1>a, <1>c, <1>4, <2>1, <3>1 DEF VerdictsTell
  <2>6. CASE Insert(w)
    BY <1>a, <1>4, <2>6, FreshFacts DEF Insert, InsertRow
  <2>7. CASE Commit(w)
    BY <1>3, <2>7 DEF Commit, CommitRow, Commits
  <2> QED
    BY <1>2, <2>2, <2>3, <2>4, <2>5, <2>6, <2>7, LeaveFacts, CatchFacts
    DEF Step, TaskStep, CallFails
<1>5. CASE Runs(w)
  <2>1. RunPipeline(w) \/ (UNCHANGED <<rows, of, outcome>>)
    BY <1>5, LeaveFacts DEF Runs, Step, TaskStep, CallFails, Reserve, VisibilityTimeout, Start,
       Fetch, NotFound, FetchFails, Insert, InsertFails, Refresh, RefreshFails, Commit, CommitFails,
       CommitRefused, Return, ReloadFails, LoadGraphFails, Crash, dbVars
  <2> QED BY <1>2, <1>4, <2>1
<1> QED BY <1>1, <1>2, <1>3, <1>4, <1>5, DbFacts

\* A status other than "raised" is reported by Return only.
LEMMA ReportFacts ==
    ASSUME WorkerInv, NEW w \in Worker, Step(w), NEW r \in reports'
    PROVE  \/ r \in reports
           \/ r.status = "raised"
           \/ Return(w) /\ r.execution = execution[w] /\ r.status = verdict[w]
<1>a. TasksOK /\ pc \in [Worker -> Labels]
  BY DEF WorkerInv, WorkerTypeOK
<1>1. CASE NotFound(w)
  BY <1>a, <1>1, EndFacts DEF NotFound
<1>2. CASE FetchFails(w) \/ InsertFails(w) \/ RefreshFails(w) \/ CommitRefused(w)
  BY <1>a, <1>2, EndFacts DEF FetchFails, InsertFails, RefreshFails, CommitRefused, Raise
<1>3. CASE CommitFails(w)
  BY <1>a, <1>3, EndFacts DEF CommitFails, Raise
<1>4. CASE ReloadFails(w)
  BY <1>a, <1>4, EndFacts DEF ReloadFails, Raise
<1>5. CASE Return(w)
  BY <1>a, <1>5, EndFacts DEF Return
<1>6. CASE reports' = reports
  BY <1>6
<1> QED
  BY <1>1, <1>2, <1>3, <1>4, <1>5, <1>6
  DEF Step, TaskStep, CallFails, Reserve, VisibilityTimeout, Start, Fetch, Insert, Refresh,
      RunPipeline, Commit, LoadGraphFails, Crash, endVars

\* that reported rows are final,
LEMMA ReportsStep ==
    ASSUME WorkerInv, NEW w \in Worker, Step(w)
    PROVE  ReportsFinal'
<1>a. /\ TaskOK(w) /\ TasksOK /\ RowsOwned /\ VerdictsTell /\ ReportsFinal
      /\ NoExecution \notin Execution
      /\ rows \in [Execution -> Statuses]
  BY TaskTyped, WorkerAssumption DEF WorkerInv, WorkerTypeOK
<1>b. \A v \in Worker \ {w} : execution'[v] = execution[v]
  BY OthersFacts
<1> SUFFICES ASSUME NEW r \in reports', r.status \in {"succeeded", "failed"}
             PROVE  /\ r.execution \in Execution
                    /\ rows'[r.execution] = r.status
                    /\ \A v \in Worker : execution'[v] # r.execution
  BY DEF ReportsFinal
<1>1. CASE r \in reports
  <2>1. /\ r.execution \in Execution /\ rows[r.execution] = r.status
        /\ \A v \in Worker : execution[v] # r.execution
    BY <1>a, <1>1 DEF ReportsFinal
  <2>2. rows'[r.execution] = r.status
    BY <1>a, <2>1, DbFacts DEF Inserts, Runs, Commits
  <2>3. execution'[w] # r.execution
    <3>1. CASE Insert(w)
      BY <1>a, <2>1, <3>1, FreshFacts DEF Insert, InsertRow, TasksOK
    <3>2. CASE Reserve(w)
      BY <2>1, <3>2 DEF Reserve
    <3>3. CASE Leaves(w) \/ Stays(w)
      BY <1>a, <2>1, <3>3 DEF Leaves, Stays
    <3> QED BY <3>1, <3>2, <3>3, HoldFacts
  <2> QED BY <1>b, <2>1, <2>2, <2>3
<1>2. CASE Return(w) /\ r.execution = execution[w] /\ r.status = verdict[w]
  <2>1. execution[w] \in Execution /\ rows[execution[w]] = verdict[w] /\ rows' = rows
    BY <1>a, <1>2 DEF Return, TaskOK, VerdictsTell, dbVars
  <2>2. \A v \in Worker \ {w} : execution[v] # execution[w]
    BY <1>a, <2>1 DEF RowsOwned
  <2>3. execution'[w] = NoExecution
    BY <1>2, LeaveFacts DEF Leaves
  <2> QED BY <1>a, <1>b, <1>2, <2>1, <2>2, <2>3
<1> QED BY <1>1, <1>2, ReportFacts

\* A task that ends leaves its row settled, or it met a fault or a crash.
LEMMA LeavesSettled ==
    ASSUME WorkerInv, NEW w \in Worker, Step(w), Leaves(w), execution[w] \in Execution
    PROVE  rows'[execution[w]] # "running" \/ message[w] \in faulted' \cup crashed'
<1>a. TaskOK(w) /\ VerdictsTell /\ NoExecution \notin Execution
  BY TaskTyped, WorkerAssumption DEF WorkerInv
<1>1. CASE Return(w)
  BY <1>a, <1>1 DEF Return, VerdictsTell, TaskOK, dbVars
<1>2. CASE Crash(w)
  <2>1. Busy(w)
    BY <1>a DEF TaskOK, Busy
  <2> QED BY <1>2, <2>1 DEF Crash
<1>3. CASE NotFound(w)
  BY <1>a, <1>3 DEF NotFound, TaskOK
<1>4. CASE CallFails(w) \/ CommitRefused(w)
  BY <1>4 DEF CallFails, CommitRefused, FetchFails, InsertFails, RefreshFails, LoadGraphFails,
     CommitFails, ReloadFails, Raise, Fault
<1>5. CASE Stays(w) \/ Insert(w) \/ Reserve(w)
  <2>1. pc \in [Worker -> Labels] /\ TasksOK
    BY DEF WorkerInv, WorkerTypeOK
  <2>2. CASE Stays(w)
    BY <1>a, <2>2 DEF Stays, Leaves
  <2> QED BY <2>1, <2>2, <1>5 DEF Insert, Reserve, Leaves, Goto
<1> QED
  BY <1>1, <1>2, <1>3, <1>4, <1>5 DEF Step, TaskStep, VisibilityTimeout, Start, Fetch, Refresh,
     RunPipeline, Commit, Stays, taskVars

\* that stuck rows have met a fault,
LEMMA StuckStep ==
    ASSUME WorkerInv, NEW w \in Worker, Step(w)
    PROVE  StuckOnlyByFault'
<1>a. /\ TaskOK(w) /\ TasksOK /\ RowsOwned /\ StuckOnlyByFault
      /\ NoExecution \notin Execution
      /\ rows \in [Execution -> Statuses] /\ of \in [Execution -> Message \cup {NoMessage}]
      /\ faulted \subseteq faulted' /\ crashed \subseteq crashed'
  BY TaskTyped, FaultsGrow, WorkerAssumption DEF WorkerInv, WorkerTypeOK
<1>b. \A v \in Worker \ {w} : execution'[v] = execution[v]
  BY OthersFacts
<1> SUFFICES ASSUME NEW e \in Execution, rows'[e] = "running",
                    \A v \in Worker : execution'[v] # e
             PROVE  of'[e] \in faulted' \cup crashed'
  BY DEF StuckOnlyByFault
<1>1. CASE rows[e] = "absent"
  <2>1. Inserts(w)
    <3>1. ~Commits(w) \/ execution[w] # e
      BY <1>a, <1>1 DEF Commits, TaskOK, RowsOwned
    <3>2. rows'[e] # rows[e]
      BY <1>1
    <3> QED BY <1>a, <3>1, <3>2, DbFacts DEF Runs, Commits
  <2>2. PICK d \in Execution :
          /\ rows' = [rows EXCEPT ![d] = "running"]
          /\ of' = [of EXCEPT ![d] = message[w]]
          /\ execution'[w] = d \/ message[w] \in faulted'
    BY <2>1 DEF Inserts
  <2>3. d = e
    BY <1>a, <1>1, <2>2
  <2> QED BY <1>a, <2>2, <2>3
<1>2. CASE rows[e] # "absent"
  <2>1. rows[e] = "running" /\ of'[e] = of[e]
    <3>1. CASE Inserts(w)
      BY <1>a, <1>2, <3>1 DEF Inserts
    <3>2. CASE Commits(w)
      BY <1>a, <3>2 DEF Commits, TaskOK
    <3>3. CASE UNCHANGED <<rows, of>>
      BY <3>3
    <3> QED BY <3>1, <3>2, <3>3, DbFacts DEF Runs
  <2>2. CASE execution[w] # e
    BY <1>a, <1>b, <2>1, <2>2 DEF StuckOnlyByFault
  <2>3. CASE execution[w] = e
    <3>1. of[e] = message[w]
      BY <1>a, <2>3 DEF RowsOwned
    <3>2. Leaves(w)
      BY <1>a, <2>3, HoldFacts DEF Stays, Reserve, Insert, TaskOK
    <3> QED BY <2>1, <2>3, <3>1, <3>2, LeavesSettled
  <2> QED BY <2>2, <2>3
<1> QED BY <1>1, <1>2

\* Where messages go: into the queue by a timeout, or when a process dies that
\* has not started the task.
LEMMA QueueFacts ==
    ASSUME WorkerInv, NEW w \in Worker, Step(w), NEW m \in Message, timeouts'[m] = 0
    PROVE  /\ timeouts[m] = 0
           /\ m \in queue' => m \in queue \/ (Crash(w) /\ pc[w] = "reserved" /\ message[w] = m)
           /\ Reserve(w) /\ message'[w] = m => m \in queue /\ m \notin queue'
<1>a. /\ TaskOK(w) /\ TasksOK
      /\ timeouts \in [Message -> 0 .. MaxRedeliveries]
  BY TaskTyped DEF WorkerInv, WorkerTypeOK
<1>1. CASE VisibilityTimeout(w)
  <2>1. message[w] \in Message
    BY <1>a, <1>1 DEF VisibilityTimeout, TaskOK
  <2>2. timeouts[message[w]] \in Nat
    BY <1>a, <2>1
  <2>3. m # message[w]
    <3>1. timeouts'[message[w]] = timeouts[message[w]] + 1
      BY <1>a, <1>1, <2>1 DEF VisibilityTimeout
    <3> QED BY <2>2, <3>1
  <2>4. timeouts'[m] = timeouts[m] /\ queue' = queue \cup {message[w]} /\ pc[w] = "reserved"
    BY <1>a, <1>1, <2>3 DEF VisibilityTimeout
  <2> QED BY <2>3, <2>4 DEF Reserve
<1>2. CASE Reserve(w)
  <2>1. PICK n \in queue : queue' = queue \ {n} /\ message' = [message EXCEPT ![w] = n]
    BY <1>2 DEF Reserve
  <2> QED BY <1>a, <1>2, <2>1 DEF Reserve, Crash, TasksOK
<1>3. CASE Crash(w)
  BY <1>3 DEF Crash, Reserve
<1>4. CASE UNCHANGED <<queue, timeouts>> /\ ~Reserve(w)
  BY <1>4
<1> QED
  BY <1>1, <1>2, <1>3, <1>4
  DEF Step, TaskStep, CallFails, Start, Fetch, NotFound, Insert, Refresh, RunPipeline, Commit,
      CommitRefused, Return, FetchFails, InsertFails, RefreshFails, LoadGraphFails, CommitFails,
      ReloadFails, brokerVars

\* and that a message not redelivered is in one place.
LEMMA OnceStep ==
    ASSUME WorkerInv, NEW w \in Worker, Step(w)
    PROVE  MessagesOnce'
<1>a. /\ TaskOK(w) /\ TasksOK /\ RowsOwned
      /\ NoMessage \notin Message /\ NoExecution \notin Execution
      /\ rows \in [Execution -> Statuses] /\ of \in [Execution -> Message \cup {NoMessage}]
      /\ pc \in [Worker -> Labels]
  BY TaskTyped, WorkerAssumption DEF WorkerInv, WorkerTypeOK
<1>b. \A v \in Worker \ {w} : message'[v] = message[v] /\ execution'[v] = execution[v]
  BY OthersFacts
<1> SUFFICES ASSUME NEW m \in Message, timeouts'[m] = 0
             PROVE  /\ m \in queue' => \A v \in Worker : message'[v] # m
                    /\ \A u, v \in Worker : message'[u] = m /\ message'[v] = m => u = v
                    /\ (m \in queue' \/
                          \E v \in Worker : message'[v] = m /\ execution'[v] = NoExecution)
                         => \A e \in Execution : of'[e] # m
                    /\ \A d, e \in Execution : of'[d] = m /\ of'[e] = m => d = e
  BY DEF MessagesOnce
<1>c. /\ m \in queue => \A v \in Worker : message[v] # m
      /\ \A u, v \in Worker : message[u] = m /\ message[v] = m => u = v
      /\ m \in queue \/ (\E v \in Worker : message[v] = m /\ execution[v] = NoExecution)
           => \A e \in Execution : of[e] # m
      /\ \A d, e \in Execution : of[d] = m /\ of[e] = m => d = e
  BY QueueFacts DEF WorkerInv, MessagesOnce
<1>1. CASE Reserve(w)
  <2>1. /\ execution[w] = NoExecution /\ execution' = execution /\ of' = of
        /\ m \in queue' => m \in queue
        /\ message'[w] = m => m \in queue /\ m \notin queue'
    BY <1>a, <1>1, QueueFacts DEF Reserve, TaskOK, dbVars, Crash
  <2> QED BY <1>b, <1>c, <2>1
<1>2. CASE Inserts(w)
  <2>1. PICK e \in Execution :
          /\ of' = [of EXCEPT ![e] = message[w]]
          /\ \/ execution'[w] = e /\ message'[w] = message[w]
             \/ Leaves(w)
    BY <1>2 DEF Inserts
  <2>2. /\ execution[w] = NoExecution /\ message[w] \in Message
        /\ execution'[w] = NoExecution => message'[w] # m
        /\ message'[w] \in {message[w], NoMessage}
    BY <1>a, <1>2, <2>1 DEF Inserts, TaskOK, Leaves
  <2>3. m \in queue' => m \in queue
    BY <1>2, QueueFacts DEF Inserts
  <2>4. CASE message[w] = m
    <3>1. \A d \in Execution : of[d] # m
      BY <1>c, <2>2, <2>4
    <3>2. \A d \in Execution : of'[d] = m => d = e
      BY <1>a, <2>1, <3>1
    <3>3. m \notin queue'
      BY <1>c, <2>3, <2>4
    <3>4. \A v \in Worker : message'[v] = m => v = w
      BY <1>b, <1>c, <2>4
    <3> QED BY <2>2, <3>2, <3>3, <3>4
  <2>5. CASE message[w] # m
    <3>1. \A d \in Execution : of'[d] = m => of[d] = m
      BY <1>a, <2>1, <2>5
    <3>2. \A v \in Worker : message'[v] = m => v # w /\ message[v] = m
      BY <1>a, <1>b, <2>2, <2>5
    <3> QED BY <1>b, <1>c, <2>3, <3>1, <3>2
  <2> QED BY <2>4, <2>5
<1>3. CASE of' = of /\ (Leaves(w) \/ Stays(w))
  <2>1. message'[w] = m => message[w] = m /\ execution'[w] = execution[w]
    BY <1>a, <1>3 DEF Leaves, Stays
  <2>2. CASE Crash(w) /\ pc[w] = "reserved" /\ message[w] = m
    <3>1. execution[w] = NoExecution /\ message'[w] # m
      BY <1>a, <2>2, LeaveFacts DEF TaskOK, Leaves
    <3> QED BY <1>b, <1>c, <1>3, <2>2, <3>1
  <2>3. CASE m \in queue' => m \in queue
    BY <1>b, <1>c, <1>3, <2>1, <2>3
  <2> QED BY <2>2, <2>3, QueueFacts
<1>4. CASE Insert(w)
  BY <1>a, <1>2, <1>4, FreshFacts DEF Insert, InsertRow, Inserts, TasksOK
<1> QED BY <1>1, <1>2, <1>3, <1>4, DbFacts, HoldFacts DEF Runs, Commits

-----------------------------------------------------------------------------
(* The invariant holds *)

LEMMA InitInv == Init => WorkerInv
<1> SUFFICES ASSUME Init PROVE WorkerInv
  OBVIOUS
<1>a. NoMessage \notin Message /\ NoExecution \notin Execution
  BY WorkerAssumption
<1>b. 0 \in 0 .. MaxRedeliveries /\ 0 \in 0 .. MaxCrashes
  <2>1. MaxRedeliveries \in Nat /\ MaxCrashes \in Nat
    BY WorkerAssumption
  <2> QED BY <2>1
<1>1. WorkerTypeOK
  BY <1>b DEF Init, WorkerTypeOK, Labels, Statuses, Busy
<1>2. TasksOK
  BY DEF Init, TasksOK, Verdicts
<1>3. RowsOwned
  BY DEF Init, RowsOwned
<1>4. VerdictsTell
  BY DEF Init, VerdictsTell, Tells
<1>5. ReportsFinal /\ StuckOnlyByFault
  BY DEF Init, ReportsFinal, StuckOnlyByFault
<1>6. MessagesOnce
  BY <1>a DEF Init, MessagesOnce
<1> QED BY <1>1, <1>2, <1>3, <1>4, <1>5, <1>6 DEF WorkerInv

\* Every step keeps the invariant.
LEMMA NextInv == WorkerInv /\ [Next]_vars => WorkerInv'
<1> SUFFICES ASSUME WorkerInv, [Next]_vars PROVE WorkerInv'
  OBVIOUS
<1>1. ASSUME NEW w \in Worker, Step(w) PROVE WorkerInv'
  BY <1>1, TypeStep, OthersFacts, RowsStep, VerdictsStep, ReportsStep, StuckStep, OnceStep
  DEF WorkerInv
<1>2. CASE UNCHANGED vars
  <2>1. UNCHANGED <<request, queue, timeouts, pc, message, execution, session, verdict, inTry,
                    rows, of, outcome, reports, faulted, crashed, crashes>>
    BY <1>2 DEF vars, brokerVars, taskVars, dbVars, endVars, crashVars
  <2>2. WorkerTypeOK'
    BY <2>1 DEF WorkerInv, WorkerTypeOK, Busy
  <2>3. TasksOK' /\ RowsOwned'
    BY <2>1 DEF WorkerInv, TasksOK, RowsOwned
  <2>4. VerdictsTell'
    BY <2>1 DEF WorkerInv, VerdictsTell, Tells
  <2>5. ReportsFinal' /\ StuckOnlyByFault'
    BY <2>1 DEF WorkerInv, ReportsFinal, StuckOnlyByFault
  <2>6. MessagesOnce'
    BY <2>1 DEF WorkerInv, MessagesOnce
  <2> QED BY <2>2, <2>3, <2>4, <2>5, <2>6 DEF WorkerInv
<1> QED BY <1>1, <1>2 DEF Next, Step

\* Rows are owned by one task each and say what is known of their execution,
\* reports are final, and messages are in one place at a time.
THEOREM WorkerInvariant == Spec => []WorkerInv
BY InitInv, NextInv, PTL DEF Spec

-----------------------------------------------------------------------------
(* The theorems *)

\* The type invariant: only a task has a session, only one past its insert an
\* execution, and only one past its run a verdict.
THEOREM WorkerTypeCorrect == Spec => []WorkerTypeOK
BY WorkerInvariant, PTL DEF WorkerInv

\* A status Celery reports is the one the row keeps, whatever fails later.
THEOREM ReportsMatchRows == Spec => []ReportMatchesRow
<1>1. WorkerInv => ReportMatchesRow
  BY DEF WorkerInv, ReportsFinal, ReportMatchesRow
<1> QED BY <1>1, WorkerInvariant, PTL

\* A row says what the runner did, unless the database failed after the run.
THEOREM RowsTellOutcomes == Spec => []RowTellsOutcome
<1>1. WorkerInv => RowTellsOutcome
  BY DEF WorkerInv, VerdictsTell, Tells, RowTellsOutcome
<1> QED BY <1>1, WorkerInvariant, PTL

\* Only a fault or a crash leaves a row "running" behind its task.
THEOREM StuckRowsHadFaults == Spec => []StuckOnlyByFault
BY WorkerInvariant, PTL DEF WorkerInv

\* Without a redelivery no message is executed twice, whatever dies or fails.
THEOREM MessagesExecutedOnce == Spec => []ExecutedOnce
<1>1. WorkerInv => ExecutedOnce
  <2> SUFFICES ASSUME WorkerInv, NEW m \in Message, timeouts[m] = 0
               PROVE  Cardinality({e \in Execution : of[e] = m}) <= 1
    BY DEF ExecutedOnce
  <2> DEFINE S == {e \in Execution : of[e] = m}
  <2>1. \A d, e \in S : d = e
    BY DEF WorkerInv, MessagesOnce
  <2>2. CASE S = {}
    BY <2>2, FS_EmptySet
  <2>3. CASE S # {}
    <3>1. PICK e \in S : TRUE
      BY <2>3
    <3>2. S = {e}
      BY <2>1, <3>1
    <3> QED BY <3>2, FS_Singleton
  <2> QED BY <2>2, <2>3
<1> QED BY <1>1, WorkerInvariant, PTL

-----------------------------------------------------------------------------
(***************************************************************************)
(* The executions table                                                    *)
(***************************************************************************)

\* A run has not happened before its task came to it, and a success that is
\* about to be committed has not been written yet.
RunsOnce ==
    /\ \A e \in Execution : rows[e] = "absent" => outcome[e] = "none"
    /\ \A w \in Worker : pc[w] \in {"refresh", "run"} => outcome[execution[w]] = "none"
    /\ \A w \in Worker : pc[w] = "commit" /\ verdict[w] = "succeeded" => rows[execution[w]] = "running"

\* What brings a task to its run, and what a run does.
LEMMA RunFacts ==
    ASSUME WorkerInv, NEW w \in Worker, Step(w)
    PROVE  /\ pc'[w] \in {"refresh", "run"} =>
                \/ Insert(w)
                \/ pc[w] \in {"refresh", "run"} /\ execution'[w] = execution[w] /\ outcome' = outcome
           /\ pc'[w] = "commit" /\ verdict'[w] = "succeeded" => RunPipeline(w)
<1>a. TasksOK /\ pc \in [Worker -> Labels]
  BY DEF WorkerInv, WorkerTypeOK
<1>1. CASE NotFound(w) \/ FetchFails(w) \/ InsertFails(w) \/ RefreshFails(w)
             \/ CommitRefused(w) \/ Return(w) \/ Crash(w)
  BY <1>1, LeaveFacts DEF Leaves
<1>2. CASE LoadGraphFails(w) \/ CommitFails(w) \/ ReloadFails(w)
  BY <1>2, CatchFacts DEF Catches, Leaves
<1>3. CASE Refresh(w)
  BY <1>a, <1>3 DEF Refresh, Goto, dbVars
<1>4. CASE Reserve(w) \/ VisibilityTimeout(w) \/ Start(w) \/ Fetch(w) \/ Commit(w)
  <2>1. pc'[w] \in {"reserved", "fetch", "insert", "return"}
    BY <1>a, <1>4 DEF Reserve, VisibilityTimeout, Start, Fetch, Commit, Goto
  <2> QED BY <2>1
<1>5. CASE Insert(w)
  BY <1>a, <1>5 DEF Insert, Goto
<1>6. CASE RunPipeline(w)
  BY <1>a, <1>6 DEF RunPipeline, Goto
<1> QED BY <1>1, <1>2, <1>3, <1>4, <1>5, <1>6 DEF Step, TaskStep, CallFails

\* No run has happened when there are no rows.
LEMMA RunsOnceInit == Init => RunsOnce
  BY DEF Init, RunsOnce

\* Every step keeps it.
LEMMA RunsOnceStep ==
    ASSUME WorkerInv, RunsOnce, NEW w \in Worker, Step(w)
    PROVE  RunsOnce'
<1>a. /\ TasksOK /\ RowsOwned /\ VerdictsTell
      /\ rows \in [Execution -> Statuses]
      /\ outcome \in [Execution -> {"none", "rejected", "node failed", "ok"}]
      /\ NoExecution \notin Execution
  BY WorkerAssumption DEF WorkerInv, WorkerTypeOK
<1>b. \A v \in Worker : TaskOK(v)
  BY TaskTyped
<1>c. \A v \in Worker \ {w} :
        pc'[v] = pc[v] /\ execution'[v] = execution[v] /\ verdict'[v] = verdict[v]
  BY OthersFacts
<1>1. ASSUME NEW e \in Execution, rows'[e] = "absent" PROVE outcome'[e] = "none"
  <2>1. rows[e] = "absent"
    <3>1. CASE Commits(w)
      <4>1. execution[w] \in Execution /\ verdict[w] \in {"succeeded", "failed"}
        BY <1>b, <3>1 DEF Commits, TaskOK
      <4> QED BY <1>1, <1>a, <3>1, <4>1 DEF Commits
    <3>2. CASE Inserts(w)
      BY <1>1, <1>a, <3>2 DEF Inserts
    <3> QED BY <1>1, <3>1, <3>2, DbFacts DEF Runs
  <2>2. CASE Runs(w)
    <3>1. rows[execution[w]] = "running"
      BY <1>a, <2>2 DEF Runs, VerdictsTell
    <3> QED BY <2>1, <2>2, <3>1 DEF Runs, RunsOnce
  <2> QED BY <2>1, <2>2, DbFacts DEF Inserts, Commits, RunsOnce
<1>2. ASSUME NEW v \in Worker, pc'[v] \in {"refresh", "run"} PROVE outcome'[execution'[v]] = "none"
  <2>1. CASE v = w
    <3>1. CASE Insert(w)
      <4>1. Fresh \in Execution /\ rows[Fresh] = "absent" /\ execution'[w] = Fresh /\ outcome' = outcome
        BY <1>a, <3>1, FreshFacts DEF Insert, InsertRow, TasksOK
      <4> QED BY <2>1, <4>1 DEF RunsOnce
    <3>2. CASE pc[w] \in {"refresh", "run"} /\ execution'[w] = execution[w] /\ outcome' = outcome
      BY <2>1, <3>2 DEF RunsOnce
    <3> QED BY <1>2, <2>1, <3>1, <3>2, RunFacts
  <2>2. CASE v # w
    <3>1. /\ pc[v] \in {"refresh", "run"} /\ execution'[v] = execution[v]
          /\ execution[v] \in Execution /\ outcome[execution[v]] = "none"
      BY <1>2, <1>b, <1>c, <2>2 DEF TaskOK, RunsOnce
    <3>2. execution[v] # execution[w]
      BY <1>a, <2>2, <3>1 DEF RowsOwned
    <3> QED BY <3>1, <3>2, DbFacts DEF Inserts, Runs, Commits
  <2> QED BY <2>1, <2>2
<1>3. ASSUME NEW v \in Worker, pc'[v] = "commit", verdict'[v] = "succeeded"
      PROVE  rows'[execution'[v]] = "running"
  <2>1. CASE v = w
    <3>1. RunPipeline(w)
      BY <1>3, <2>1, RunFacts
    <3>2. pc[w] = "run" /\ execution' = execution /\ rows' = rows
      BY <3>1 DEF RunPipeline
    <3>3. rows[execution[w]] = "running"
      BY <1>a, <3>2 DEF VerdictsTell
    <3> QED BY <2>1, <3>2, <3>3
  <2>2. CASE v # w
    <3>1. /\ pc[v] = "commit" /\ verdict[v] = "succeeded" /\ execution'[v] = execution[v]
          /\ execution[v] \in Execution /\ rows[execution[v]] = "running"
      BY <1>3, <1>b, <1>c, <2>2 DEF TaskOK, RunsOnce
    <3>2. execution[v] # execution[w]
      BY <1>a, <2>2, <3>1 DEF RowsOwned
    <3>3. rows'[execution[v]] = rows[execution[v]]
      <4>1. CASE Inserts(w)
        BY <1>a, <3>1, <4>1 DEF Inserts
      <4>2. CASE Runs(w) \/ Commits(w) \/ UNCHANGED rows
        BY <1>a, <3>1, <3>2, <4>2 DEF Runs, Commits
      <4> QED BY <4>1, <4>2, DbFacts
    <3> QED BY <3>1, <3>3
  <2> QED BY <2>1, <2>2
<1> QED BY <1>1, <1>2, <1>3 DEF RunsOnce

\* A step reports a status only as Return does; all others leave what is
\* reported of executions as it is.
LEMMA ReportedFacts ==
    ASSUME WorkerInv, NEW w \in Worker, Step(w)
    PROVE  /\ ~Return(w) => Reported' = Reported
           /\ Return(w) => Reported' = Reported \cup {[execution |-> execution[w], status |-> verdict[w]]}
<1>1. reports \subseteq reports'
  BY DEF Step, TaskStep, CallFails, Reserve, VisibilityTimeout, Start, Fetch, NotFound, Insert, Refresh,
         RunPipeline, Commit, CommitRefused, Return, FetchFails, InsertFails, RefreshFails, LoadGraphFails,
         CommitFails, ReloadFails, Crash, Raise, End, endVars
<1>2. ASSUME ~Return(w) PROVE Reported' = Reported
  <2>1. \A r \in reports' : r.status \in {"succeeded", "failed"} => r \in reports
    BY <1>2, ReportFacts
  <2>2. {r \in reports' : r.status \in {"succeeded", "failed"}} =
            {r \in reports : r.status \in {"succeeded", "failed"}}
    BY <1>1, <2>1
  <2> QED BY <2>2 DEF Reported
<1>3. ASSUME Return(w)
      PROVE  Reported' = Reported \cup {[execution |-> execution[w], status |-> verdict[w]]}
  <2>1. reports' = reports \cup {[message |-> message[w], execution |-> execution[w], status |-> verdict[w]]}
    BY <1>3 DEF Return, End
  <2>2. verdict[w] \in {"succeeded", "failed"}
    BY <1>3, TaskTyped DEF Return, TaskOK
  <2> DEFINE settled == {r \in reports : r.status \in {"succeeded", "failed"}}
             new == [message |-> message[w], execution |-> execution[w], status |-> verdict[w]]
             Brief(S) == {[execution |-> r.execution, status |-> r.status] : r \in S}
  <2>3. settled' = settled \cup {new}
    BY <2>1, <2>2
  <2>4. Reported = Brief(settled) /\ Reported' = Brief(settled')
    BY DEF Reported
  <2>5. Brief(settled \cup {new}) = Brief(settled) \cup Brief({new})
    <3> HIDE DEF settled, new
    <3> QED OBVIOUS
  <2>6. Brief({new}) = {[execution |-> execution[w], status |-> verdict[w]]}
    OBVIOUS
  <2> HIDE DEF settled, new, Brief
  <2> QED BY <2>3, <2>4, <2>5, <2>6
<1> QED BY <1>2, <1>3

\* Every step is one of ExecutionRecords, or changes nothing of the records.
LEMMA RecordsStep ==
    ASSUME WorkerInv, RunsOnce, NEW w \in Worker, Step(w)
    PROVE  Records!RecordNext \/ UNCHANGED Records!recordVars
<1>a. /\ TasksOK /\ RowsOwned /\ VerdictsTell /\ ReportsFinal
      /\ rows \in [Execution -> Statuses] /\ DOMAIN rows = Execution
      /\ outcome \in [Execution -> {"none", "rejected", "node failed", "ok"}]
      /\ NoExecution \notin Execution
  BY WorkerAssumption DEF WorkerInv, WorkerTypeOK
<1>b. TaskOK(w)
  BY TaskTyped
<1>c. ASSUME execution[w] \in Execution PROVE ~Records!Told(execution[w])
  <2> SUFFICES ASSUME NEW t \in Reported, t.execution = execution[w] PROVE FALSE
    BY DEF Records!Told
  <2>1. PICK r \in reports : r.status \in {"succeeded", "failed"} /\ t = [execution |-> r.execution, status |-> r.status]
    BY DEF Reported
  <2>2. r.execution = execution[w]
    BY <2>1
  <2> QED BY <1>a, <2>1, <2>2 DEF ReportsFinal
<1> DEFINE e == execution[w]
<1>1. CASE Return(w)
  <2>1. UNCHANGED <<rows, outcome>> /\ e \in Execution /\ rows[e] = verdict[w]
        /\ verdict[w] \in {"succeeded", "failed"}
    BY <1>a, <1>b, <1>1 DEF Return, TaskOK, VerdictsTell, dbVars
  <2>2. Reported' = Reported \cup {[execution |-> e, status |-> rows[e]]}
    BY <1>1, <2>1, ReportedFacts
  <2>3. Records!Tell(e)
    BY <1>c, <2>1, <2>2 DEF Records!Tell, Records!Settled
  <2> QED BY <1>a, <2>1, <2>3 DEF Records!RecordNext
<1>2. CASE ~Return(w) /\ UNCHANGED <<rows, outcome>>
  <2>1. Reported' = Reported
    BY <1>2, ReportedFacts
  <2> QED BY <1>2, <2>1 DEF Records!recordVars
<1>3. CASE ~Return(w) /\ Inserts(w)
  <2>1. PICK x \in Execution : rows[x] = "absent" /\ rows' = [rows EXCEPT ![x] = "running"] /\ outcome' = outcome
    BY <1>3 DEF Inserts
  <2>2. Reported' = Reported
    BY <1>3, ReportedFacts
  <2>3. Records!Open(x)
    BY <2>1, <2>2 DEF Records!Open
  <2> QED BY <1>a, <2>3 DEF Records!RecordNext
<1>4. CASE RunPipeline(w)
  <2>1. /\ e \in Execution /\ rows[e] = "running" /\ outcome[e] = "none" /\ rows' = rows
        /\ \E result \in {"ok", "rejected", "node failed"} : outcome' = [outcome EXCEPT ![e] = result]
    BY <1>a, <1>b, <1>4 DEF RunPipeline, RunResult, TaskOK, VerdictsTell, RunsOnce
  <2>2. Reported' = Reported
    BY <1>4, ReportedFacts DEF RunPipeline, Return
  <2>3. Records!Run(e)
    BY <2>1, <2>2 DEF Records!Run
  <2> QED BY <1>a, <2>1, <2>3 DEF Records!RecordNext
<1>5. CASE Commits(w)
  <2>1. /\ e \in Execution /\ verdict[w] \in {"succeeded", "failed"}
        /\ outcome' = outcome /\ rows' = [rows EXCEPT ![e] = verdict[w]]
    BY <1>b, <1>5 DEF Commits, TaskOK
  <2>2. Reported' = Reported
    BY <1>5, ReportedFacts DEF Commits, Return
  <2>3. rows[e] \in {"running", "succeeded", "failed"}
    BY <1>a, <2>1 DEF RowsOwned, Statuses
  <2>4. verdict[w] = "succeeded" => rows[e] = "running" /\ outcome[e] = "ok"
    BY <1>a, <1>5 DEF Commits, RunsOnce, VerdictsTell, Tells
  <2>5. CASE rows[e] = "running"
    <3>1. Records!Settle(e)
      BY <2>1, <2>2, <2>4, <2>5 DEF Records!Settle, Records!Settled
    <3> QED BY <1>a, <2>1, <3>1 DEF Records!RecordNext
  <2>6. CASE rows[e] = "succeeded"
    <3>1. Records!Revise(e)
      BY <1>c, <2>1, <2>2, <2>4, <2>6 DEF Records!Revise
    <3> QED BY <1>a, <2>1, <3>1 DEF Records!RecordNext
  <2>7. CASE rows[e] = "failed"
    <3>1. rows' = rows
      BY <1>a, <2>1, <2>4, <2>7
    <3> QED BY <2>1, <2>2, <3>1 DEF Records!recordVars
  <2> QED BY <2>3, <2>5, <2>6, <2>7
<1>6. Runs(w) => RunPipeline(w) \/ UNCHANGED <<rows, outcome>>
  BY <1>a DEF Runs, Step, TaskStep, CallFails, Reserve, VisibilityTimeout, Start, Fetch, NotFound,
      Insert, Refresh, Commit, CommitRefused, Return, FetchFails, InsertFails, RefreshFails,
      LoadGraphFails, CommitFails, ReloadFails, Crash, dbVars
<1> QED BY <1>1, <1>2, <1>3, <1>4, <1>5, <1>6, DbFacts

\* The task (execute_pipeline_task) keeps what ExecutionRecords promises,
\* whatever calls fail, whichever processes die and whatever is redelivered.
THEOREM WorkerKeepsRecords == Spec => KeepsRecords
<1>1. Init => Records!RecordInit
  BY DEF Init, Records!RecordInit, Reported
<1>2. WorkerInv /\ RunsOnce /\ [Next]_vars => RunsOnce' /\ [Records!RecordNext]_(Records!recordVars)
  <2>1. ASSUME WorkerInv, RunsOnce, NEW w \in Worker, Step(w)
        PROVE  RunsOnce' /\ [Records!RecordNext]_(Records!recordVars)
    BY <2>1, RunsOnceStep, RecordsStep
  <2>2. ASSUME RunsOnce, UNCHANGED vars PROVE RunsOnce' /\ UNCHANGED Records!recordVars
    BY <2>2 DEF vars, dbVars, taskVars, endVars, RunsOnce, Records!recordVars, Reported
  <2> QED BY <2>1, <2>2 DEF Next, Step
<1> QED BY <1>1, <1>2, RunsOnceInit, WorkerInvariant, PTL DEF Spec, KeepsRecords, Records!RecordSpec

=============================================================================
