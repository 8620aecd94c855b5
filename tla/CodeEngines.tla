---------------------------- MODULE CodeEngines ----------------------------
(***************************************************************************)
(* CodeExecutor.execute (code_executor.py): code of a user run on a frame, *)
(* by one of four engines; every Exception becomes a failed output.        *)
(*                                                                         *)
(* Frames are objects: the caller's frame and the copies made of it are    *)
(* references into a heap, so that code which changes its frame in place   *)
(* is told apart from code that makes a new one.  Cells hold plain values: *)
(* an object in a cell would be shared by a frame and its copies.  What a  *)
(* condition of a filter means is left to CodeExecutor; a program of the   *)
(* other engines is what its execution does to the scope it runs in.       *)
(***************************************************************************)
EXTENDS Frames

CONSTANTS
    Rows,           \* the rows a frame may have
    Datasets,       \* frames the caller may pass, with a row at least
    Conditions,     \* conditions for the filter engine
    Programs,       \* programs: see Program
    Limits,         \* the limits asked for
    Accepts(_),     \* does the validator let a condition through
    Mask(_, _)      \* what evaluate_pandas makes of a condition and a row:
                    \* it is "kept" or "dropped", or the evaluation "fails"

\* How a piece of code ends.  It escapes when what it raises is no Exception,
\* as SystemExit, or an Exception that has no text: str(exc) raises again.
Endings == {"returns", "raises", "escapes"}

\* What a program does: it may change its frame in place, raise, delete df,
\* bind transform and df_out, and ends with a frame or with something else;
\* of a frame it has made up, the report may raise as well.
Program ==
    [inPlace : BOOLEAN, ending : Endings, deletesDf : BOOLEAN,
     binds : SUBSET {"transform", "df_out"}, yieldsFrame : BOOLEAN, reporting : Endings]

ASSUME EngineAssumption ==
    /\ \A d \in Datasets : d \in Seq(Rows) \ {<<>>}
    /\ Programs \subseteq Program
    /\ Limits \subseteq Int

Engines == {"ast_filter", "pandas", "pyspark", "sql", "duckdb"}

VARIABLES
    engine,     \* the engine asked for
    code,       \* the condition or program
    limit,      \* how many rows the caller wants to see
    passed,     \* the frame as it was passed
    heap,       \* reference -> frame; the caller's is "df"
    step,       \* where execute is
    result,     \* reference of result_df
    output      \* the ExecutionOutput

vars == <<engine, code, limit, passed, heap, step, result, output>>

NoOutput == [status |-> "none", rowCount |-> 0, records |-> <<>>, audited |-> "none"]

Init ==
    /\ engine \in Engines
    /\ code \in IF engine = "ast_filter" THEN Conditions ELSE Programs
    /\ limit \in Limits
    /\ passed \in Datasets
    /\ heap = [ref \in {"df"} |-> passed]
    /\ step = "dispatch"
    /\ result = "none"
    /\ output = NoOutput

\* DataFrame.copy, and every other object that is made.
New(h, ref, frame) == [r \in DOMAIN h \cup {ref} |-> IF r = ref THEN frame ELSE h[r]]

\* In place, a program drops the rows of the frame it was given.
Changed(h, ref) == IF code.inPlace THEN [h EXCEPT ![ref] = <<>>] ELSE h

Yield(ref) == step' = "report" /\ result' = ref

Raise == step' = "error" /\ result' = "none"

\* What no clause of execute catches ends the caller's request, too.
Escape == step' = "escaped" /\ result' = "none"

End(ending) == IF ending = "escapes" THEN Escape ELSE Raise

-----------------------------------------------------------------------------
(* The engines *)

ExecuteAstFilter ==
    /\ step = "dispatch"
    /\ engine = "ast_filter"
    /\ LET frame == heap["df"]
           fails == {i \in DOMAIN frame : Mask(code, frame[i]) = "fails"}
           kept == {i \in DOMAIN frame : Mask(code, frame[i]) = "kept"}
       IN  IF ~Accepts(code) \/ fails # {}
           THEN Raise /\ UNCHANGED heap
           ELSE /\ heap' = New(heap, "result", Taken(frame, kept))
                /\ Yield("result")
    /\ UNCHANGED <<engine, code, limit, passed, output>>

\* Deviation: the caller's frame itself is put into the scope.
ScopeShared(h) == h

\* The scope the code is run in holds a copy of the frame as df.
Scope(h) == New(h, "local", h["df"])

Local(h) == IF "local" \in DOMAIN h THEN "local" ELSE "df"

\* The scope's transform comes first and is called on a copy of its own,
\* then df_out, then df as the code has left it.
ExecutePandas ==
    /\ step = "dispatch"
    /\ engine = "pandas"
    /\ LET scope == Scope(heap)
           called == "transform" \in code.binds
           arg == IF called THEN New(scope, "argument", scope["df"]) ELSE scope
           ref == IF called THEN "argument" ELSE Local(scope)
       IN  /\ heap' = Changed(arg, ref)
           /\ IF code.ending # "returns" \/ ~code.yieldsFrame \/ (code.binds = {} /\ code.deletesDf)
              THEN End(code.ending)
              ELSE Yield(ref)
    /\ UNCHANGED <<engine, code, limit, passed, output>>

\* Spark frames are made from the caller's and never changed; the session may
\* be missing, and a plan fails when it is collected.
ExecutePyspark ==
    /\ step = "dispatch"
    /\ engine = "pyspark"
    /\ \/ Raise /\ UNCHANGED heap
       \/ code.ending = "escapes" /\ Escape /\ UNCHANGED heap
       \/ /\ code.ending = "returns"
          /\ code.yieldsFrame
          /\ code.binds # {} \/ ~code.deletesDf
          /\ heap' = New(heap, "result", IF code.inPlace THEN <<>> ELSE heap["df"])
          /\ Yield("result")
    /\ UNCHANGED <<engine, code, limit, passed, output>>

\* The frame is written to a table of a database made for this query; from
\* SQL nothing escapes.
ExecuteSql ==
    /\ step = "dispatch"
    /\ engine = "sql"
    /\ IF code.ending # "returns" \/ ~code.yieldsFrame
       THEN Raise /\ UNCHANGED heap
       ELSE heap' = New(heap, "result", heap["df"]) /\ Yield("result")
    /\ UNCHANGED <<engine, code, limit, passed, output>>

UnsupportedEngine ==
    /\ step = "dispatch"
    /\ engine \notin {"ast_filter", "pandas", "pyspark", "sql"}
    /\ Raise
    /\ UNCHANGED <<engine, code, limit, passed, heap, output>>

-----------------------------------------------------------------------------
(* The output *)

\* What the filter and SQL return is a frame of pandas' own making.
MadeUp == engine \in {"pandas", "pyspark"}

\* The rows are counted before they are cut; report and audit record agree.
Report ==
    /\ step = "report"
    /\ MadeUp => code.reporting = "returns"
    /\ output' = [status |-> "succeeded", rowCount |-> Len(heap[result]),
                  records |-> HeadRows(heap[result], limit), audited |-> "succeeded"]
    /\ step' = "done"
    /\ UNCHANGED <<engine, code, limit, passed, heap, result>>

\* The report is made within the try: head, the columns' types, the size, the
\* records are asked of a frame that may be anything.
ReportRaises ==
    /\ step = "report"
    /\ MadeUp
    /\ code.reporting # "returns"
    /\ End(code.reporting)
    /\ UNCHANGED <<engine, code, limit, passed, heap, output>>

\* Deviation: the exception is raised again.
ReraiseError ==
    /\ step = "error"
    /\ step' = "done"
    /\ UNCHANGED <<engine, code, limit, passed, heap, result, output>>

ReportError ==
    /\ step = "error"
    /\ output' = [NoOutput EXCEPT !.status = "failed", !.audited = "failed"]
    /\ step' = "done"
    /\ UNCHANGED <<engine, code, limit, passed, heap, result>>

Next ==
    \/ ExecuteAstFilter
    \/ ExecutePandas
    \/ ExecutePyspark
    \/ ExecuteSql
    \/ UnsupportedEngine
    \/ Report
    \/ ReportRaises
    \/ ReportError

Spec == Init /\ [][Next]_vars

-----------------------------------------------------------------------------
(***************************************************************************)
(* Properties                                                              *)
(***************************************************************************)

\* The variables keep their types, and a request that has ended left an output
\* and an audit record, which agree, unless code of the user escaped: a filter
\* and a query of SQL always leave them.
ExecutorTypeOK ==
    /\ engine \in Engines
    /\ DOMAIN heap \subseteq {"df", "local", "argument", "result"}
    /\ \A ref \in DOMAIN heap : heap[ref] \in Seq(Rows)
    /\ step \in {"dispatch", "report", "error", "escaped", "done"}
    /\ step = "report" => result \in DOMAIN heap
    /\ output.status \in {"none", "succeeded", "failed"}
    /\ output.audited = output.status
    /\ output.status # "none" <=> step = "done"
    /\ step = "escaped" => MadeUp /\ "escapes" \in {code.ending, code.reporting}

\* "Safely" or not, code works on copies: the caller's frame, which the
\* studio keeps as the dataset of all later requests, is as it was.
DatasetUntouched == heap["df"] = passed

=============================================================================
