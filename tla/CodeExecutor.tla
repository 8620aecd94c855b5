---------------------------- MODULE CodeExecutor ----------------------------
(***************************************************************************)
(* CodeExecutor.execute with the conditions of FilterExpr: CodeEngines     *)
(* whose Accepts is the validator's verdict, Valid, and whose Mask is that *)
(* of the pandas evaluator, MaskPandas.                                    *)
(***************************************************************************)
EXTENDS CodeEngines, FilterExpr

ASSUME ConditionAssumption ==
    /\ \A row \in Rows : DOMAIN row = DOMAIN Columns /\ \A c \in DOMAIN Columns :
         row[c] \in CASE Columns[c] = "Bool" -> {0, 1}
                      [] Columns[c] = "Int" -> Int
                      [] Columns[c] = "Float" -> Int \cup {Null}
    /\ Conditions \subseteq Exprs
    /\ \A c \in Conditions :
         /\ Accepts(c) = Valid(c)
         /\ Valid(c) => \A row \in Rows : Mask(c, row) = MaskPandas(c, row)

-----------------------------------------------------------------------------
(***************************************************************************)
(* Properties                                                              *)
(***************************************************************************)

HasNull(row) == \E c \in DOMAIN row : row[c] = Null

Kept(frame) == {i \in DOMAIN frame : MaskPandas(code, frame[i]) = "kept"}

\* A condition keeps the rows it is true for, in both engines, when nothing
\* is missing; with missing values the engines still agree on a condition
\* that negates nothing.  All rows are counted, however many are shown.
\* The negation of a literal is the exception that FilterNegates is about.
FilterMeans ==
    /\ step = "dispatch" /\ engine = "ast_filter" /\ IsCondition(code) /\ ~NegatesLiteral(code) =>
         \A i \in DOMAIN passed :
             LET row == passed[i]
                 pandas == MaskPandas(code, row)
                 spark == MaskSpark(code, row)
             IN  /\ ~HasNull(row) =>
                      /\ pandas = IF Means(code, row) THEN "kept" ELSE "dropped"
                      /\ spark = pandas
                 /\ Positive(code) => spark = pandas
    /\ step = "done" /\ engine = "ast_filter" /\ IsCondition(code) =>
         /\ output.status = "succeeded"
         /\ output.rowCount = Cardinality(Kept(passed))

\* The validator is the only check: what it lets through, neither evaluator
\* finds an unknown column or a syntax it does not know in, and what it
\* refuses is a failed output and not an exception of the request.
ValidationSuffices ==
    engine = "ast_filter" =>
        /\ Valid(code) => \A i \in DOMAIN passed :
             /\ EvalPandas(code, passed[i]) # Unsupported
             /\ EvalSpark(code, passed[i]) # Unsupported
        /\ step = "done" /\ ~Valid(code) => output.status = "failed"

\* "boolean operators, and unary negation" (ast_compiler.py): not means not.
FilterNegates ==
    engine = "ast_filter" /\ IsCondition(code) =>
        \A i \in DOMAIN passed :
            ~HasNull(passed[i]) =>
                (MaskPandas(code, passed[i]) = "kept" <=> Means(code, passed[i]))

=============================================================================
