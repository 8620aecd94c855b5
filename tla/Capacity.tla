------------------------------ MODULE Capacity ------------------------------
(***************************************************************************)
(* Which compute tier a workload is sent to and what it is charged         *)
(* (fabric_capacity.py).  Rows are counted, memory is in MB, durations are *)
(* in milliseconds, and capacity units in millionths, all whole numbers.   *)
(* A report rounds its units to 5 or 3 decimals, half a unit off at most.  *)
(***************************************************************************)
EXTENDS Integers

CONSTANTS
    RowThreshold,       \* row_threshold of the router, 50000 by default
    MemoryCeiling       \* memory_ceiling_mb, 1024 by default

\* From 2500 MB on a megabyte-second of Tier 0 costs more than one of Spark.
ASSUME CapacityAssumption ==
    /\ RowThreshold \in Nat
    /\ MemoryCeiling \in 0 .. 2499

Tier0 == "TIER_0_EMBEDDED"
Tier1 == "TIER_1_SPARK"

\* FabricCapacityRouter.evaluate_tier.
EvaluateTier(preferred, rows, mb) ==
    IF preferred # "pyspark" /\ rows < RowThreshold /\ mb < MemoryCeiling
    THEN Tier0 ELSE Tier1

\* validate_resource_bounds raises no MemoryError.
WithinBounds(mb) == mb <= 2 * MemoryCeiling

Larger(a, b) == IF a < b THEN b ELSE a

\* A duration of nothing is charged as a millisecond.
Charged(ms) == Larger(ms, 1)

\* 0.01 CU per second, and for every 10 MB above the first.
EmbeddedUnits(mb, ms) == Charged(ms) * Larger(10, mb)

\* A cluster is there for a second at least.
SparkEquivalent(ms) == 2500 * Larger(1000, Charged(ms))

RoundedTo(reported, exact, halfUnit) ==
    exact - halfUnit <= reported /\ reported <= exact + halfUnit

\* The two numbers a report for Tier 0 may show.
ReportsTier0(units, equivalent, mb, ms) ==
    /\ RoundedTo(units, EmbeddedUnits(mb, ms), 5)
    /\ RoundedTo(equivalent, SparkEquivalent(ms), 500)

=============================================================================
