------------------------------- MODULE Frames -------------------------------
(***************************************************************************)
(* Frames are sequences of rows; what pandas and the loops of the engine   *)
(* make of a sequence, whatever its elements are.                          *)
(***************************************************************************)
EXTENDS Integers, Sequences, FiniteSets, SequencesExt

\* What a sequence has at the positions in S, as a loop with a condition
\* collects it.
Taken(s, S) == FlattenSeq([i \in DOMAIN s |-> IF i \in S THEN <<s[i]>> ELSE <<>>])

Positions(s) == [i \in DOMAIN s |-> i]

\* DataFrame.head: a negative argument drops rows from the end.
HeadRows(f, n) ==
    LET wantedRows == IF n >= 0 THEN n ELSE Len(f) + n
    IN  SubSeq(f, 1, Min({Len(f), wantedRows}))

=============================================================================
