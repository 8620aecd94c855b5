---------------------------- MODULE NodeSemantics ----------------------------
(***************************************************************************)
(* What the nodes of a pipeline do with their frames (nodes.py) and how    *)
(* the runner hands the frames over (the input routing of runner.py).      *)
(*                                                                         *)
(* A frame has columns, a set of names, and rows, a sequence.  A row is a  *)
(* model value: which rows a condition keeps, which ones it cannot be      *)
(* asked of, the join key and what becomes of a row whose columns change   *)
(* are constants.  A joined row keeps the identity of the row it was made  *)
(* for, and an outer join's rows are not sorted.                           *)
(***************************************************************************)
EXTENDS Frames

CONSTANTS
    NoPort,         \* target_port is None
    EmptyPort,      \* target_port is the empty string
    InputName,      \* the default names input_0, input_1, ...
    InvalidKey,     \* a key validate_and_scope_key refuses
    Column,         \* the columns a frame may have
    Suffixed,       \* those a join makes of columns that both its sides have
    ConditionColumns,   \* the columns a filter's condition names
    JoinColumns,    \* the columns a join is on
    Row,            \* the rows a frame may have
    KeptRows,       \* the rows a filter's condition holds for
    BrokenRows,     \* the rows with values that no comparison fits
    Projected,      \* a row after its columns were selected or dropped
    Padded,         \* a row after columns were added that it has no values for
    JoinValue       \* a row's value in the join columns

\* Rows are made of rows; no default name is one that the join looks for.
ASSUME NodeAssumption ==
    /\ \A r \in Row : Projected[r] \in Row /\ Padded[r] \in Row
    /\ Suffixed \in Column \ (ConditionColumns \cup JoinColumns)
    /\ \A i \in DOMAIN InputName : InputName[i] \notin {"left", "right"}
    /\ {NoPort, EmptyPort} \cap {"left", "right"} = {}

Kinds == {"input", "filter", "transform", "union", "join", "output"}

\* What build_runner makes nodes of: it refuses other kinds.  Nobody names the
\* columns a join makes up, and no renamed column is renamed again.
Built(node) ==
    /\ node.kind \in Kinds
    /\ node.select \subseteq Column \ {Suffixed}
    /\ node.drop \subseteq Column \ {Suffixed}
    /\ Range(node.rename) \subseteq Column \ {Suffixed}
    /\ DOMAIN node.rename \cap (Range(node.rename) \cup {Suffixed}) = {}

FrameSet == [columns : SUBSET Column, rows : Seq(Row)]

DataFrame(columns, rows) == [columns |-> columns, rows |-> rows]

Returned(f) == [ok |-> TRUE, frame |-> f]
Raised == [ok |-> FALSE, frame |-> <<>>]

Fits(f) == \A i \in DOMAIN f.rows : f.rows[i] \notin BrokenRows

-----------------------------------------------------------------------------
(***************************************************************************)
(* Routing.  As soon as one incoming edge names a port the frames travel   *)
(* in a dict, and of two edges with one name the later one's frame stays,  *)
(* at the earlier one's position.                                          *)
(***************************************************************************)
Keyed(ports) == \E i \in DOMAIN ports : ports[i] # NoPort

PortName(ports, i) ==
    IF ports[i] \in {NoPort, EmptyPort} THEN InputName[i] ELSE ports[i]

SameName(ports, i) == {j \in DOMAIN ports : PortName(ports, j) = PortName(ports, i)}

\* Deviation: only edges with a port get into the dict.
NamedPositions(ports) ==
    Taken(Positions(ports),
          {i \in DOMAIN ports : ports[i] # NoPort /\ i = Min(SameName(ports, i))})

DictPositions(ports) ==
    Taken(Positions(ports), {i \in DOMAIN ports : i = Min(SameName(ports, i))})

Route(ports, frames) ==
    IF Keyed(ports)
    THEN LET at == DictPositions(ports)
         IN  [names  |-> [p \in DOMAIN at |-> PortName(ports, at[p])],
              frames |-> [p \in DOMAIN at |-> frames[Max(SameName(ports, at[p]))]]]
    ELSE [names |-> ports, frames |-> frames]

-----------------------------------------------------------------------------
(***************************************************************************)
(* The nodes                                                               *)
(***************************************************************************)
ReadInput(inputs, key, store) ==
    IF inputs.frames = <<>> /\ key # InvalidKey /\ key \in DOMAIN store
    THEN Returned(store[key])
    ELSE Raised

Kept(rows) == Taken(rows, {i \in DOMAIN rows : rows[i] \in KeptRows})

\* The names are validated first, then a comparison may raise.
Filter(inputs) ==
    LET f == inputs.frames[1]
    IN  IF Len(inputs.frames) = 1 /\ ConditionColumns \subseteq f.columns /\ Fits(f)
        THEN Returned(DataFrame(f.columns, Kept(f.rows)))
        ELSE Raised

\* An empty list of columns to select or to drop is as good as none.  Renaming
\* a column that is not there does nothing.
Selected(node, columns) == IF node.select = {} THEN columns ELSE node.select

Renamed(node, columns) ==
    {IF c \in DOMAIN node.rename THEN node.rename[c] ELSE c : c \in columns}

BeforeDrop(node, columns) == Renamed(node, Selected(node, columns))

Projection(rows) == [i \in DOMAIN rows |-> Projected[rows[i]]]

Transform(node, inputs) ==
    LET f == inputs.frames[1]
    IN  IF /\ Len(inputs.frames) = 1
           /\ node.select \subseteq f.columns
           /\ node.drop \subseteq BeforeDrop(node, f.columns)
        THEN Returned(DataFrame(BeforeDrop(node, f.columns) \ node.drop, Projection(f.rows)))
        ELSE Raised

\* pd.concat: all columns of all frames.
Aligned(f, columns) ==
    [i \in DOMAIN f.rows |-> IF f.columns = columns THEN f.rows[i] ELSE Padded[f.rows[i]]]

Concat(fs) ==
    LET columns == UNION {fs[i].columns : i \in DOMAIN fs}
    IN  DataFrame(columns, FlattenSeq([i \in DOMAIN fs |-> Aligned(fs[i], columns)]))

Union(inputs) ==
    IF Len(inputs.frames) >= 2 THEN Returned(Concat(inputs.frames)) ELSE Raised

\* _extract_left_right: by name when both names are there, else by position.
Named(inputs, name) == {i \in DOMAIN inputs.names : inputs.names[i] = name}

BothNamed(inputs) == Named(inputs, "left") # {} /\ Named(inputs, "right") # {}

Sides(inputs) ==
    IF BothNamed(inputs)
    THEN <<inputs.frames[Min(Named(inputs, "left"))],
           inputs.frames[Min(Named(inputs, "right"))]>>
    ELSE IF Len(inputs.frames) = 2 THEN inputs.frames ELSE <<>>

Matches(r, rows) == Cardinality({j \in DOMAIN rows : JoinValue[rows[j]] = JoinValue[r]})

\* The rows of f, each once per match in g; "all" keeps those without one too.
Matched(f, g, all) ==
    FlattenSeq([i \in DOMAIN f |->
        LET m == Matches(f[i], g)
        IN  [j \in 1 .. (IF all /\ m = 0 THEN 1 ELSE m) |-> f[i]]])

Unmatched(f, g) == Taken(f, {i \in DOMAIN f : Matches(f[i], g) = 0})

MergedRows(f, g, how) ==
    CASE how = "inner" -> Matched(f, g, FALSE)
      [] how = "left"  -> Matched(f, g, TRUE)
      [] how = "right" -> Matched(g, f, TRUE)
      [] how = "outer" -> Matched(f, g, TRUE) \o Unmatched(g, f)

\* Columns of both sides that the join is not on get suffixes.
MergedColumns(l, r) ==
    LET both == (l \cap r) \ JoinColumns
    IN  ((l \cup r) \ both) \cup IF both = {} THEN {} ELSE {Suffixed}

Merge(l, r, how) ==
    DataFrame(MergedColumns(l.columns, r.columns), MergedRows(l.rows, r.rows, how))

\* The joins pd.merge knows.
MergeKinds == {"inner", "left", "right", "outer"}

Keyable(f) == JoinColumns \subseteq f.columns /\ Fits(f)

Join(inputs, how) ==
    LET sides == Sides(inputs)
    IN  IF sides # <<>> /\ Keyable(sides[1]) /\ Keyable(sides[2]) /\ how \in MergeKinds
        THEN Returned(Merge(sides[1], sides[2], how))
        ELSE Raised

WriteOutput(inputs, key) ==
    IF Len(inputs.frames) = 1 /\ key # InvalidKey
    THEN Returned(inputs.frames[1])
    ELSE Raised

\* Node.execute, dispatched on the kind build_runner gave the node.
Execute(node, inputs, store) ==
    CASE node.kind = "input"     -> ReadInput(inputs, node.key, store)
      [] node.kind = "filter"    -> Filter(inputs)
      [] node.kind = "transform" -> Transform(node, inputs)
      [] node.kind = "union"     -> Union(inputs)
      [] node.kind = "join"      -> Join(inputs, node.how)
      [] node.kind = "output"    -> WriteOutput(inputs, node.key)

\* Deviation: dict.setdefault instead of an assignment.
PutOnce(d, k, v) == [x \in DOMAIN d \cup {k} |-> IF x \in DOMAIN d THEN d[x] ELSE v]

\* The dict assignment d[k] = v.
Put(d, k, v) == [x \in DOMAIN d \cup {k} |-> IF x = k THEN v ELSE d[x]]

=============================================================================
