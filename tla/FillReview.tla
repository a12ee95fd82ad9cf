----------------------------- MODULE FillReview -----------------------------
(***************************************************************************)
(* What the strategy review makes of the rows of fill_history              *)
(* (tools/strategy_review_fill_normalization_core.py): the rows of one     *)
(* order, written as cumulative quantities by the older code, as the part  *)
(* that is new by the present one, or first the one and then the other,    *)
(* some of them twice, become one row with a method and a confidence; only *)
(* what is trusted enters the profit by which the strategy is judged       *)
(* (strategy_review_fill_pnl.py).                                          *)
(***************************************************************************)
EXTENDS Integers, Sequences, FiniteSets, FiniteSetsExt, SequencesExt

CONSTANTS
    Executions,   \* what the brokerage filled: sequences of [quantity, profit]
    MaxRepeated   \* bound: rows that were saved twice

ASSUME ReviewAssumption ==
    /\ Executions \subseteq Seq([quantity : Nat \ {0}, profit : Int]) \ {<<>>}
    /\ MaxRepeated \in Nat

VARIABLES
    execution,   \* the parts in which the order was filled
    fillRows,    \* its rows of fill_history in the order of created_at
    evidence,    \* filled quantities of the order in the order snapshots
    numbered,    \* the rows have the order number
    lineage,     \* the rows have ids
    reviewed     \* the normalized row

reviewVars == <<execution, fillRows, evidence, numbered, lineage, reviewed>>

Excluded == [method |-> "AMBIGUOUS_EXCLUDED", confidence |-> "NONE",
             quantity |-> 0, profit |-> 0]
NotReviewed == [Excluded EXCEPT !.method = "none"]

ReviewInit ==
    /\ execution = <<>> /\ fillRows = <<>> /\ evidence = {}
    /\ numbered = TRUE /\ lineage = TRUE /\ reviewed = NotReviewed

ReviewTypeOK ==
    /\ execution = <<>> \/ execution \in Executions
    /\ evidence \subseteq Nat /\ Cardinality(evidence) <= 2
    /\ reviewed.confidence \in {"NONE", "LOW", "MEDIUM", "HIGH"}

-----------------------------------------------------------------------------
Quantity(rows, some) == MapThenSumSet(LAMBDA i : rows[i].quantity, some)
Profit(rows, some) == MapThenSumSet(LAMBDA i : rows[i].profit, some)

\* The row of the i-th part, cumulative or of that part alone; what tells rows
\* of the same quantity apart is the time of the fill.
Recording(parts, i, cumulative) ==
    LET counted == IF cumulative THEN 1 .. i ELSE {i} IN
    [time |-> i, quantity |-> Quantity(parts, counted), profit |-> Profit(parts, counted)]

\* The parts in the order in which their rows were saved: each first after the
\* one before it, and some of them again at once or later.
Savings(parts) ==
    {saved \in UNION {[1 .. Len(parts) + repeated -> DOMAIN parts] : repeated \in 0 .. MaxRepeated} :
        /\ \A i \in DOMAIN parts : \E k \in DOMAIN saved : saved[k] = i
        /\ \A k \in DOMAIN saved : saved[k] = 1 \/ \E l \in 1 .. k - 1 : saved[l] = saved[k] - 1}

\* The sides, dates and tickers of one order agree.
OrderRecorded(parts, cumulatives) ==
    /\ execution = <<>> /\ execution' = parts
    /\ \E saved \in Savings(parts) :
          fillRows' = [k \in DOMAIN saved |-> Recording(parts, saved[k], saved[k] <= cumulatives)]
    /\ numbered' \in BOOLEAN /\ lineage' \in BOOLEAN
    \* _order_quantity_evidence: none, the last snapshot, or also an earlier one
    /\ LET filled == Quantity(parts, DOMAIN parts) IN
       evidence' \in {{}, {filled}, {filled, parts[1].quantity}}
    /\ UNCHANGED reviewed

-----------------------------------------------------------------------------
\* signature_rows: of equal rows the last stays.
LastOfEqual(rows) == {i \in DOMAIN rows : \A j \in DOMAIN rows : rows[j] = rows[i] => j <= i}
\* The number of a row among those that stay.
Place(rows, i) == Cardinality({j \in LastOfEqual(rows) : j <= i})
Distinct(rows) ==
    [n \in 1 .. Cardinality(LastOfEqual(rows)) |-> rows[CHOOSE i \in LastOfEqual(rows) : Place(rows, i) = n]]

Increasing(rows) == \A i \in 1 .. Len(rows) - 1 : rows[i].quantity < rows[i + 1].quantity
Decreasing(rows) == \A i \in 1 .. Len(rows) - 1 : rows[i].quantity > rows[i + 1].quantity

\* _selected_metrics
Selected(method, confidence, rows) ==
    [method |-> method, confidence |-> confidence,
     quantity |-> Quantity(rows, DOMAIN rows), profit |-> Profit(rows, DOMAIN rows)]

Mutant_SeveralRows(rows, filled) ==
    LET sum == Quantity(rows, DOMAIN rows)
        latest == Last(rows).quantity
    IN  CASE filled = {sum} /\ latest # sum -> Selected("DELTA_ROWS_SUMMED", "HIGH", rows)
          [] Increasing(rows) /\ sum # latest /\ filled \in {{}, {latest}} ->
                Selected("LEGACY_CUMULATIVE_LATEST", "HIGH", <<Last(rows)>>)
          [] filled = {} /\ Decreasing(rows) -> Selected("DELTA_ROWS_SUMMED", "MEDIUM", rows)
          [] OTHER -> Excluded
\* The last branch of _normalize_group: deltas, or cumulative snapshots.
SeveralRows(rows, filled) ==
    LET sum == Quantity(rows, DOMAIN rows)
        latest == Last(rows).quantity
    IN  CASE filled = {sum} /\ latest # sum -> Selected("DELTA_ROWS_SUMMED", "HIGH", rows)
          [] filled = {latest} /\ Increasing(rows) /\ sum # latest ->
                Selected("LEGACY_CUMULATIVE_LATEST", "HIGH", <<Last(rows)>>)
          [] filled = {} /\ Decreasing(rows) -> Selected("DELTA_ROWS_SUMMED", "MEDIUM", rows)
          [] OTHER -> Excluded

\* _normalize_group, for a known side and positive quantities
Normalized(rows) ==
    LET distinct == Distinct(rows) IN
    CASE ~lineage -> Excluded
      [] lineage /\ ~numbered ->
            IF Len(distinct) = 1 THEN Selected("NO_ORDER_NO_FALLBACK", "LOW", distinct)
            ELSE Excluded
      [] lineage /\ numbered /\ Cardinality(evidence) > 1 -> Excluded
      [] lineage /\ numbered /\ Cardinality(evidence) <= 1 ->
            IF Len(distinct) > 1 THEN SeveralRows(distinct, evidence)
            ELSE Selected(IF Len(rows) > 1 THEN "EXACT_DUPLICATE_COLLAPSED"
                          ELSE "SINGLE_ROW", "HIGH", distinct)

\* normalize_fill_groups: rows without an order number are grouped by what they
\* say, so that each distinct row is a group of its own.
Reviews ==
    /\ execution # <<>> /\ reviewed = NotReviewed
    /\ reviewed' \in
          IF numbered THEN {Normalized(fillRows)}
          ELSE {Normalized(SelectSeq(fillRows, LAMBDA other : other = fillRows[i])) :
                   i \in DOMAIN fillRows}
    /\ UNCHANGED <<execution, fillRows, evidence, numbered, lineage>>

ReviewNext ==
    \/ \E parts \in Executions : \E cumulatives \in 0 .. Len(parts) :
          OrderRecorded(parts, cumulatives)
    \/ Reviews

ReviewSpec == ReviewInit /\ [][ReviewNext]_reviewVars

\* _trusted_exclusion_reason
Trusted(row) == row.confidence = "HIGH"

-----------------------------------------------------------------------------
\* What is trusted is what was filled: whichever of the two codes, or both, kept
\* the order's rows, and whichever of them were saved again, at once or late, a
\* row that enters the trusted profit has the quantity and the profit of the
\* whole order; what cannot be told apart is left out.  Not among the inputs are
\* histories that lack a row, parts that agree to the second and the cent, and
\* an order snapshot older than the last fill as the only one.
TrustedIsFilled ==
    reviewed # NotReviewed /\ Trusted(reviewed) =>
        /\ reviewed.quantity = Quantity(execution, DOMAIN execution)
        /\ reviewed.profit = Profit(execution, DOMAIN execution)
=============================================================================
