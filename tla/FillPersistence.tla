--------------------------- MODULE FillPersistence ---------------------------
(***************************************************************************)
(* How fills get from the brokerage into fill_history and into a message:  *)
(* live_kis_monitor_state, persist_live_snapshot (scheduler_state.py),     *)
(* fill_records_from_monitor_rows (fill_persistence.py) and save_fills,    *)
(* pending_fill_notifications, mark_fill_notifications_sent                *)
(* (repositories.py).                                                      *)
(*                                                                         *)
(* The brokerage lists each order with the shares filled so far.  A poll   *)
(* compares that with the sum on record, saves the difference as a row and *)
(* sends a message about it.  Every database call is a transaction of its  *)
(* own, and any of them may raise; persist_live_snapshot then gives up.    *)
(* The pollers are the jobs of the scheduler, the monitor server and the   *)
(* command line; nothing serialises them.                                  *)
(***************************************************************************)
EXTENDS Naturals, FiniteSets

CONSTANTS
    Orders,        \* the orders of a trade date
    Size,          \* shares of an order
    Pollers,       \* who polls
    Timed,         \* the rows of the brokerage carry the time of the last fill
    MaxFailures    \* bound: database failures

ASSUME SizeAssumption == Size \in Nat \ {0}
ASSUME TimedAssumption == Timed \in BOOLEAN
ASSUME FailuresAssumption == MaxFailures \in Nat

\* A row of fill_history as _fill_identity_params identifies it.  All fills of
\* an order are at its limit price here.  The time is that of the last fill or,
\* for want of it, of the order; it tells fills apart as their count does.
Rows == [order : Orders, time : 0..Size, quantity : 1..Size]

VARIABLES
    filled,     \* the brokerage: ft_ccld_qty of each order
    rows,       \* fill_history
    sum,        \* SUM(quantity) of the rows of each order
    marked,     \* the rows with fill_notification_sent = 1
    told,       \* how often a message about a row was sent
    pc,         \* the step of each poller
    seen,       \* the poller's copy of the order list
    records,    \* the poller's new records
    left,       \* those it has yet to save, or to mark as sent
    failures    \* history: failures so far, for the bound

vars == <<filled, rows, sum, marked, told, pc, seen, records, left, failures>>
table == <<rows, sum, marked>>

PCs == {"idle", "read", "save", "send", "mark"}

TypeOK ==
    /\ filled \in [Orders -> 0..Size]
    /\ rows \subseteq Rows
    /\ sum \in [Orders -> Nat]
    /\ marked \subseteq Rows
    /\ told \in [Rows -> Nat]
    /\ pc \in [Pollers -> PCs]
    /\ seen \in [Pollers -> [Orders -> 0..Size]]
    /\ records \in [Pollers -> SUBSET Rows]
    /\ left \in [Pollers -> SUBSET Rows]
    /\ failures \in 0..MaxFailures

Init ==
    /\ filled = [o \in Orders |-> 0]
    /\ rows = {} /\ sum = [o \in Orders |-> 0] /\ marked = {}
    /\ told = [r \in Rows |-> 0]
    /\ pc = [p \in Pollers |-> "idle"]
    /\ seen = [p \in Pollers |-> [o \in Orders |-> 0]]
    /\ records = [p \in Pollers |-> {}]
    /\ left = [p \in Pollers |-> {}]
    /\ failures = 0

-----------------------------------------------------------------------------
\* The brokerage fills one more share of order o.
Fill(o) ==
    /\ filled[o] < Size
    /\ filled' = [filled EXCEPT ![o] = @ + 1]
    /\ UNCHANGED <<table, told, pc, seen, records, left, failures>>

Nothing == [o \in Orders |-> 0]

\* A poller goes on to a step with these records, or ends its poll.
Continue(p, step, recs, rest) ==
    /\ pc' = [pc EXCEPT ![p] = step]
    /\ records' = [records EXCEPT ![p] = recs]
    /\ left' = [left EXCEPT ![p] = rest]

End(p) == Continue(p, "idle", {}, {}) /\ seen' = [seen EXCEPT ![p] = Nothing]

\* mock_order_history.  If it raises, _safe_order_rows goes on with no rows,
\* and the poll has nothing to save.
Fetch(p) ==
    /\ pc[p] = "idle"
    /\ seen' = [seen EXCEPT ![p] = filled]
    /\ Continue(p, "read", {}, {})
    /\ UNCHANGED <<filled, table, told, failures>>

Mutant_Delta(p, o) == seen[p][o]       \* the row's cumulative quantity is saved

\* fill_records_from_monitor_rows: what the row shows beyond the sum on record
Delta(p, o) == IF seen[p][o] > sum[o] THEN seen[p][o] - sum[o] ELSE 0

Record(p, o, time) == [order |-> o, time |-> time, quantity |-> Delta(p, o)]

Behind(p) == {o \in Orders : Delta(p, o) > 0}

Mutant_NewRecords(p) ==                \* the time is no part of the identity
    {Record(p, o, 0) : o \in Behind(p)}

NewRecords(p) ==
    {Record(p, o, IF Timed THEN seen[p][o] ELSE 0) : o \in Behind(p)}

\* fill_cumulative_quantities, and the records that follow from it.
Read(p) ==
    /\ pc[p] = "read"
    /\ IF NewRecords(p) = {}
          THEN End(p)
          ELSE /\ Continue(p, "save", NewRecords(p), NewRecords(p))
               /\ UNCHANGED seen
    /\ UNCHANGED <<filled, table, told, failures>>

\* IF EXISTS (the same identity) UPDATE, which adds nothing, ELSE INSERT.
Insert(r) ==
    IF r \in rows
       THEN UNCHANGED <<rows, sum>>
       ELSE /\ rows' = rows \cup {r}
            /\ sum' = [sum EXCEPT ![r.order] = @ + r.quantity]

\* One record of save_fills.
Save(p) ==
    /\ pc[p] = "save"
    /\ \E r \in left[p] :
          /\ Insert(r)
          /\ Continue(p, IF left[p] = {r} THEN "send" ELSE "save",
                      records[p], left[p] \ {r})
    /\ UNCHANGED <<filled, marked, told, seen, failures>>

Mutant_Pending(p) == rows \ marked     \* whatever is not marked is told again

\* pending_fill_notifications: the records whose row is not marked
Pending(p) == {r \in records[p] : r \in rows /\ r \notin marked}

\* send_fill_notifications: some messages get through, and the caller learns
\* only how many; it marks the first so many of its list.
Send(p) ==
    /\ pc[p] = "send"
    /\ \E ok, first \in SUBSET Pending(p) :
          /\ Cardinality(ok) = Cardinality(first)
          /\ told' = [r \in Rows |-> IF r \in ok THEN told[r] + 1 ELSE told[r]]
          /\ IF first = {}
                THEN End(p)
                ELSE Continue(p, "mark", {}, first) /\ UNCHANGED seen
    /\ UNCHANGED <<filled, table, failures>>

\* One record of mark_fill_notifications_sent.
Mark(p) ==
    /\ pc[p] = "mark"
    /\ \E r \in left[p] :
          /\ marked' = marked \cup {r}
          /\ IF left[p] = {r}
                THEN End(p)
                ELSE Continue(p, "mark", {}, left[p] \ {r}) /\ UNCHANGED seen
    /\ UNCHANGED <<filled, rows, sum, told, failures>>

\* The database raises, or the poller's process dies: nothing is kept of the
\* poll but what it has committed.
Fail(p) ==
    /\ pc[p] # "idle"
    /\ failures < MaxFailures
    /\ failures' = failures + 1
    /\ End(p)
    /\ UNCHANGED <<filled, table, told>>

PollStep(p) == Fetch(p) \/ Read(p) \/ Save(p) \/ Send(p) \/ Mark(p)

Next ==
    \/ \E o \in Orders : Fill(o)
    \/ \E p \in Pollers : PollStep(p) \/ Fail(p)

\* The jobs poll every minute until the session and its settlement are over.
Spec == Init /\ [][Next]_vars
FairSpec == Spec /\ \A p \in Pollers : WF_vars(PollStep(p))

-----------------------------------------------------------------------------
(* Properties                                                              *)

\* A single poller keeps the ledger: what it adds to the record was filled,
\* whatever fails between its calls.
Ledger == INSTANCE FillLedger WITH recorded <- sum

KeepsLedger == Ledger!Spec

\* The same for any number of pollers, as a state predicate.
NeverOverRecorded == \A o \in Orders : sum[o] <= filled[o]

\* Every fill gets on record in the end, also one whose poll failed half way.
CatchesUp == Ledger!CaughtUp

\* No row is told of twice, and none that the database does not have.
ToldOnce == \A r \in Rows : told[r] <= IF r \in rows THEN 1 ELSE 0

\* The inductive invariant of the single poller: the shares it has yet to save
\* fit between the sum on record and its copy of the order list.
SeenWasFilled == \A p \in Pollers : \A o \in Orders : seen[p][o] <= filled[o]

LeftFits ==
    \A p \in Pollers : pc[p] = "save" =>
        /\ \A r \in left[p] : sum[r.order] + r.quantity <= seen[p][r.order]
        /\ \A r, s \in left[p] : r.order = s.order => r = s

IInv ==
    /\ TypeOK
    /\ SeenWasFilled
    /\ NeverOverRecorded
    /\ LeftFits
=============================================================================
