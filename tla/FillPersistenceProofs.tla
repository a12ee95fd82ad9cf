------------------------ MODULE FillPersistenceProofs ------------------------
(***************************************************************************)
(* A single poller keeps the ledger, for any set of orders, any size, any  *)
(* failures, and whether or not the brokerage's rows carry a time.         *)
(***************************************************************************)
EXTENDS FillPersistence, TLAPS

Single == \A p, q \in Pollers : p = q

\* Nothing is on record and nothing under way at the start.
LEMMA InitIInv == Init => IInv
  BY SizeAssumption, FailuresAssumption
  DEF Init, IInv, TypeOK, PCs, SeenWasFilled, NeverOverRecorded, LeftFits

\* A poll that ends leaves nothing to fit.
LEMMA EndIInv ==
    ASSUME IInv, NEW p \in Pollers, End(p),
           UNCHANGED <<filled, rows, sum>>, marked' \subseteq Rows,
           told' \in [Rows -> Nat], failures' \in 0..MaxFailures
    PROVE  IInv'
<1> USE DEF IInv, TypeOK, PCs, SeenWasFilled, NeverOverRecorded, LeftFits
<1>1. TypeOK' /\ SeenWasFilled'
  BY SizeAssumption DEF End, Continue, Nothing
<1>2. NeverOverRecorded' /\ LeftFits'
  BY DEF End, Continue
<1> QED BY <1>1, <1>2

\* The new records fill the gap between the sum and what was seen.
LEMMA NewRecordsFit ==
    ASSUME IInv, NEW p \in Pollers
    PROVE  /\ NewRecords(p) \subseteq Rows
           /\ \A r \in NewRecords(p) : sum[r.order] + r.quantity = seen[p][r.order]
           /\ \A r, s \in NewRecords(p) : r.order = s.order => r = s
<1> DEFINE time(o) == IF Timed THEN seen[p][o] ELSE 0
<1>1. \A o \in Orders : seen[p][o] \in 0..Size /\ sum[o] \in Nat
  BY DEF IInv, TypeOK
<1>2. \A o \in Behind(p) : /\ o \in Orders
                           /\ Delta(p, o) \in 1..Size
                           /\ sum[o] + Delta(p, o) = seen[p][o]
                           /\ time(o) \in 0..Size
  BY <1>1, SizeAssumption DEF Behind, Delta
<1>3. NewRecords(p) = {Record(p, o, time(o)) : o \in Behind(p)}
  BY DEF NewRecords
<1>4. \A o : /\ Record(p, o, time(o)).order = o
             /\ Record(p, o, time(o)).quantity = Delta(p, o)
             /\ Record(p, o, time(o)).time = time(o)
  BY DEF Record
<1>5. \A o \in Behind(p) : Record(p, o, time(o)) \in Rows
  BY <1>2 DEF Record, Rows
<1> HIDE DEF time
<1> QED BY <1>2, <1>3, <1>4, <1>5

\* Reading the sums keeps the invariant.
LEMMA ReadIInv ==
    ASSUME IInv, NEW p \in Pollers, Read(p)
    PROVE  IInv'
<1>1. CASE NewRecords(p) = {}
  BY <1>1, EndIInv DEF Read, table, IInv, TypeOK
<1>2. CASE NewRecords(p) # {}
  <2>1. /\ UNCHANGED <<filled, rows, sum, marked, told, seen, failures>>
        /\ Continue(p, "save", NewRecords(p), NewRecords(p))
    BY <1>2 DEF Read, table
  <2>2. TypeOK'
    BY <2>1, NewRecordsFit DEF Continue, IInv, TypeOK, PCs
  <2>3. SeenWasFilled' /\ NeverOverRecorded'
    BY <2>1 DEF IInv, SeenWasFilled, NeverOverRecorded
  <2>4. LeftFits'
    <3>1. ASSUME NEW q \in Pollers, pc'[q] = "save"
          PROVE  /\ \A r \in left'[q] : sum[r.order] + r.quantity <= seen[q][r.order]
                 /\ \A r, s \in left'[q] : r.order = s.order => r = s
      <4>1. CASE q = p
        <5>1. left'[q] = NewRecords(p)
          BY <2>1, <4>1 DEF Continue, IInv, TypeOK
        <5>2. \A r \in NewRecords(p) : seen[p][r.order] \in Nat
          BY NewRecordsFit, SizeAssumption DEF Rows, IInv, TypeOK
        <5> QED BY <4>1, <5>1, <5>2, NewRecordsFit
      <4>2. CASE q # p
        BY <2>1, <3>1, <4>2 DEF Continue, IInv, TypeOK, LeftFits
      <4> QED BY <4>1, <4>2
    <3> QED BY <2>1, <3>1 DEF LeftFits
  <2> QED BY <2>2, <2>3, <2>4 DEF IInv
<1> QED BY <1>1, <1>2

\* A record that is saved brings the sum no further than what was filled.
LEMMA SaveFits ==
    ASSUME IInv, NEW p \in Pollers, pc[p] = "save", NEW r \in left[p]
    PROVE  /\ r \in Rows /\ r.order \in Orders /\ r.quantity \in 1..Size
           /\ sum[r.order] \in Nat
           /\ sum[r.order] + r.quantity <= filled[r.order]
<1>1. r \in Rows
  BY DEF IInv, TypeOK
<1>2. r.order \in Orders /\ r.quantity \in 1..Size
  BY <1>1 DEF Rows
<1>3. /\ sum[r.order] \in Nat /\ filled[r.order] \in Nat /\ seen[p][r.order] \in Nat
      /\ sum[r.order] + r.quantity <= seen[p][r.order]
      /\ seen[p][r.order] <= filled[r.order]
  BY <1>2, SizeAssumption DEF IInv, TypeOK, LeftFits, SeenWasFilled
<1> QED BY <1>1, <1>2, <1>3

\* Saving keeps the invariant if nobody else polls.
LEMMA SaveIInv ==
    ASSUME Single, IInv, NEW p \in Pollers, Save(p)
    PROVE  IInv'
<1>1. PICK r \in left[p] :
          /\ Insert(r)
          /\ Continue(p, IF left[p] = {r} THEN "send" ELSE "save",
                      records[p], left[p] \ {r})
  BY DEF Save
<1>2. pc[p] = "save" /\ UNCHANGED <<filled, marked, told, seen, failures>>
  BY DEF Save
<1>3. /\ r \in Rows /\ r.order \in Orders /\ r.quantity \in 1..Size
      /\ sum[r.order] \in Nat
      /\ sum[r.order] + r.quantity <= filled[r.order]
  BY <1>2, SaveFits
<1>4. /\ sum' \in [Orders -> Nat]
      /\ \A o \in Orders : o # r.order => sum'[o] = sum[o]
      /\ sum'[r.order] \in {sum[r.order], sum[r.order] + r.quantity}
      /\ rows \subseteq rows' /\ rows' \subseteq Rows
  BY <1>1, <1>3 DEF Insert, IInv, TypeOK
<1>5. TypeOK'
  BY <1>1, <1>2, <1>3, <1>4 DEF Continue, IInv, TypeOK, PCs
<1>6. SeenWasFilled'
  BY <1>2 DEF IInv, SeenWasFilled
<1>7. NeverOverRecorded'
  BY <1>2, <1>3, <1>4 DEF IInv, NeverOverRecorded
<1>8. LeftFits'
  <2>1. ASSUME NEW q \in Pollers, pc'[q] = "save"
        PROVE  /\ \A s \in left'[q] : sum'[s.order] + s.quantity <= seen[q][s.order]
               /\ \A s, t \in left'[q] : s.order = t.order => s = t
    <3>1. q = p /\ left'[q] = left[p] \ {r}
      BY <1>1 DEF Single, Continue, IInv, TypeOK
    <3>2. /\ \A s \in left[p] : sum[s.order] + s.quantity <= seen[p][s.order]
          /\ \A s, t \in left[p] : s.order = t.order => s = t
      BY <1>2 DEF IInv, LeftFits
    <3>3. \A s \in left[p] \ {r} : s.order \in Orders /\ s.order # r.order
      BY <3>2 DEF IInv, TypeOK, Rows
    <3>4. \A s \in left[p] \ {r} : sum'[s.order] = sum[s.order]
      BY <1>4, <3>3
    <3> QED BY <3>1, <3>2, <3>4
  <2> QED BY <1>2, <2>1 DEF LeftFits
<1> QED BY <1>5, <1>6, <1>7, <1>8 DEF IInv

\* The brokerage's step: what was seen and recorded stays below.
LEMMA FillIInv ==
    ASSUME IInv, NEW o \in Orders, Fill(o)
    PROVE  IInv'
<1>1. /\ filled' \in [Orders -> 0..Size]
      /\ \A x \in Orders : filled[x] <= filled'[x]
  BY SizeAssumption DEF Fill, IInv, TypeOK
<1>2. TypeOK' /\ LeftFits'
  BY <1>1 DEF Fill, table, IInv, TypeOK, LeftFits
<1>3. SeenWasFilled'
  <2>1. \A q \in Pollers, x \in Orders :
            /\ seen'[q][x] = seen[q][x] /\ seen[q][x] <= filled[x]
            /\ seen[q][x] \in Nat /\ filled[x] \in Nat /\ filled'[x] \in Nat
    BY <1>1, SizeAssumption DEF Fill, IInv, TypeOK, SeenWasFilled
  <2> QED BY <1>1, <2>1 DEF SeenWasFilled
<1>4. NeverOverRecorded'
  <2>1. \A x \in Orders :
            /\ sum'[x] = sum[x] /\ sum[x] <= filled[x]
            /\ sum[x] \in Nat /\ filled[x] \in Nat /\ filled'[x] \in Nat
    BY <1>1, SizeAssumption DEF Fill, table, IInv, TypeOK, NeverOverRecorded
  <2> QED BY <1>1, <2>1 DEF NeverOverRecorded
<1> QED BY <1>2, <1>3, <1>4 DEF IInv

\* The other steps of a poll touch neither the sums nor what is yet to be saved.
LEMMA OtherStepIInv ==
    ASSUME IInv, NEW p \in Pollers, Fetch(p) \/ Send(p) \/ Mark(p) \/ Fail(p)
    PROVE  IInv'
<1>1. CASE Fetch(p)
  <2>1. /\ TypeOK' /\ NeverOverRecorded' /\ LeftFits'
    BY <1>1 DEF Fetch, Continue, table, IInv, TypeOK, PCs, NeverOverRecorded, LeftFits
  <2>2. SeenWasFilled'
    <3>1. \A q \in Pollers : seen'[q] = filled \/ seen'[q] = seen[q]
      BY <1>1 DEF Fetch, IInv, TypeOK
    <3>2. \A x \in Orders : filled[x] \in Nat /\ filled'[x] = filled[x]
      BY <1>1, SizeAssumption DEF Fetch, IInv, TypeOK
    <3> QED BY <3>1, <3>2 DEF IInv, SeenWasFilled
  <2> QED BY <2>1, <2>2 DEF IInv
<1>2. CASE Send(p)
  <2>1. PICK ok, first \in SUBSET Pending(p) :
            /\ told' = [r \in Rows |-> IF r \in ok THEN told[r] + 1 ELSE told[r]]
            /\ IF first = {}
                  THEN End(p)
                  ELSE Continue(p, "mark", {}, first) /\ UNCHANGED seen
    BY <1>2 DEF Send
  <2>2. UNCHANGED <<filled, rows, sum, marked, failures>>
    BY <1>2 DEF Send, table
  <2>3. told' \in [Rows -> Nat] /\ first \subseteq Rows
    BY <2>1 DEF IInv, TypeOK, Pending
  <2>4. CASE first = {}
    BY <2>1, <2>2, <2>3, <2>4, EndIInv DEF IInv, TypeOK
  <2>5. CASE first # {}
    BY <2>1, <2>2, <2>3, <2>5
    DEF Continue, IInv, TypeOK, PCs, SeenWasFilled, NeverOverRecorded, LeftFits
  <2> QED BY <2>4, <2>5
<1>3. CASE Mark(p)
  <2>1. PICK r \in left[p] :
            /\ marked' = marked \cup {r}
            /\ IF left[p] = {r}
                  THEN End(p)
                  ELSE Continue(p, "mark", {}, left[p] \ {r}) /\ UNCHANGED seen
    BY <1>3 DEF Mark
  <2>2. UNCHANGED <<filled, rows, sum, told, failures>>
    BY <1>3 DEF Mark
  <2>3. marked' \subseteq Rows /\ left[p] \ {r} \subseteq Rows
    BY <2>1 DEF IInv, TypeOK
  <2>4. CASE left[p] = {r}
    BY <2>1, <2>2, <2>3, <2>4, EndIInv DEF IInv, TypeOK
  <2>5. CASE left[p] # {r}
    BY <2>1, <2>2, <2>3, <2>5
    DEF Continue, IInv, TypeOK, PCs, SeenWasFilled, NeverOverRecorded, LeftFits
  <2> QED BY <2>4, <2>5
<1>4. CASE Fail(p)
  BY <1>4, EndIInv, FailuresAssumption DEF Fail, table, IInv, TypeOK
<1> QED BY <1>1, <1>2, <1>3, <1>4

LEMMA NextIInv ==
    ASSUME Single, IInv, [Next]_vars
    PROVE  IInv'
<1>1. ASSUME NEW o \in Orders, Fill(o) PROVE IInv'
  BY <1>1, FillIInv
<1>2. ASSUME NEW p \in Pollers, PollStep(p) \/ Fail(p) PROVE IInv'
  BY <1>2, ReadIInv, SaveIInv, OtherStepIInv DEF PollStep
<1>3. CASE UNCHANGED vars
  BY <1>3 DEF vars, IInv, TypeOK, SeenWasFilled, NeverOverRecorded, LeftFits
<1> QED BY <1>1, <1>2, <1>3 DEF Next

\* With one poller, what is under way always fits what was filled.
THEOREM Inductive ==
    ASSUME Single
    PROVE  Spec => []IInv
<1>1. IInv /\ [Next]_vars => IInv'
  BY NextIInv
<1> QED BY <1>1, InitIInv, PTL DEF Spec

\* With one poller the database never has more shares of an order on record
\* than were filled.
THEOREM NeverOverRecordedHolds ==
    ASSUME Single
    PROVE  Spec => []NeverOverRecorded
<1>1. IInv => NeverOverRecorded
  BY DEF IInv
<1> QED BY <1>1, Inductive, PTL

\* Every step of a single poller, whatever fails, is a step of the ledger or
\* leaves the ledger alone.
THEOREM KeepsLedgerHolds ==
    ASSUME Single
    PROVE  Spec => KeepsLedger
<1>1. Init => Ledger!Init
  BY DEF Init, Ledger!Init
<1>2. ASSUME IInv, [Next]_vars PROVE [Ledger!Next]_<<filled, sum>>
  <2>1. ASSUME NEW o \in Orders, Fill(o) PROVE Ledger!Fill(o)
    BY <2>1 DEF Fill, table, Ledger!Fill
  <2>2. ASSUME NEW p \in Pollers, Save(p)
        PROVE  (\E o \in Orders : Ledger!Record(o)) \/ UNCHANGED <<filled, sum>>
    <3>1. PICK r \in left[p] : Insert(r)
      BY <2>2 DEF Save
    <3>2. /\ r.order \in Orders /\ r.quantity \in 1..Size
          /\ sum[r.order] + r.quantity <= filled[r.order]
      BY <2>2, <1>2, SaveFits DEF Save
    <3>3. filled' = filled
      BY <2>2 DEF Save
    <3>4. CASE r \in rows
      BY <3>1, <3>3, <3>4 DEF Insert
    <3>5. CASE r \notin rows
      <4>1. sum' = [sum EXCEPT ![r.order] = @ + r.quantity]
        BY <3>1, <3>5 DEF Insert
      <4>2. Ledger!Record(r.order)
        BY <3>2, <3>3, <4>1 DEF Ledger!Record
      <4> QED BY <3>2, <4>2
    <3> QED BY <3>4, <3>5
  <2>3. ASSUME NEW p \in Pollers,
               Fetch(p) \/ Read(p) \/ Send(p) \/ Mark(p) \/ Fail(p)
        PROVE  UNCHANGED <<filled, sum>>
    BY <2>3 DEF Fetch, Read, Send, Mark, Fail, table
  <2>4. CASE UNCHANGED vars
    BY <2>4 DEF vars, table
  <2> QED BY <1>2, <2>1, <2>2, <2>3, <2>4 DEF Next, PollStep, Ledger!Next
<1> QED BY <1>1, <1>2, Inductive, PTL
        DEF Spec, KeepsLedger, Ledger!Spec, Ledger!vars

-----------------------------------------------------------------------------
(* No message is sent twice if the rows carry the time of the last fill: a *)
(* record that is saved is then new to the table, and so to the reader.    *)

\* A row's time is a number of shares that is on record.
RowsPast == \A r \in rows : r.time <= sum[r.order]

\* A record that is yet to be saved is of the shares just beyond.
TimesFit ==
    \A p \in Pollers : pc[p] = "save" =>
        \A r \in left[p] : r.time = sum[r.order] + r.quantity

\* Of the records of a poll no message was sent until its own.
NotYetTold ==
    \A p \in Pollers : pc[p] \in {"save", "send"} =>
        \A r \in records[p] : told[r] = 0

TellInv == IInv /\ RowsPast /\ TimesFit /\ NotYetTold /\ ToldOnce

\* A row that is new by its time is not on record, and nobody was told of it.
LEMMA NewIsUntold ==
    ASSUME TellInv, NEW r \in Rows, r.time > sum[r.order]
    PROVE  r \notin rows /\ told[r] = 0
<1>1. /\ r.order \in Orders /\ r.time \in Nat
      /\ sum[r.order] \in Nat /\ told[r] \in Nat
  <2>1. r.order \in Orders /\ r.time \in 0..Size
    BY DEF Rows
  <2>2. sum \in [Orders -> Nat] /\ told \in [Rows -> Nat]
    BY SizeAssumption DEF TellInv, IInv, TypeOK
  <2> QED BY <2>1, <2>2
<1>2. r \notin rows
  BY <1>1 DEF TellInv, RowsPast
<1> QED BY <1>1, <1>2 DEF TellInv, ToldOnce

\* Reading the sums makes records that nobody was told of.
LEMMA ReadTellInv ==
    ASSUME Timed, TellInv, NEW p \in Pollers, Read(p)
    PROVE  TellInv'
<1>1. IInv'
  BY ReadIInv DEF TellInv
<1>2. UNCHANGED <<rows, sum, told>> /\ RowsPast' /\ ToldOnce'
  BY DEF Read, table, TellInv, RowsPast, ToldOnce
<1>3. \/ Continue(p, "idle", {}, {})
      \/ Continue(p, "save", NewRecords(p), NewRecords(p))
  BY DEF Read, End
<1>4. \A r \in NewRecords(p) : r.time = seen[p][r.order]
  BY DEF NewRecords, Record
<1>5. ASSUME NEW r \in NewRecords(p)
      PROVE  r.time = sum[r.order] + r.quantity /\ told[r] = 0
  <2>1. r \in Rows /\ r.time = sum[r.order] + r.quantity
    BY <1>4, NewRecordsFit DEF TellInv
  <2>2. r.time > sum[r.order]
    BY <2>1, SizeAssumption DEF Rows, TellInv, IInv, TypeOK
  <2> QED BY <2>1, <2>2, NewIsUntold
<1>6. TimesFit' /\ NotYetTold'
  BY <1>2, <1>3, <1>5 DEF Continue, TellInv, TimesFit, NotYetTold, IInv, TypeOK
<1> QED BY <1>1, <1>2, <1>6 DEF TellInv

\* A record that is saved becomes a row, and its time is the new sum.
LEMMA SaveTellInv ==
    ASSUME Single, TellInv, NEW p \in Pollers, Save(p)
    PROVE  TellInv'
<1>1. IInv'
  BY SaveIInv DEF TellInv
<1>2. PICK r \in left[p] :
          /\ Insert(r)
          /\ Continue(p, IF left[p] = {r} THEN "send" ELSE "save",
                      records[p], left[p] \ {r})
  BY DEF Save
<1>3. pc[p] = "save" /\ told' = told
  BY DEF Save
<1>4. /\ r \in Rows /\ r.order \in Orders /\ r.quantity \in 1..Size
      /\ sum[r.order] \in Nat /\ r.time = sum[r.order] + r.quantity
  BY <1>3, SaveFits DEF TellInv, TimesFit
<1>5. r \notin rows
  BY <1>4, SizeAssumption, NewIsUntold
<1>6. /\ rows' = rows \cup {r} /\ sum'[r.order] = r.time
      /\ \A o \in Orders : o # r.order => sum'[o] = sum[o]
  BY <1>2, <1>4, <1>5 DEF Insert, TellInv, IInv, TypeOK
<1>7. RowsPast'
  <2>1. \A s \in rows : s.order \in Orders /\ s.time \in Nat /\ s.time <= sum[s.order]
    BY SizeAssumption DEF TellInv, RowsPast, IInv, TypeOK, Rows
  <2>2. r.time \in Nat /\ sum[r.order] <= r.time
    BY <1>4, SizeAssumption
  <2> QED BY <1>4, <1>6, <2>1, <2>2 DEF RowsPast
<1>8. TimesFit'
  <2>1. ASSUME NEW q \in Pollers, pc'[q] = "save", NEW s \in left'[q]
        PROVE  s.time = sum'[s.order] + s.quantity
    <3>1. q = p /\ s \in left[p] \ {r}
      BY <1>2, <2>1 DEF Single, Continue, TellInv, IInv, TypeOK
    <3>2. s.order \in Orders /\ s.order # r.order
      BY <1>3, <3>1 DEF TellInv, IInv, TypeOK, LeftFits, Rows
    <3> QED BY <1>3, <1>6, <3>1, <3>2 DEF TellInv, TimesFit
  <2> QED BY <2>1 DEF TimesFit
<1>9. NotYetTold'
  BY <1>2, <1>3 DEF Continue, TellInv, NotYetTold, IInv, TypeOK
<1>10. ToldOnce'
  BY <1>3, <1>6, SizeAssumption DEF TellInv, ToldOnce, IInv, TypeOK
<1> QED BY <1>1, <1>7, <1>8, <1>9, <1>10 DEF TellInv

\* A message is about rows of the poll that nobody was told of.
LEMMA SendTellInv ==
    ASSUME Single, TellInv, NEW p \in Pollers, Send(p)
    PROVE  TellInv'
<1>1. IInv'
  BY OtherStepIInv DEF TellInv
<1>2. PICK ok, first \in SUBSET Pending(p) :
          /\ told' = [r \in Rows |-> IF r \in ok THEN told[r] + 1 ELSE told[r]]
          /\ IF first = {}
                THEN End(p)
                ELSE Continue(p, "mark", {}, first) /\ UNCHANGED seen
  BY DEF Send
<1>3. pc[p] = "send" /\ rows' = rows /\ sum' = sum
  BY DEF Send, table
<1>4. \A r \in ok : r \in rows /\ told[r] = 0
  BY <1>2, <1>3 DEF Pending, TellInv, NotYetTold
<1>5. ToldOnce'
  BY <1>2, <1>3, <1>4 DEF TellInv, ToldOnce, IInv, TypeOK
<1>6. pc'[p] \in {"idle", "mark"} /\ \A q \in Pollers : q = p
  BY <1>2 DEF Single, End, Continue, TellInv, IInv, TypeOK
<1>7. RowsPast' /\ TimesFit' /\ NotYetTold'
  BY <1>3, <1>6 DEF TellInv, RowsPast, TimesFit, NotYetTold
<1> QED BY <1>1, <1>5, <1>7 DEF TellInv

\* All other steps leave the rows and the messages alone.
LEMMA OtherStepTellInv ==
    ASSUME Single, TellInv, UNCHANGED vars \/ (\E o \in Orders : Fill(o))
           \/ (\E p \in Pollers : Fetch(p) \/ Mark(p) \/ Fail(p))
    PROVE  TellInv'
<1>1. IInv'
  BY NextIInv DEF TellInv, Next, PollStep
<1>2. UNCHANGED <<rows, sum, told>>
  BY DEF vars, table, Fill, Fetch, Mark, Fail
<1>3. RowsPast' /\ ToldOnce'
  BY <1>2 DEF TellInv, RowsPast, ToldOnce
<1>4. \/ UNCHANGED <<pc, records, left>>
      \/ \E p \in Pollers : pc'[p] \in {"idle", "read", "mark"}
  BY DEF vars, Fill, Fetch, Mark, Fail, End, Continue, TellInv, IInv, TypeOK
<1>5. TimesFit' /\ NotYetTold'
  BY <1>2, <1>4 DEF Single, TellInv, TimesFit, NotYetTold
<1> QED BY <1>1, <1>3, <1>5 DEF TellInv

\* With one poller, and rows that carry the time of the last fill, nobody is told
\* of a fill twice, or of one that the database does not have, whatever fails.
THEOREM ToldOnceHolds ==
    ASSUME Single, Timed
    PROVE  Spec => []ToldOnce
<1>1. Init => TellInv
  BY InitIInv DEF Init, TellInv, RowsPast, TimesFit, NotYetTold, ToldOnce
<1>2. TellInv /\ [Next]_vars => TellInv'
  BY ReadTellInv, SaveTellInv, SendTellInv, OtherStepTellInv DEF Next, PollStep
<1>3. TellInv => ToldOnce
  BY DEF TellInv
<1> QED BY <1>1, <1>2, <1>3, PTL DEF Spec
=============================================================================
