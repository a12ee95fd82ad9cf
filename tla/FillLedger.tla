----------------------------- MODULE FillLedger -----------------------------
(***************************************************************************)
(* What fill_history promises, without how it is kept: for every order the *)
(* shares on record never exceed the shares that were filled, none is ever *)
(* taken off the record, and in the end all of them are on it.             *)
(***************************************************************************)
EXTENDS Naturals

CONSTANTS
    Orders,      \* the orders of a trade date
    Size         \* shares of an order

VARIABLES
    filled,      \* the brokerage: shares of each order that were filled
    recorded     \* the database: shares of each order that are on record

vars == <<filled, recorded>>

Init ==
    /\ filled = [o \in Orders |-> 0]
    /\ recorded = [o \in Orders |-> 0]

Fill(o) ==
    /\ filled[o] < Size
    /\ filled' = [filled EXCEPT ![o] = @ + 1]
    /\ UNCHANGED recorded

Record(o) ==
    /\ \E n \in 1..Size :
          /\ recorded[o] + n <= filled[o]
          /\ recorded' = [recorded EXCEPT ![o] = @ + n]
    /\ UNCHANGED filled

Next == \E o \in Orders : Fill(o) \/ Record(o)

Spec == Init /\ [][Next]_vars

\* Every fill gets on record.
CaughtUp ==
    \A o \in Orders : \A n \in 1..Size : filled[o] >= n ~> recorded[o] >= n
=============================================================================
