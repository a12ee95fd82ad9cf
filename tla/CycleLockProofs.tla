-------------------------- MODULE CycleLockProofs --------------------------
(***************************************************************************)
(* Proofs about CycleLock for every set of cycles and every bound: the     *)
(* invariant IInv is inductive, and the two safety properties of the       *)
(* module follow from it.                                                  *)
(***************************************************************************)
EXTENDS CycleLock, TLAPS

USE CyclesAssumption, DateAssumption, FreeAssumption

\* The scheduler starts with an open gate, a free lock and idle jobs.
LEMMA InitIInv == Init => IInv
  <1> SUFFICES ASSUME Init PROVE IInv
    OBVIOUS
  <1>1. Closer \in Jobs /\ Cycles \subseteq Jobs
    BY DEF Jobs
  <1>2. TypeOK
    <2>1. pc \in [Jobs -> PCs]
      BY DEF Init, PCs
    <2>2. today \in Nat \ {0} /\ closeDate \in Nat
      BY DEF Init, NoDate
    <2>3. session \in Sessions /\ lock \in Jobs \cup {Free} /\ shut \in BOOLEAN
      BY DEF Init
    <2> QED BY <2>1, <2>2, <2>3 DEF TypeOK
  <1>3. CloserPC /\ CyclePC
    BY <1>1 DEF Init, CloserPC, CyclePC
  <1>4. LockHeld
    BY DEF Init, LockHeld, Holding
  <1>5. GateShut /\ CloseShutsGate
    BY <1>1 DEF Init, GateShut, CloseShutsGate
  <1> QED BY <1>2, <1>3, <1>4, <1>5 DEF IInv

\* A step of one trading cycle keeps the invariant: it takes the lock only
\* when it is free, gives back only what it holds, and enters its body only
\* after the second look at the gate.
LEMMA CycleStepIInv ==
    ASSUME IInv, NEW c \in Cycles, CycleStep(c)
    PROVE  IInv'
  <1>0. c \in Jobs /\ c # Closer /\ Closer \in Jobs
    BY DEF Jobs
  <1>1. CASE Gate(c)
    <2>1. TypeOK' /\ CloserPC' /\ CyclePC' /\ GateShut'
      BY <1>0, <1>1 DEF Gate, IInv, TypeOK, CloserPC, CyclePC, GateShut,
         CloseStarted, PCs
    <2>2. LockHeld'
      BY <1>0, <1>1 DEF Gate, IInv, TypeOK, LockHeld, Holding
    <2>3. CloseShutsGate'
      BY <1>0, <1>1 DEF Gate, IInv, TypeOK, CloseShutsGate, CloseStarted, Jobs
    <2> QED BY <2>1, <2>2, <2>3 DEF IInv
  <1>2. CASE Acquire(c)
    <2>1. TypeOK' /\ CloserPC' /\ CyclePC' /\ GateShut'
      BY <1>0, <1>2 DEF Acquire, IInv, TypeOK, CloserPC, CyclePC, GateShut,
         CloseStarted, PCs
    <2>2. LockHeld'
      BY <1>0, <1>2 DEF Acquire, LockFree, IInv, TypeOK, LockHeld, Holding
    <2>3. CloseShutsGate'
      BY <1>0, <1>2 DEF Acquire, IInv, TypeOK, CloseShutsGate, CloseStarted, Jobs
    <2> QED BY <2>1, <2>2, <2>3 DEF IInv
  <1>3. CASE Busy(c)
    <2>1. TypeOK' /\ CloserPC' /\ CyclePC' /\ GateShut'
      BY <1>0, <1>3 DEF Busy, IInv, TypeOK, CloserPC, CyclePC, GateShut,
         CloseStarted, PCs
    <2>2. LockHeld'
      BY <1>0, <1>3 DEF Busy, IInv, TypeOK, LockHeld, Holding
    <2>3. CloseShutsGate'
      BY <1>0, <1>3 DEF Busy, IInv, TypeOK, CloseShutsGate, CloseStarted, Jobs
    <2> QED BY <2>1, <2>2, <2>3 DEF IInv
  <1>4. CASE Recheck(c)
    <2>0. PICK p \in {"body", "idle"} : /\ pc' = [pc EXCEPT ![c] = p]
                                       /\ lock' \in {lock, Free}
                                       /\ UNCHANGED <<today, session, closeDate, shut>>
      BY <1>4 DEF Recheck
    <2>1. TypeOK' /\ CloserPC' /\ CyclePC' /\ GateShut'
      BY <1>0, <2>0 DEF IInv, TypeOK, CloserPC, CyclePC, GateShut,
         CloseStarted, PCs
    <2>2. LockHeld'
      BY <1>0, <1>4 DEF Recheck, IInv, TypeOK, LockHeld, Holding
    <2>3. CloseShutsGate'
      BY <1>0, <1>4 DEF Recheck, StillOpen, IInv, TypeOK, GateShut, CloseShutsGate,
                        CloseStarted, Jobs
    <2> QED BY <2>1, <2>2, <2>3 DEF IInv
  <1>5. CASE Finish(c)
    <2>1. TypeOK' /\ CloserPC' /\ CyclePC' /\ GateShut'
      BY <1>0, <1>5 DEF Finish, IInv, TypeOK, CloserPC, CyclePC, GateShut,
         CloseStarted, PCs
    <2>2. LockHeld'
      BY <1>0, <1>5 DEF Finish, IInv, TypeOK, LockHeld, Holding
    <2>3. CloseShutsGate'
      BY <1>0, <1>5 DEF Finish, IInv, TypeOK, CloseShutsGate, CloseStarted, Jobs
    <2> QED BY <2>1, <2>2, <2>3 DEF IInv
  <1> QED BY <1>1, <1>2, <1>3, <1>4, <1>5 DEF CycleStep

\* A step of close_session keeps the invariant: when it gets the lock the lock
\* was free, so by LockHeld no cycle is in its body.
LEMMA CloseStepIInv ==
    ASSUME IInv, CloseStep
    PROVE  IInv'
  <1>0. Closer \in Jobs /\ Cycles \subseteq Jobs
    BY DEF Jobs
  <1>1. CASE CloseStart
    BY <1>0, <1>1 DEF CloseStart, IInv, TypeOK, CloserPC, CyclePC, LockHeld,
       Holding, GateShut, CloseShutsGate, CloseStarted, PCs
  <1>2. CASE CloseAcquire
    <2>1. \A c \in Cycles : ~Holding(c)
      BY <1>0, <1>2 DEF CloseAcquire, LockFree, IInv, LockHeld
    <2>2. TypeOK' /\ CloserPC' /\ CyclePC' /\ GateShut'
      BY <1>0, <1>2 DEF CloseAcquire, IInv, TypeOK, CloserPC, CyclePC, GateShut,
         CloseStarted, PCs
    <2>3. LockHeld'
      BY <1>0, <1>2 DEF CloseAcquire, LockFree, IInv, TypeOK, LockHeld, Holding
    <2>4. CloseShutsGate'
      BY <1>0, <1>2, <2>1 DEF CloseAcquire, IInv, TypeOK, CloseShutsGate, Holding
    <2> QED BY <2>2, <2>3, <2>4 DEF IInv
  <1>3. CASE CloseFinish
    <2>1. TypeOK' /\ CloserPC' /\ CyclePC' /\ GateShut'
      BY <1>0, <1>3 DEF CloseFinish, IInv, TypeOK, CloserPC, CyclePC, GateShut,
         CloseStarted, PCs
    <2>2. LockHeld'
      BY <1>0, <1>3 DEF CloseFinish, IInv, TypeOK, LockHeld, Holding
    <2>3. CloseShutsGate'
      BY <1>0, <1>3 DEF CloseFinish, IInv, TypeOK, CloseShutsGate, CloseStarted
    <2> QED BY <2>1, <2>2, <2>3 DEF IInv
  <1> QED BY <1>1, <1>2, <1>3 DEF CloseStep

\* The clock and a restart of the process keep the invariant: a new date and a
\* new process open the gate again, when no job is running.
LEMMA EnvironmentIInv ==
    ASSUME IInv, Bell \/ NextDate \/ Restart
    PROVE  IInv'
  <1>1. CASE Bell
    BY <1>1 DEF Bell, IInv, TypeOK, Sessions, CloserPC, CyclePC, LockHeld,
       Holding, GateShut, CloseShutsGate, CloseStarted
  <1>2. CASE NextDate
    <2>1. TypeOK'
      <3>1. today' = today + 1 /\ today \in Nat
        BY <1>2 DEF NextDate, IInv, TypeOK
      <3>2. today' \in Nat \ {0}
        BY <3>1
      <3>3. session' \in Sessions /\ shut' \in BOOLEAN
        BY <1>2 DEF NextDate, Sessions
      <3>4. UNCHANGED <<closeDate, lock, pc>>
        BY <1>2 DEF NextDate
      <3> QED BY <3>2, <3>3, <3>4 DEF IInv, TypeOK
    <2>2. \A j \in Jobs : pc'[j] = "idle"
      BY <1>2 DEF NextDate
    <2>3. CloserPC' /\ CyclePC' /\ GateShut' /\ CloseShutsGate'
      BY <1>2, <2>2 DEF NextDate, CloserPC, CyclePC, GateShut, CloseShutsGate, Jobs
    <2>4. LockHeld'
      BY <1>2 DEF NextDate, IInv, LockHeld, Holding
    <2> QED BY <2>1, <2>3, <2>4 DEF IInv
  <1>3. CASE Restart
    <2>1. TypeOK'
      <3>1. pc' \in [Jobs -> PCs]
        BY <1>3 DEF Restart, PCs
      <3>2. closeDate' \in Nat /\ lock' \in Jobs \cup {Free} /\ shut' \in BOOLEAN
        BY <1>3 DEF Restart, NoDate
      <3>3. today' \in Nat \ {0} /\ session' \in Sessions
        BY <1>3 DEF Restart, IInv, TypeOK
      <3> QED BY <3>1, <3>2, <3>3 DEF TypeOK
    <2>2. \A j \in Jobs : pc'[j] = "idle"
      BY <1>3 DEF Restart
    <2>3. CloserPC' /\ CyclePC' /\ GateShut' /\ CloseShutsGate'
      BY <1>3, <2>2 DEF Restart, CloserPC, CyclePC, GateShut, CloseShutsGate, Jobs
    <2>4. LockHeld'
      BY <1>3, <2>2 DEF Restart, LockHeld, Holding
    <2> QED BY <2>1, <2>3, <2>4 DEF IInv
  <1> QED BY <1>1, <1>2, <1>3

\* IInv is an inductive invariant of the specification.
THEOREM Inductive == Spec => []IInv
  <1>1. IInv /\ [Next]_vars => IInv'
    <2> SUFFICES ASSUME IInv, [Next]_vars PROVE IInv'
      OBVIOUS
    <2>1. CASE UNCHANGED vars
      BY <2>1 DEF vars, IInv, TypeOK, CloserPC, CyclePC, LockHeld, Holding,
         GateShut, CloseShutsGate, CloseStarted
    <2>2. CASE Next
      BY <2>2, CycleStepIInv, CloseStepIInv, EnvironmentIInv DEF Next
    <2> QED BY <2>1, <2>2
  <1> QED BY InitIInv, <1>1, PTL DEF Spec

\* No two of the trading jobs are past their acquire together, for any number
\* of jobs: the bodies of the watch, the recheck and the close are atomic for
\* one another in what they read from and write to `latest`.
THEOREM MutualExclusionHolds == Spec => []MutualExclusion
  <1>1. IInv => MutualExclusion
    BY DEF IInv, LockHeld, MutualExclusion
  <1> QED BY Inductive, <1>1, PTL

\* No cycle trades on a trade date once close_session of the same process has
\* the lock, whatever the cycle had already checked.
THEOREM CloseShutsGateHolds == Spec => []CloseShutsGate
  <1>1. IInv => CloseShutsGate
    BY DEF IInv
  <1> QED BY Inductive, <1>1, PTL
=============================================================================
