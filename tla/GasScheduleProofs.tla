--------------------------- MODULE GasScheduleProofs ---------------------------
(***************************************************************************)
(* That executions are charged by one schedule, and never by one older     *)
(* than the latest whose change had returned when they began, for any      *)
(* functions, any number of executions and any schedules.                  *)
(*                                                                         *)
(* The invariant says which costs a change has written so far, and that    *)
(* what an execution has read is still what the function has: it holds the *)
(* lock, and costs are written only when nobody else does.                 *)
(***************************************************************************)
EXTENDS GasSchedule, Integers, TLAPS

\* The costs of f while a change to schedule s is under way.
Old(f, s) == cost[f] = [func |-> s - 1, base |-> s - 1]
New(f, s) == cost[f] = [func |-> s, base |-> s]

ChangeShape ==
    /\ change.schedule \in Nat
    /\ change.pc \in {"idle", "next", "locking", "locked", "half", "written"}
    /\ change.left \subseteq BuiltInFunctions
    /\ change.pc \in {"locking", "locked", "half", "written"} => change.at \in change.left
    /\ change.pc = "idle" => change.left = {} /\ applied = change.schedule
    /\ change.pc # "idle" => change.schedule > 0 /\ applied = change.schedule - 1

CostShape ==
    /\ DOMAIN cost = BuiltInFunctions
    /\ \A f \in BuiltInFunctions \ change.left : New(f, change.schedule)
    /\ \A f \in change.left :
          \/ Old(f, change.schedule) /\ ~(change.pc \in {"half", "written"} /\ change.at = f)
          \/ /\ change.pc = "half" /\ change.at = f
             /\ cost[f] = [func |-> change.schedule, base |-> change.schedule - 1]
          \/ New(f, change.schedule) /\ change.pc = "written" /\ change.at = f

ReadersShape ==
    /\ readers \in [BuiltInFunctions -> SUBSET Executions]
    /\ DOMAIN exec = Executions
    /\ \A e \in Executions : exec[e] = Idle \/ /\ exec[e].pc \in {"begun", "charged", "stored"}
                                               /\ exec[e].fn \in BuiltInFunctions
                                               /\ exec[e].since \in Nat /\ exec[e].since <= applied

CostsRead ==
    \A e \in Executions :
        /\ exec[e].pc \in {"charged", "stored"} => exec[e].func = cost[exec[e].fn].func
        /\ exec[e].pc = "stored" => exec[e].base = cost[exec[e].fn].base

IInv == ChangeShape /\ CostShape /\ ReadersShape /\ LockHeld /\ CostsRead

LEMMA InitInv == GasInit => IInv
BY DEF GasInit, IInv, ChangeShape, CostShape, ReadersShape, LockHeld, CostsRead, Old, New, Idle
\* What a step does to the change and to the costs it writes.
LEMMA StepChangeShape == IInv /\ [GasNext]_gasVars => ChangeShape'
<1> SUFFICES ASSUME IInv, [GasNext]_gasVars PROVE ChangeShape'
  OBVIOUS
<1> USE DEF IInv, ChangeShape
<1>1. CASE BeginChange
  BY <1>1 DEF BeginChange
<1>2. CASE ChangeStep
  <2>1. CASE \E f \in BuiltInFunctions : CallLock(f)
    BY <2>1 DEF CallLock, AtFunction
  <2>2. CASE TakeLock
    BY <2>2 DEF TakeLock, AtFunction
  <2>3. CASE WriteFuncCost
    BY <2>3 DEF WriteFuncCost, AtFunction
  <2>4. CASE WriteBaseCost
    BY <2>4 DEF WriteBaseCost, AtFunction
  <2>5. CASE Unlock
    BY <2>5 DEF Unlock
  <2>6. CASE EndChange
    BY <2>6 DEF EndChange
  <2> QED
    BY <1>2, <2>1, <2>2, <2>3, <2>4, <2>5, <2>6 DEF ChangeStep
<1>3. CASE \E e \in Executions : ExecStep(e) \/ \E f \in BuiltInFunctions : Begin(e, f)
  BY <1>3 DEF ExecStep, ReadFuncCost, ReadBaseCost, Return, Begin
<1>4. CASE UNCHANGED gasVars
  BY <1>4 DEF gasVars
<1> QED
  BY <1>1, <1>2, <1>3, <1>4 DEF GasNext

LEMMA StepCostShape == IInv /\ [GasNext]_gasVars => CostShape'
<1> SUFFICES ASSUME IInv, [GasNext]_gasVars PROVE CostShape'
  OBVIOUS
<1> USE DEF IInv, ChangeShape, CostShape, Old, New
<1>1. CASE BeginChange
  BY <1>1 DEF BeginChange
<1>2. CASE ChangeStep
  <2>1. CASE \E f \in BuiltInFunctions : CallLock(f)
    BY <2>1 DEF CallLock, AtFunction
  <2>2. CASE TakeLock
    BY <2>2 DEF TakeLock, AtFunction
  <2>3. CASE WriteFuncCost
    BY <2>3 DEF WriteFuncCost, AtFunction
  <2>4. CASE WriteBaseCost
    BY <2>4 DEF WriteBaseCost, AtFunction
  <2>5. CASE Unlock
    BY <2>5 DEF Unlock
  <2>6. CASE EndChange
    BY <2>6 DEF EndChange
  <2> QED
    BY <1>2, <2>1, <2>2, <2>3, <2>4, <2>5, <2>6 DEF ChangeStep
<1>3. CASE \E e \in Executions : ExecStep(e) \/ \E f \in BuiltInFunctions : Begin(e, f)
  BY <1>3 DEF ExecStep, ReadFuncCost, ReadBaseCost, Return, Begin
<1>4. CASE UNCHANGED gasVars
  BY <1>4 DEF gasVars
<1> QED
  BY <1>1, <1>2, <1>3, <1>4 DEF GasNext

\* The executions, what they hold and what they have read.
LEMMA StepReaders == IInv /\ [GasNext]_gasVars => ReadersShape' /\ LockHeld'
<1> SUFFICES ASSUME IInv, [GasNext]_gasVars PROVE ReadersShape' /\ LockHeld'
  OBVIOUS
<1> USE DEF IInv, ChangeShape, ReadersShape, LockHeld, Idle
<1>1. CASE BeginChange
  BY <1>1 DEF BeginChange
<1>2. CASE ChangeStep
  BY <1>2 DEF ChangeStep, CallLock, TakeLock, WriteFuncCost, WriteBaseCost, Unlock, EndChange, AtFunction
<1>3. ASSUME NEW e \in Executions, NEW f \in BuiltInFunctions, Begin(e, f)
      PROVE  ReadersShape' /\ LockHeld'
  BY <1>3 DEF Begin, WriterAt
<1>4. ASSUME NEW e \in Executions, ReadFuncCost(e) \/ ReadBaseCost(e)
      PROVE  ReadersShape' /\ LockHeld'
  BY <1>4 DEF ReadFuncCost, ReadBaseCost
<1>5. ASSUME NEW e \in Executions, Return(e)
      PROVE  ReadersShape' /\ LockHeld'
  BY <1>5 DEF Return
<1>6. CASE UNCHANGED gasVars
  BY <1>6 DEF gasVars
<1> QED
  BY <1>1, <1>2, <1>3, <1>4, <1>5, <1>6 DEF GasNext, ExecStep

\* A function that is written has no readers, so that what was read stands.
LEMMA StepCostsRead == IInv /\ [GasNext]_gasVars => CostsRead'
<1> SUFFICES ASSUME IInv, [GasNext]_gasVars PROVE CostsRead'
  OBVIOUS
<1> USE DEF IInv, CostsRead, ReadersShape, Idle
<1>1. CASE cost' = cost /\ exec' = exec
  BY <1>1
<1>2. CASE WriteFuncCost \/ WriteBaseCost
  <2>1. readers[change.at] = {} /\ exec' = exec
    BY <1>2 DEF WriteFuncCost, WriteBaseCost, LockHeld
  <2>2. \A f \in BuiltInFunctions : f # change.at => cost'[f] = cost[f]
    BY <1>2 DEF WriteFuncCost, WriteBaseCost, CostShape
  <2>3. \A e \in Executions : exec[e] # Idle => exec[e].fn # change.at
    BY <2>1, <1>2 DEF LockHeld, ChangeShape, WriteFuncCost, WriteBaseCost
  <2> QED
    BY <2>1, <2>2, <2>3
<1>3. ASSUME NEW e \in Executions,
             ExecStep(e) \/ \E f \in BuiltInFunctions : Begin(e, f)
      PROVE  CostsRead'
  BY <1>3 DEF ExecStep, ReadFuncCost, ReadBaseCost, Return, Begin
<1> QED
  BY <1>1, <1>2, <1>3 DEF GasNext, ChangeStep, BeginChange, CallLock, TakeLock, Unlock, EndChange, gasVars

THEOREM GasInvariant == GasSpec => []IInv
<1>1. IInv /\ [GasNext]_gasVars => IInv'
  BY StepChangeShape, StepCostShape, StepReaders, StepCostsRead DEF IInv
<1> QED
  BY <1>1, InitInv, PTL DEF GasSpec

-----------------------------------------------------------------------------
\* The lock of a function belongs to the executions of it, or to the change.
THEOREM LockIsHeld == GasSpec => []LockHeld
<1>1. IInv => LockHeld
  BY DEF IInv
<1> QED
  BY <1>1, GasInvariant, PTL

\* However executions and changes are interleaved, each execution is charged
\* by one schedule: while it holds the lock of its function no change is between
\* the two writes of costs there.
THEOREM OneSchedule == GasSpec => []OneScheduleEach
<1>1. IInv => OneScheduleEach
  <2> SUFFICES ASSUME IInv, NEW e \in Executions, exec[e].pc = "stored"
               PROVE  exec[e].func = exec[e].base
    BY DEF OneScheduleEach
  <2> DEFINE f == exec[e].fn
  <2>1. f \in BuiltInFunctions /\ e \in readers[f]
    BY DEF IInv, ReadersShape, LockHeld, Idle
  <2>2. ~(change.pc = "half" /\ change.at = f)
    BY <2>1 DEF IInv, LockHeld
  <2>3. cost[f].func = cost[f].base
    BY <2>1, <2>2 DEF IInv, CostShape, Old, New
  <2> QED
    BY <2>3 DEF IInv, CostsRead
<1> QED
  BY <1>1, GasInvariant, PTL

\* Between changes every function has the costs of the latest schedule.
THEOREM Updated == GasSpec => []AllFunctionsUpdated
<1>1. IInv => AllFunctionsUpdated
  BY DEF IInv, ChangeShape, CostShape, New, AllFunctionsUpdated
<1> QED
  BY <1>1, GasInvariant, PTL

\* No execution is charged by a schedule older than the latest one whose change
\* had returned when it began.
THEOREM NoneIsOld == GasSpec => []NoOldSchedule
<1>1. IInv => NoOldSchedule
  <2> SUFFICES ASSUME IInv, NEW e \in Executions, exec[e].pc \in {"charged", "stored"}
               PROVE  exec[e].func >= exec[e].since
    BY DEF NoOldSchedule
  <2> DEFINE f == exec[e].fn
  <2>1. f \in BuiltInFunctions /\ exec[e].since \in Nat /\ exec[e].since <= applied
    BY DEF IInv, ReadersShape, Idle
  <2>2. cost[f].func >= applied /\ cost[f].func \in Int /\ applied \in Int
    BY <2>1 DEF IInv, ChangeShape, CostShape, Old, New
  <2>3. exec[e].func = cost[f].func
    BY DEF IInv, CostsRead
  <2> QED
    BY <2>1, <2>2, <2>3
<1> QED
  BY <1>1, GasInvariant, PTL
=============================================================================
