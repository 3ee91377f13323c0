------------------------------ MODULE GasSchedule ------------------------------
(***************************************************************************)
(* The change of the gas schedule while built-in functions execute.        *)
(* GasScheduleChange (creator.go) walks over the functions and gives each  *)
(* the new costs (SetNewGasConfig) under its mutExecution; an execution    *)
(* holds the same lock for reading from its beginning to its end and reads *)
(* the cost of the function and the costs of the base operations at        *)
(* different moments.  A schedule is a number here; the costs in it do not *)
(* matter.  One change runs at a time, executions are goroutines of the    *)
(* node (blocks and queries).                                              *)
(***************************************************************************)
EXTENDS Naturals

CONSTANTS
    BuiltInFunctions,  \* the functions in the container
    Executions,        \* goroutines that execute functions
    MaxSchedule        \* bound: schedules after the first one

ASSUME GasAssumption == MaxSchedule \in Nat

VARIABLES
    cost,     \* function -> its funcGasCost and gasConfig, by schedule
    readers,  \* function -> the executions that hold its mutExecution
    change,   \* GasScheduleChange: where it is, its schedule, the functions left
    exec,     \* goroutine -> the function it executes and the costs it has read
    applied   \* history: the latest schedule whose change has returned

gasVars == <<cost, readers, change, exec, applied>>

Schedules == 0..MaxSchedule
Idle == [pc |-> "idle"]

\* "locking": Lock was called and waits for the readers; "locked", "half",
\* "written": nothing, the cost of the function, both costs are written.
ChangeType == [pc : {"idle", "next"}, schedule : Schedules, left : SUBSET BuiltInFunctions]
              \union [pc : {"locking", "locked", "half", "written"}, schedule : Schedules,
                      left : SUBSET BuiltInFunctions, at : BuiltInFunctions]

ExecType == {Idle}
            \union [pc : {"begun"}, fn : BuiltInFunctions, since : Schedules]
            \union [pc : {"charged"}, fn : BuiltInFunctions, since : Schedules, func : Schedules]
            \union [pc : {"stored"}, fn : BuiltInFunctions, since : Schedules, func : Schedules,
                    base : Schedules]

GasTypeOK ==
    /\ cost \in [BuiltInFunctions -> [func : Schedules, base : Schedules]]
    /\ readers \in [BuiltInFunctions -> SUBSET Executions]
    /\ change \in ChangeType
    /\ exec \in [Executions -> ExecType]
    /\ applied \in Schedules

GasInit ==
    /\ cost = [f \in BuiltInFunctions |-> [func |-> 0, base |-> 0]]
    /\ readers = [f \in BuiltInFunctions |-> {}]
    /\ change = [pc |-> "idle", schedule |-> 0, left |-> {}]
    /\ exec = [e \in Executions |-> Idle]
    /\ applied = 0

-----------------------------------------------------------------------------
\* GasScheduleChange with a valid schedule (with another it returns at once):
\* the keys of the container, in any order.
BeginChange ==
    /\ change.pc = "idle"
    /\ change.schedule < MaxSchedule
    /\ change' = [pc |-> "next", schedule |-> change.schedule + 1, left |-> BuiltInFunctions]
    /\ UNCHANGED <<cost, readers, exec, applied>>

AtFunction(pc, f) == [pc |-> pc, schedule |-> change.schedule, left |-> change.left, at |-> f]

\* mutExecution.Lock(): from here on no new reader gets the lock ...
CallLock(f) ==
    /\ change.pc = "next"
    /\ f \in change.left
    /\ change' = AtFunction("locking", f)
    /\ UNCHANGED <<cost, readers, exec, applied>>

\* Fault: there is no lock to wait for.
TakeLockAtOnce ==
    /\ change.pc = "locking"
    /\ change' = AtFunction("locked", change.at)
    /\ UNCHANGED <<cost, readers, exec, applied>>

\* ... and it is taken when the last one has left.
TakeLock ==
    /\ change.pc = "locking"
    /\ readers[change.at] = {}
    /\ change' = AtFunction("locked", change.at)
    /\ UNCHANGED <<cost, readers, exec, applied>>

WriteFuncCost ==
    /\ change.pc = "locked"
    /\ cost' = [cost EXCEPT ![change.at].func = change.schedule]
    /\ change' = AtFunction("half", change.at)
    /\ UNCHANGED <<readers, exec, applied>>

WriteBaseCost ==
    /\ change.pc = "half"
    /\ cost' = [cost EXCEPT ![change.at].base = change.schedule]
    /\ change' = AtFunction("written", change.at)
    /\ UNCHANGED <<readers, exec, applied>>

Unlock ==
    /\ change.pc = "written"
    /\ change' = [pc |-> "next", schedule |-> change.schedule, left |-> change.left \ {change.at}]
    /\ UNCHANGED <<cost, readers, exec, applied>>

\* Fault: a change ends although functions are left.
EndChangeEarly ==
    /\ change.pc = "next"
    /\ change' = [pc |-> "idle", schedule |-> change.schedule, left |-> {}]
    /\ applied' = change.schedule
    /\ UNCHANGED <<cost, readers, exec>>

EndChange ==
    /\ change.pc = "next"
    /\ change.left = {}
    /\ change' = [pc |-> "idle", schedule |-> change.schedule, left |-> {}]
    /\ applied' = change.schedule
    /\ UNCHANGED <<cost, readers, exec>>

ChangeStep ==
    \/ \E f \in BuiltInFunctions : CallLock(f)
    \/ TakeLock
    \/ WriteFuncCost
    \/ WriteBaseCost
    \/ Unlock
    \/ EndChange

-----------------------------------------------------------------------------
\* The lock of f is held for writing, or a writer waits for it.
WriterAt(f) == change.pc \in {"locking", "locked", "half", "written"} /\ change.at = f

\* Fault: a reader does not wait for a writer that waits.
BeginPastWaitingWriter(e, f) ==
    /\ exec[e] = Idle
    /\ ~(change.pc \in {"locked", "half", "written"} /\ change.at = f)
    /\ readers' = [readers EXCEPT ![f] = @ \union {e}]
    /\ exec' = [exec EXCEPT ![e] = [pc |-> "begun", fn |-> f, since |-> applied]]
    /\ UNCHANGED <<cost, change, applied>>

\* ProcessBuiltinFunction: mutExecution.RLock(), which waits while a writer has
\* the lock or waits for it.
Begin(e, f) ==
    /\ exec[e] = Idle
    /\ ~WriterAt(f)
    /\ readers' = [readers EXCEPT ![f] = @ \union {e}]
    /\ exec' = [exec EXCEPT ![e] = [pc |-> "begun", fn |-> f, since |-> applied]]
    /\ UNCHANGED <<cost, change, applied>>

\* The first use of funcGasCost, when the arguments are checked.
ReadFuncCost(e) ==
    /\ exec[e].pc = "begun"
    /\ exec' = [exec EXCEPT ![e] = [pc |-> "charged", fn |-> exec[e].fn, since |-> exec[e].since,
                                    func |-> cost[exec[e].fn].func]]
    /\ UNCHANGED <<cost, readers, change, applied>>

\* The use of gasConfig, when the length of what is stored is known.
ReadBaseCost(e) ==
    /\ exec[e].pc = "charged"
    /\ exec' = [exec EXCEPT ![e] = [pc |-> "stored", fn |-> exec[e].fn, since |-> exec[e].since,
                                    func |-> exec[e].func, base |-> cost[exec[e].fn].base]]
    /\ UNCHANGED <<cost, readers, change, applied>>

\* The deferred RUnlock, at the end or at any error before it.
Return(e) ==
    /\ exec[e] # Idle
    /\ readers' = [readers EXCEPT ![exec[e].fn] = @ \ {e}]
    /\ exec' = [exec EXCEPT ![e] = Idle]
    /\ UNCHANGED <<cost, change, applied>>

ExecStep(e) == ReadFuncCost(e) \/ ReadBaseCost(e) \/ Return(e)

GasNext ==
    \/ BeginChange
    \/ ChangeStep
    \/ \E e \in Executions : ExecStep(e) \/ \E f \in BuiltInFunctions : Begin(e, f)

GasSpec == GasInit /\ [][GasNext]_gasVars

\* Goroutines that can go on do, and every execution returns; that one begins
\* is not assumed.
FairGasSpec ==
    /\ GasSpec
    /\ WF_gasVars(ChangeStep)
    /\ \A e \in Executions : WF_gasVars(ExecStep(e))

-----------------------------------------------------------------------------
\* The lock of a function is held by the executions of it and nobody else, and
\* by none while a change has it: also after executions that ended in an error.
LockHeld ==
    /\ \A e \in Executions, f \in BuiltInFunctions :
          e \in readers[f] <=> exec[e] # Idle /\ exec[e].fn = f
    /\ change.pc \in {"locked", "half", "written"} => readers[change.at] = {}

\* An execution charges the function and the base operations by the same
\* schedule, however a change is interleaved with it.
OneScheduleEach == \A e \in Executions : exec[e].pc = "stored" => exec[e].func = exec[e].base

\* While no change is under way every function has both costs of the latest
\* schedule.
AllFunctionsUpdated ==
    change.pc = "idle" =>
        \A f \in BuiltInFunctions : cost[f] = [func |-> change.schedule, base |-> change.schedule]

\* An execution that begins after a change has returned is charged by that
\* schedule or a later one, also while the next change is half done.
NoOldSchedule ==
    \A e \in Executions : exec[e].pc \in {"charged", "stored"} => exec[e].func >= exec[e].since

\* A change returns, however many executions come after each other: those that
\* begin while it waits do not keep it waiting.
ChangeReturns == change.pc # "idle" ~> change.pc = "idle"
=============================================================================
