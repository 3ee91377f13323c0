------------------------------- MODULE NodeCalls -------------------------------
(***************************************************************************)
(* The functions of AccountCalls and ArgumentLoops as a node executes      *)
(* them: one at a time, so that a loop is not interrupted by the other     *)
(* calls, while calls between the shards are under way; and the arguments  *)
(* of transfers on their way between the same shards.  None of the three   *)
(* touches anything of another.                                            *)
(***************************************************************************)
EXTENDS AccountCalls, ArgumentLoops, TransferArguments

CONSTANTS
    MaxCalls,       \* bound: calls in all
    LoopWeight,     \* bound: a loop counts as so many of them
    TransferWeight  \* bound: and a transfer as so many

ASSUME NodeAssumption == MaxCalls \in Nat /\ LoopWeight \in Nat /\ TransferWeight \in Nat

VARIABLE issued  \* calls so far

nodeVars == <<accountVars, loopVars, transferVars, issued>>

NodeInit == AccountsInit /\ LoopInit /\ TransfersInit /\ issued = 0

BeginAccountCall ==
    /\ loop = NoLoop
    /\ issued < MaxCalls
    /\ issued' = issued + 1
    /\ AccountBegin
    /\ UNCHANGED <<loopVars, transferVars>>

BeginLoop ==
    /\ issued + LoopWeight <= MaxCalls
    /\ issued' = issued + LoopWeight
    /\ LoopBegin
    /\ UNCHANGED <<accountVars, transferVars>>

BeginTransfer ==
    /\ loop = NoLoop
    /\ issued + TransferWeight <= MaxCalls
    /\ issued' = issued + TransferWeight
    /\ TransferBegin
    /\ UNCHANGED <<accountVars, loopVars>>

Execute ==
    /\ \/ loop = NoLoop /\ AccountStep /\ UNCHANGED <<loopVars, transferVars>>
       \/ LoopStep /\ UNCHANGED <<accountVars, transferVars>>
       \/ loop = NoLoop /\ TransferStep /\ UNCHANGED <<accountVars, loopVars>>
    /\ UNCHANGED issued

NodeNext == BeginAccountCall \/ BeginLoop \/ BeginTransfer \/ Execute
NodeSpec == NodeInit /\ [][NodeNext]_nodeVars

\* The loop under execution goes on, and so does every call under way as soon
\* as the node has time for it.
FairNodeSpec ==
    /\ NodeSpec
    /\ WF_nodeVars(LoopStep /\ UNCHANGED <<accountVars, transferVars, issued>>)
    /\ \A i \in 1..CallSlots :
          WF_nodeVars(loop = NoLoop /\ CallEnds(i) /\ UNCHANGED <<loopVars, transferVars, issued>>)

-----------------------------------------------------------------------------
Endless == loop.pc \in {"group", "interval", "nonce"} /\ ~Fits(loop.args)

\* Every call under way comes to an end, unless the node is kept busy by a
\* deletion whose indices or nonces wrap around.
CallsSettle == \A i \in 1..CallSlots :
    calls[i].stage \in {"sent", "paid"} ~> calls[i].stage \in {"done", "free"} \/ Endless
=============================================================================
