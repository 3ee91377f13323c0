------------------------------ MODULE AccountCalls ------------------------------
(***************************************************************************)
(* Functions on one account: ChangeOwnerAddress (changeOwnerAddress.go),   *)
(* ClaimDeveloperRewards (claimDeveloperRewards.go) and SetUserName        *)
(* (saveUserName.go).  When caller and account are in different shards the *)
(* function is executed twice, first without the account, then without the *)
(* caller, and in between the owner, the rewards and the name may change.  *)
(* Which half returns the gas differs from function to function.           *)
(***************************************************************************)
EXTENDS ShardCoordinator, FiniteSetsExt, Functions

CONSTANTS
    Contracts,    \* accounts that are contracts: they have owners and rewards
    DNSAddresses, \* mapDnsAddresses: the contracts that may give names
    InitOwner,    \* InitOwner[c] is the owner of contract c at first
    Names,        \* user names
    EnableChange, \* enableUserNameChange: a name may be replaced
    GasCost,      \* cost of each of the functions
    GasProvided,  \* gas in calls
    CallSlots,    \* bound: slots 1..CallSlots for calls under way
    MaxRewards    \* bound: rewards earned in all

ASSUME AccountsAssumption ==
    /\ Contracts \subseteq Accounts
    /\ DNSAddresses \subseteq Contracts
    /\ InitOwner \in [Contracts -> Accounts]
    /\ EnableChange \in BOOLEAN
    /\ GasCost \in Nat /\ GasProvided \subseteq Nat
    /\ CallSlots \in Nat /\ MaxRewards \in Nat

VARIABLES
    owner,    \* contract -> its owner
    rewards,  \* contract -> developer rewards not yet claimed
    balance,  \* account -> what it was paid
    name,     \* account -> its user name
    calls,    \* slot -> the call in it, until the node has booked its gas
    earned    \* history: rewards earned in all

accountVars == <<owner, rewards, balance, name, calls, earned>>

NoName == "none"
FreeSlot == [stage |-> "free"]

\* "sent": on its way to the account it calls; "paid": the rewards are on their
\* way to the caller; "done": all that is left is the gas given back so far.
CallType ==
    {FreeSlot}
    \union [stage : {"sent"}, fn : {"owner"}, from : Accounts, to : Contracts, new : Accounts,
            gas : GasProvided, given : Nat]
    \union [stage : {"sent"}, fn : {"claim"}, from : Accounts, to : Contracts,
            gas : GasProvided, given : Nat]
    \union [stage : {"sent"}, fn : {"name"}, from : DNSAddresses, to : Accounts, new : Names,
            gas : GasProvided, given : Nat]
    \union [stage : {"paid"}, from : Accounts, value : Nat, gas : GasProvided, given : Nat]
    \union [stage : {"done"}, from : Accounts, gas : GasProvided, given : Nat]

AccountsTypeOK ==
    /\ owner \in [Contracts -> Accounts]
    /\ rewards \in [Contracts -> Nat]
    /\ balance \in [Accounts -> Nat]
    /\ name \in [Accounts -> Names \union {NoName}]
    /\ calls \in [1..CallSlots -> CallType]
    /\ earned \in Nat

AccountsInit ==
    /\ owner = InitOwner
    /\ rewards = [c \in Contracts |-> 0]
    /\ balance = [a \in Accounts |-> 0]
    /\ name = [a \in Accounts |-> NoName]
    /\ calls = [i \in 1..CallSlots |-> FreeSlot]
    /\ earned = 0

-----------------------------------------------------------------------------
InOneShard(a, b) == ShardOf[a] = ShardOf[b]
Done(m, given) == [stage |-> "done", from |-> m.from, gas |-> m.gas, given |-> given]

\* Fault: the half without the caller returns the gas again.
GasRemainingInBoth(callerHere, gas) == IF gas < GasCost THEN 0 ELSE gas - GasCost

\* computeGasRemaining: the sender's shard has returned it already.
GasRemaining(callerHere, gas) == IF gas < GasCost \/ ~callerHere THEN 0 ELSE gas - GasCost

\* A call takes the first free slot.
Issue(i, m) ==
    /\ calls[i] = FreeSlot
    /\ \A j \in 1..(i - 1) : calls[j] # FreeSlot
    /\ calls' = [calls EXCEPT ![i] = m]

\* ChangeOwnerAddress with both accounts in the shard ...
ChangeOwnerHere(i, a, c, b, gas) ==
    /\ InOneShard(a, c)
    /\ gas >= GasCost
    /\ owner[c] = a
    /\ owner' = [owner EXCEPT ![c] = b]
    /\ Issue(i, [stage |-> "done", from |-> a, gas |-> gas, given |-> GasRemaining(TRUE, gas)])
    /\ UNCHANGED <<rewards, balance, name, earned>>

\* ... or without the contract, whose owner is not known here.
ChangeOwnerLeaves(i, a, c, b, gas) ==
    /\ ~InOneShard(a, c)
    /\ gas >= GasCost
    /\ Issue(i, [stage |-> "sent", fn |-> "owner", from |-> a, to |-> c, new |-> b,
                 gas |-> gas, given |-> GasRemaining(TRUE, gas)])
    /\ UNCHANGED <<owner, rewards, balance, name, earned>>

\* Fault: the rewards are paid once more by the output account.
ClaimHereTwice(i, a, c, gas, async) ==
    /\ InOneShard(a, c)
    /\ async => a \in Contracts
    /\ owner[c] = a
    /\ gas >= GasCost
    /\ rewards' = [rewards EXCEPT ![c] = 0]
    /\ balance' = [balance EXCEPT ![a] = @ + rewards[c] + rewards[c]]
    /\ Issue(i, [stage |-> "done", from |-> a, gas |-> gas,
                 given |-> IF async THEN 0 ELSE GasRemaining(TRUE, gas)])
    /\ UNCHANGED <<owner, name, earned>>

\* ClaimDeveloperRewards in one shard.  The transfer in the output only records
\* what AddToBalance has done; that of a contract is cleared, and the gas of an
\* asynchronous call with it.
ClaimHere(i, a, c, gas, async) ==
    /\ InOneShard(a, c)
    /\ async => a \in Contracts
    /\ owner[c] = a
    /\ gas >= GasCost
    /\ rewards' = [rewards EXCEPT ![c] = 0]
    /\ balance' = [balance EXCEPT ![a] = @ + rewards[c]]
    /\ Issue(i, [stage |-> "done", from |-> a, gas |-> gas,
                 given |-> IF async THEN 0 ELSE GasRemaining(TRUE, gas)])
    /\ UNCHANGED <<owner, name, earned>>

\* Without the contract only the gas is taken, and it is not asked whether it
\* suffices.
ClaimLeaves(i, a, c, gas) ==
    /\ ~InOneShard(a, c)
    /\ Issue(i, [stage |-> "sent", fn |-> "claim", from |-> a, to |-> c, gas |-> gas,
                 given |-> GasRemaining(TRUE, gas)])
    /\ UNCHANGED <<owner, rewards, balance, name, earned>>

NameTaken(u) == ~EnableChange /\ name[u] # NoName

\* SetUserName, called by a contract that may: with the account in the shard ...
SetNameHere(i, d, u, n, gas) ==
    /\ InOneShard(d, u)
    /\ gas >= GasCost
    /\ ~NameTaken(u)
    /\ name' = [name EXCEPT ![u] = n]
    /\ Issue(i, [stage |-> "done", from |-> d, gas |-> gas, given |-> gas - GasCost])
    /\ UNCHANGED <<owner, rewards, balance, earned>>

\* ... or without it: all of the gas goes along with the output transfer.
SetNameLeaves(i, d, u, n, gas) ==
    /\ ~InOneShard(d, u)
    /\ gas >= GasCost
    /\ Issue(i, [stage |-> "sent", fn |-> "name", from |-> d, to |-> u, new |-> n,
                 gas |-> gas, given |-> 0])
    /\ UNCHANGED <<owner, rewards, balance, name, earned>>

-----------------------------------------------------------------------------
\* The other half, in the shard of the account that is called.
Waiting(i, fn) == calls[i].stage = "sent" /\ calls[i].fn = fn

\* Fault: the owner is compared only when the owner is to be changed.
RefusedUnlessClaim(m) ==
    \/ m.gas < GasCost
    \/ m.fn = "owner" /\ owner[m.to] # m.from
    \/ m.fn = "name" /\ NameTaken(m.to)

Refused(m) ==
    \/ m.gas < GasCost
    \/ m.fn \in {"owner", "claim"} /\ owner[m.to] # m.from
    \/ m.fn = "name" /\ NameTaken(m.to)

ChangeOwnerArrives(i) ==
    LET m == calls[i]
    IN  /\ Waiting(i, "owner")
        /\ ~Refused(m)
        /\ owner' = [owner EXCEPT ![m.to] = m.new]
        /\ calls' = [calls EXCEPT ![i] = Done(m, m.given + GasRemaining(FALSE, m.gas))]
        /\ UNCHANGED <<rewards, balance, name, earned>>

\* Fault: the rewards stay with the contract until they are delivered.
ClaimArrivesKeeping(i) ==
    LET m == calls[i]
    IN  /\ Waiting(i, "claim")
        /\ ~Refused(m)
        /\ calls' = [calls EXCEPT ![i] =
              [stage |-> "paid", from |-> m.from, value |-> rewards[m.to], gas |-> m.gas,
               given |-> m.given + GasRemaining(FALSE, m.gas)]]
        /\ UNCHANGED <<owner, rewards, balance, name, earned>>

\* The rewards leave in an output transfer, a callback if a contract called.
ClaimArrives(i) ==
    LET m == calls[i]
    IN  /\ Waiting(i, "claim")
        /\ ~Refused(m)
        /\ rewards' = [rewards EXCEPT ![m.to] = 0]
        /\ calls' = [calls EXCEPT ![i] =
              [stage |-> "paid", from |-> m.from, value |-> rewards[m.to], gas |-> m.gas,
               given |-> m.given + GasRemaining(FALSE, m.gas)]]
        /\ UNCHANGED <<owner, balance, name, earned>>

SetNameArrives(i) ==
    LET m == calls[i]
    IN  /\ Waiting(i, "name")
        /\ ~Refused(m)
        /\ name' = [name EXCEPT ![m.to] = m.new]
        /\ calls' = [calls EXCEPT ![i] = Done(m, m.given + (m.gas - GasCost))]
        /\ UNCHANGED <<owner, rewards, balance, earned>>

\* Fault: a call that has enough gas is not expected to be refused.
CallFailsForGas(i) ==
    /\ calls[i].stage = "sent"
    /\ calls[i].gas < GasCost
    /\ calls' = [calls EXCEPT ![i] = Done(calls[i], calls[i].given)]
    /\ UNCHANGED <<owner, rewards, balance, name, earned>>

\* The other half is refused: nothing was moved that had to come back.
CallFails(i) ==
    /\ calls[i].stage = "sent"
    /\ Refused(calls[i])
    /\ calls' = [calls EXCEPT ![i] = Done(calls[i], calls[i].given)]
    /\ UNCHANGED <<owner, rewards, balance, name, earned>>

\* External: the output transfer is credited in the shard of the caller.
Deliver(i) ==
    LET m == calls[i]
    IN  /\ m.stage = "paid"
        /\ balance' = [balance EXCEPT ![m.from] = @ + m.value]
        /\ calls' = [calls EXCEPT ![i] = Done(m, m.given)]
        /\ UNCHANGED <<owner, rewards, name, earned>>

\* External: the node has booked the gas of a call.
Book(i) ==
    /\ calls[i].stage = "done"
    /\ calls' = [calls EXCEPT ![i] = FreeSlot]
    /\ UNCHANGED <<owner, rewards, balance, name, earned>>

\* External: a contract is called and earns rewards for its owner.
Earn(c) ==
    /\ earned < MaxRewards
    /\ rewards' = [rewards EXCEPT ![c] = @ + 1]
    /\ earned' = earned + 1
    /\ UNCHANGED <<owner, balance, name, calls>>

-----------------------------------------------------------------------------
CallBegins(i) ==
    \E gas \in GasProvided :
        \/ \E a, b \in Accounts, c \in Contracts :
              ChangeOwnerHere(i, a, c, b, gas) \/ ChangeOwnerLeaves(i, a, c, b, gas)
        \/ \E a \in Accounts, c \in Contracts :
              \/ \E async \in BOOLEAN : ClaimHere(i, a, c, gas, async)
              \/ ClaimLeaves(i, a, c, gas)
        \/ \E d \in DNSAddresses, u \in Accounts, n \in Names :
              SetNameHere(i, d, u, n, gas) \/ SetNameLeaves(i, d, u, n, gas)

CallEnds(i) ==
    ChangeOwnerArrives(i) \/ ClaimArrives(i) \/ SetNameArrives(i) \/ CallFails(i) \/ Deliver(i)

AccountBegin == \E i \in 1..CallSlots : CallBegins(i)

AccountStep ==
    \/ \E i \in 1..CallSlots : CallEnds(i) \/ Book(i)
    \/ \E c \in Contracts : Earn(c)

AccountNext == AccountBegin \/ AccountStep
AccountSpec == AccountsInit /\ [][AccountNext]_accountVars

\* The node executes every call and delivers every transfer it has received.
FairAccountSpec == AccountSpec /\ \A i \in 1..CallSlots : WF_accountVars(CallEnds(i))

-----------------------------------------------------------------------------
Paid == {i \in 1..CallSlots : calls[i].stage = "paid"}

\* Rewards are neither lost nor paid twice, whoever claims them from which
\* shard while the owner changes: what was earned is with the contracts, with
\* those who were paid, or on its way to them.
RewardsConserved ==
    SumFunctionOnSet(rewards, Contracts) + SumFunctionOnSet(balance, Accounts)
        + SumFunctionOnSet([i \in Paid |-> calls[i].value], Paid) = earned

\* Rewards that leave a contract go to who owns it at that moment, not to who
\* owned it when the claim was sent.
PaidToOwner ==
    [][\A c \in Contracts : rewards'[c] < rewards[c] =>
          \/ balance' = [balance EXCEPT ![owner[c]] = @ + rewards[c]]
          \/ \E i \in 1..CallSlots : /\ calls'[i].stage = "paid"
                                    /\ calls'[i].from = owner[c]
                                    /\ calls'[i].value = rewards[c]]_accountVars

\* The two halves of a call together give back no more gas than what the cost
\* leaves, and to a user exactly that: one half returns what the other does not.
GasReturnedOnce ==
    \A i \in 1..CallSlots : calls[i] # FreeSlot =>
        LET rest == IF calls[i].gas < GasCost THEN 0 ELSE calls[i].gas - GasCost
        IN  /\ calls[i].given <= rest
            /\ calls[i].stage = "done" /\ calls[i].from \notin Contracts => calls[i].given = rest
=============================================================================
