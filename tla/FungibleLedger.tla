---------------------------- MODULE FungibleLedger ----------------------------
(***************************************************************************)
(* The balances of one fungible token on all shards: DCTTransfer, local    *)
(* mint and burn, DCTBurn, freeze, unfreeze and wipe, over the roles and   *)
(* the global settings.                                                    *)
(*                                                                         *)
(* As in NFTLedger an action is one call that succeeds, and the node, which*)
(* is external, executes the other half of a cross-shard transfer in any   *)
(* order and sends the tokens of a transfer that fails back.  Unlike an    *)
(* NFT, a fungible balance is read, changed and written with the           *)
(* properties it has, and no liquidity is counted.                         *)
(***************************************************************************)
EXTENDS TransferRules, Functions

CONSTANTS
    Quantities,  \* quantities in calls
    MaxSupply,   \* bound: tokens minted
    Slots        \* bound: slots 1..Slots for cross-shard transfers in flight

\* A chain on which returns to contracts pass: before the flag one could be
\* refused, and NFTLedger has the action (ReturnFails).
ASSUME FungibleAssumption ==
    /\ Quantities \subseteq Nat /\ MaxSupply \in Nat /\ Slots \in Nat
    /\ FixAsyncCallbackCheck \in InitFlags

LocalMintRole == "LocalMint"
LocalBurnRole == "LocalBurn"

VARIABLES
    balance,  \* account -> the DCToken under the key of the token
    wire,     \* slot -> the cross-shard transfer in it
    supply    \* history: tokens minted less burnt and wiped

tokenVars == <<balance, wire, supply>>
vars == <<flags, settings, transferAddresses, roles, latestNonce, owner, handover, minted,
          balance, wire, supply>>

\* saveDCTData deletes an entry that has no value and no properties: the same
\* as one of value zero that is not frozen.
Holding == [value : Nat, frozen : BOOLEAN]
NoHolding == [value |-> 0, frozen |-> FALSE]
MessageType == [phase : {"sent", "returning"}, from : Accounts, to : Accounts,
                value : Nat, call : BOOLEAN]
Free == [phase |-> "free"]

TypeOK ==
    /\ FlagsTypeOK /\ SettingsTypeOK /\ RolesTypeOK
    /\ balance \in [Accounts -> Holding]
    /\ wire \in [1..Slots -> MessageType \union {Free}]
    /\ supply \in Int

Init ==
    /\ FlagsInit /\ SettingsInit /\ RolesInit
    /\ balance = [a \in Accounts |-> NoHolding]
    /\ wire = [i \in 1..Slots |-> Free]
    /\ supply = 0

-----------------------------------------------------------------------------
\* Nothing but the token's own state changes.
OnlyToken == UNCHANGED <<flags, settings, transferAddresses, roles, latestNonce, owner, handover, minted>>

\* Fault: a return with error is checked like any call.
AddRefusedOnReturnToo(bal, a, delta, returning) ==
    FrozenOrPaused(a, bal[a]) \/ bal[a].value + delta < 0

\* Fault: the balance is not compared with what is taken.
AddRefusedWhenHeldOnly(bal, a, delta, returning) == ~returning /\ FrozenOrPaused(a, bal[a])

\* addToDCTBalance: when it returns an error ...
AddRefused(bal, a, delta, returning) ==
    \/ ~returning /\ FrozenOrPaused(a, bal[a])
    \/ bal[a].value + delta < 0

\* Fault: a new token is written instead of the one that was read.
AddedAnew(bal, a, delta) == [bal EXCEPT ![a] = [value |-> bal[a].value + delta, frozen |-> FALSE]]

\* ... and what it writes: the token it read, with the other value.
Added(bal, a, delta) == [bal EXCEPT ![a].value = @ + delta]

\* Mint and burn: a call of an account on its own balance.
ChangeBalance(a, delta) ==
    /\ ~AddRefused(balance, a, delta, FALSE)
    /\ balance' = Added(balance, a, delta)
    /\ supply' = supply + delta
    /\ UNCHANGED wire
    /\ OnlyToken

LocalMint(a, q) ==
    /\ Called("mint")
    /\ q > 0
    /\ HasRole(a, LocalMintRole)
    /\ supply + q <= MaxSupply
    /\ ChangeBalance(a, q)

LocalBurn(a, q) ==
    /\ Called("localBurn")
    /\ q > 0
    /\ settings[ShardOf[a]]["burnRoleForAll"] \/ HasRole(a, LocalBurnRole)
    /\ ChangeBalance(a, -q)

\* DCTBurn, which any holder may call with the system SC as recipient.  What
\* the system SC does with the call on the metachain is not modelled.
Burn(a, q) ==
    /\ Called("burn")
    /\ q > 0
    /\ ChangeBalance(a, -q)

-----------------------------------------------------------------------------
\* DCTTransfer on the shard of the sender, up to the destination's balance.
CanSend(a, b, q) ==
    /\ Called("transfer")
    /\ q > 0
    /\ TransferAllowed(a, b)
    /\ ~AddRefused(balance, a, -q, FALSE)

\* Fault: both balances are read before either is written.
TransferInShardReadFirst(a, b, q, call) ==
    /\ ShardOf[a] = ShardOf[b]
    /\ CanSend(a, b, q)
    /\ Payable(b, call, FALSE)
    /\ ~AddRefused(balance, b, q, FALSE)
    /\ balance' = [balance EXCEPT ![a].value = @ - q, ![b].value = balance[b].value + q]
    /\ UNCHANGED <<wire, supply>>
    /\ OnlyToken

\* Both accounts are in the shard.  A transfer to oneself is not refused: the
\* balance is written, then read again and written once more.
TransferInShard(a, b, q, call) ==
    /\ ShardOf[a] = ShardOf[b]
    /\ CanSend(a, b, q)
    /\ Payable(b, call, FALSE)
    /\ ~AddRefused(Added(balance, a, -q), b, q, FALSE)
    /\ balance' = Added(Added(balance, a, -q), b, q)
    /\ UNCHANGED <<wire, supply>>
    /\ OnlyToken

\* The transaction of a user goes on to the other shard by itself; for a
\* contract the code makes an output transfer with the same arguments.
TransferLeaves(i, a, b, q, call) ==
    /\ wire[i] = Free
    /\ \A j \in 1..(i - 1) : wire[j] # Free
    /\ ShardOf[a] # ShardOf[b]
    /\ CanSend(a, b, q)
    /\ balance' = Added(balance, a, -q)
    /\ wire' = [wire EXCEPT ![i] = [phase |-> "sent", from |-> a, to |-> b, value |-> q, call |-> call]]
    /\ UNCHANGED supply
    /\ OnlyToken

\* ProcessBuiltinFunction without the sender's account: limited transfers are
\* not looked at.
Accepted(m) ==
    LET returning == m.phase = "returning"
    IN  /\ Payable(m.to, m.call, returning)
        /\ ~AddRefused(balance, m.to, m.value, returning)

TransferArrives(i) ==
    /\ wire[i] # Free
    /\ Accepted(wire[i])
    /\ balance' = Added(balance, wire[i].to, wire[i].value)
    /\ wire' = [wire EXCEPT ![i] = Free]
    /\ UNCHANGED supply
    /\ OnlyToken

\* Fault: tokens are returned only when a contract was called.
TransferFailsAfterCall(i) ==
    LET m == wire[i]
    IN  /\ m # Free
        /\ m.phase = "sent"
        /\ m.call
        /\ wire' = [wire EXCEPT ![i] = [m EXCEPT !.phase = "returning", !.from = m.to, !.to = m.from,
                                                 !.call = FALSE]]
        /\ UNCHANGED <<balance, supply>>
        /\ OnlyToken

\* External: the call at the destination fails, in the built-in function or in
\* the contract called after it, and the node returns the tokens.
TransferFails(i) ==
    LET m == wire[i]
    IN  /\ m # Free
        /\ m.phase = "sent"
        /\ ~Accepted(m) \/ m.call
        /\ wire' = [wire EXCEPT ![i] = [m EXCEPT !.phase = "returning", !.from = m.to, !.to = m.from,
                                                 !.call = FALSE]]
        /\ UNCHANGED <<balance, supply>>
        /\ OnlyToken

Settle(i) == TransferArrives(i) \/ TransferFails(i)

-----------------------------------------------------------------------------
\* DCTFreeze and DCTUnFreeze, for an account that may hold nothing yet.
Freeze(a, v) ==
    /\ Called("freeze")
    /\ balance' = [balance EXCEPT ![a].frozen = v]
    /\ UNCHANGED <<wire, supply>>
    /\ OnlyToken

Wipe(a) ==
    /\ Called("wipe")
    /\ balance[a].frozen
    /\ balance' = [balance EXCEPT ![a] = NoHolding]
    /\ supply' = supply - balance[a].value
    /\ UNCHANGED wire
    /\ OnlyToken

ChangeSettings ==
    /\ SettingsCalls
    /\ UNCHANGED <<flags, roles, latestNonce, owner, handover, minted, balance, wire, supply>>

\* A fungible token has no creator, so that only these calls concern roles.
RoleCalls ==
    /\ \E a \in Accounts, R \in RoleSets : SetRole(a, R) \/ UnSetRole(a, R)
    /\ UNCHANGED <<flags, settings, transferAddresses, balance, wire, supply>>

UserCalls(a) ==
    \/ \E q \in Quantities : LocalMint(a, q) \/ LocalBurn(a, q) \/ Burn(a, q)
    \/ \E b \in Accounts, q \in Quantities, call \in BOOLEAN :
          /\ call => b \in Contracts
          /\ \/ TransferInShard(a, b, q, call)
             \/ \E i \in 1..Slots : TransferLeaves(i, a, b, q, call)

SystemCalls ==
    \/ \E a \in Accounts : Wipe(a) \/ \E v \in BOOLEAN : Freeze(a, v)
    \/ ChangeSettings
    \/ RoleCalls

Next ==
    \/ \E a \in Accounts : UserCalls(a)
    \/ SystemCalls
    \/ \E i \in 1..Slots : Settle(i)

Spec == Init /\ [][Next]_vars

\* The node executes every transfer it has received.
FairSpec == Spec /\ \A i \in 1..Slots : WF_vars(Settle(i))

-----------------------------------------------------------------------------
Held == SumFunctionOnSet([a \in Accounts |-> balance[a].value], Accounts)
Travelling == SumFunctionOnSet([i \in 1..Slots |-> IF wire[i] = Free THEN 0 ELSE wire[i].value], 1..Slots)

\* No transfer, to oneself, to another or back, makes or loses a token: what
\* the accounts hold and what is in flight is what was minted, burnt, wiped.
SupplyConserved == Held + Travelling = supply

ReturnedTo(a) == \E i \in 1..Slots : /\ wire[i] # Free
                                    /\ wire[i].phase = "returning" /\ wire[i].to = a
                                    /\ wire'[i] = Free
                                    /\ balance'[a].value = balance[a].value + wire[i].value
WipedNow(a) == balance[a].frozen /\ balance'[a] = NoHolding
                                 /\ supply' = supply - balance[a].value

\* What a frozen or paused account holds changes only by a wipe or by tokens
\* that come back, and tokens that come back do not thaw a frozen account.
HeldStillStands ==
    [][\A a \in Accounts :
         /\ /\ balance[a].frozen \/ settings[ShardOf[a]]["paused"]
            /\ balance'[a].value # balance[a].value
            => WipedNow(a) \/ ReturnedTo(a)
         /\ balance'[a].frozen # balance[a].frozen => balance'[a].value = balance[a].value \/ WipedNow(a)
      ]_vars

\* Tokens on their way back are accepted whenever they arrive, whatever was
\* frozen, paused or limited since they left: none are lost.
ReturnsAreAccepted ==
    \A i \in 1..Slots : wire[i] # Free /\ wire[i].phase = "returning" => Accepted(wire[i])

\* Every cross-shard transfer comes to an end, at its destination or back.
TransfersSettle == \A i \in 1..Slots : wire[i] # Free ~> wire[i] = Free
=============================================================================
