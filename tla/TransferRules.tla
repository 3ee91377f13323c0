---------------------------- MODULE TransferRules ----------------------------
(***************************************************************************)
(* What every kind of transfer asks before it moves tokens: whether the    *)
(* holding is frozen or the token paused, whether a limited token may move *)
(* between two accounts (both in dctTransfer.go), and whether a contract   *)
(* may be paid (payable.go).                                               *)
(***************************************************************************)
EXTENDS GlobalSettings, NFTRoles

CONSTANTS
    Contracts,   \* accounts that are smart contracts, not payable without a call
    Operations   \* the operations that are called, by name

ASSUME ContractsAssumption == Contracts \subseteq Accounts

TransferRole == "Transfer"

\* Fault: the pause is not looked up.
FrozenOnly(a, tok) == tok.frozen

\* checkFrozeAndPause: for the token it is given.  A return with error passes.
FrozenOrPaused(a, tok) == tok.frozen \/ settings[ShardOf[a]]["paused"]

\* checkIfTransferCanHappenWithLimitedTransfer, on the sender's shard.  Before
\* the flag the roles were looked up under a wrong key.  The destination's own
\* role counts only when its account is in the shard.
TransferAllowed(a, b) ==
    \/ ~settings[ShardOf[a]]["limitedTransfer"]
    \/ /\ On(CheckCorrectTokenID)
       /\ \/ Listed(ShardOf[a], a, b)
          \/ HasRole(a, TransferRole)
          \/ ShardOf[a] = ShardOf[b] /\ HasRole(b, TransferRole)

\* CheckPayable: a call after the transfer, or the return of one that failed,
\* is not asked whether the contract is payable.
Payable(to, call, returning) ==
    to \notin Contracts \/ call \/ (returning /\ On(FixAsyncCallbackCheck))

Called(op) == op \in Operations

\* Calls of the system SC on the settings of the token.
SettingsCalls ==
    \/ \E s \in Shards, x \in SettingNames, v \in BOOLEAN : Called(x) /\ ToggleSetting(s, x, v)
    \/ Called("addresses") /\ \E s \in Shards, a \in Accounts :
          AddTransferAddresses(s, {a}) \/ DeleteTransferAddresses(s, {a})
=============================================================================
