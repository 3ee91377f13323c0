----------------------------- MODULE MCNFTLedger -----------------------------
(***************************************************************************)
(* Instances of NFTLedger for TLC.                                         *)
(***************************************************************************)
EXTENDS NFTLedger

\* Two users in one shard, so that transfers stay in it and several holders
\* share its liquidity, and one account in another shard.
MCAccounts == {"alice", "bob", "carol"}
MCShardOf == [alice |-> 0, bob |-> 0, carol |-> 1]
MCLastByte == [alice |-> 0, bob |-> 0, carol |-> 0]
MCRoles == {Create, CreateMultiShard, AddQuantityRole, BurnRole, UpdateRole, TransferRole}

\* alice creates, everybody burns, alice and carol may change metadata.
MCInitRoles == [alice |-> {Create, AddQuantityRole, BurnRole, UpdateRole},
                bob |-> {BurnRole},
                carol |-> {BurnRole, UpdateRole}]

\* The flags of a chain that has passed all its epochs.
MCCurrentFlags == AllFlags
MCNone == {}

\* A chain that has its checks but keeps metadata on the accounts, and the
\* epochs that move metadata to the system account and count liquidity there.
MCOldFlags == {CheckTransfer, CheckFrozenCollection, CheckCorrectTokenID, FixAsyncCallbackCheck}
MCMigrationFlags == {SaveToSystemAccount, SendAlways, FixOldTokenLiquidity}

\* A chain that keeps metadata on the system account, and the epochs after it.
MCSavedFlags == {SaveToSystemAccount, CheckFrozenCollection, CheckCorrectTokenID}
MCLaterFlags == {SendAlways, FixAsyncCallbackCheck}
=============================================================================
