---------------------------- MODULE MCMultiTransfer ----------------------------
(***************************************************************************)
(* Instances of MultiTransfer for TLC.                                     *)
(***************************************************************************)
EXTENDS MultiTransfer

\* Two users in one shard and one account in another.
MCAccounts == {"alice", "bob", "carol"}
MCShardOf == [alice |-> 0, bob |-> 0, carol |-> 1]
MCLastByte == [alice |-> 0, bob |-> 0, carol |-> 0]
MCRoles == {Create, CreateMultiShard, AddQuantityRole, BurnRole, UpdateRole, TransferRole}
MCInitRoles == [alice |-> {Create, AddQuantityRole, BurnRole}, bob |-> {}, carol |-> {BurnRole}]

\* One in each shard, and one list of one token.
MCTwoAccounts == {"alice", "carol"}
MCTwoShardOf == [alice |-> 0, carol |-> 1]
MCTwoLastByte == [alice |-> 0, carol |-> 0]
MCTwoInitRoles == [alice |-> {Create, AddQuantityRole}, carol |-> {}]

Item(n, q) == [nonce |-> n, value |-> q]

\* A nonce alone, the same one twice, and two in both orders.
MCLists == {<<Item(1, 1)>>, <<Item(1, 1), Item(1, 1)>>, <<Item(1, 2), Item(2, 1)>>,
            <<Item(2, 1), Item(1, 1)>>}
MCSingles == {<<Item(1, 1)>>}

\* Bound: at most one holding or collection of an account is frozen at a time.
FewFrozen == Cardinality({p \in Accounts \X Keys : store.entry[p[1]][p[2]].frozen}) <= 1

MCCurrentFlags == AllFlags
MCNone == {}

\* A chain that keeps metadata on the accounts, and the epoch that moves it.
MCOldFlags == {CheckTransfer, CheckFrozenCollection, CheckCorrectTokenID, FixAsyncCallbackCheck}
MCMoveFlags == {SaveToSystemAccount}
=============================================================================
