--------------------------- MODULE MCFungibleLedger ---------------------------
(***************************************************************************)
(* An instance of FungibleLedger for TLC: two users in one shard and a     *)
(* contract in another.  alice mints and burns, and the transfer role is   *)
(* given to and taken from any account.                                    *)
(***************************************************************************)
EXTENDS FungibleLedger

MCAccounts == {"alice", "bob", "carol"}
MCShardOf == [alice |-> 0, bob |-> 0, carol |-> 1]
MCLastByte == [alice |-> 0, bob |-> 0, carol |-> 0]
MCRoles == {Create, CreateMultiShard, LocalMintRole, LocalBurnRole, TransferRole}
MCInitRoles == [alice |-> {LocalMintRole, LocalBurnRole}, bob |-> {}, carol |-> {}]
MCRoleSets == {{TransferRole}}

MCCurrentFlags == AllFlags
MCNone == {}
=============================================================================
