----------------------------- MODULE MCNFTRoles -----------------------------
(***************************************************************************)
(* Instances of NFTRoles for TLC.                                          *)
(***************************************************************************)
EXTENDS NFTRolesRefinement

\* Two accounts in one shard and one in another, so that role transfers take
\* both the path inside a shard and the one across shards.
MCAccounts == {"alice", "bob", "carol"}
MCShardOf == [alice |-> 0, bob |-> 0, carol |-> 1]
MCRoles == {Create, CreateMultiShard, "NFTBurn"}

\* One creator.
MCOneCreator == [alice |-> {Create}, bob |-> {}, carol |-> {"NFTBurn"}]
MCOtherRoles == {{"NFTBurn"}}
MCSameByte == [alice |-> 0, bob |-> 0, carol |-> 0]

\* A creator in each of two shards, whose addresses end in different bytes.
MCTwoAccounts == {"alice", "carol"}
MCTwoShardOf == [alice |-> 0, carol |-> 1]
MCTwoCreators == [alice |-> {Create, CreateMultiShard}, carol |-> {Create, CreateMultiShard}]
MCCreatorRoles == {{Create, CreateMultiShard}}
MCDistinctBytes == [alice |-> 0, carol |-> 1]
=============================================================================
