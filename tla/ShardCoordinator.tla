---------------------- MODULE ShardCoordinator ----------------------
(*******************************************************************)
(* What the built-in functions ask of the Coordinator interface:   *)
(* ComputeId places an address, SelfId is the executing shard, and *)
(* SameShard compares two addresses.  The node implements it.      *)
(*******************************************************************)
EXTENDS Integers, FiniteSets

\* Users and contracts.  Of tokens, one collection is modelled.
CONSTANT Accounts

\* ShardOf[a] is ComputeId(a): the shard that executes calls on a.
\* The metachain executes none of them and is not among Shards.
CONSTANTS Shards, ShardOf

\* Bound: no nonce of the collection above it is allocated.
CONSTANT MaxNonce

\* An address is in one shard for good.
ASSUME CoordinatorAssumption ==
    /\ IsFiniteSet(Accounts)
    /\ ShardOf \in [Accounts -> Shards]
    /\ MaxNonce \in Nat

\* The addresses for which ComputeId is s, those a node of s stores.
AccountsOf(s) == {a \in Accounts : ShardOf[a] = s}

\* Nonce 0 is the fungible token's.
Nonces == 1..MaxNonce
=====================================================================
