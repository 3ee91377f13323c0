-------------------------- MODULE NFTRolesRefinement --------------------------
(***************************************************************************)
(* The role and nonce handlers of a token with one creator implement       *)
(* NonceSequence: the holder is the account with the create role, the last *)
(* nonce is the one it knows, or the one the call in flight carries.       *)
(***************************************************************************)
EXTENDS NFTRoles

CONSTANT Nobody   \* no account: the create role is in flight

ASSUME NobodyAssumption == Nobody \notin Accounts

Holders == {a \in Accounts : HasRole(a, Create)}

HolderNow == IF Holders = {} THEN Nobody ELSE CHOOSE a \in Accounts : HasRole(a, Create)
LastNow == IF Holders = {}
           THEN handover[CHOOSE i \in Handovers : handover[i].stage = "transfer"].nonce
           ELSE latestNonce[HolderNow]

Sequence == INSTANCE NonceSequence WITH First <- InitCreator,
                                        holder <- HolderNow, last <- LastNow

\* The nonces of the collection form one sequence, and the right to extend it
\* always comes back to somebody.
ImplementsNonceSequence == Sequence!FairSequenceSpec
=============================================================================
