------------------------------ MODULE NFTRoles ------------------------------
(***************************************************************************)
(* The roles of one token and the nonce counter of its NFT creators: the   *)
(* built-in functions that set and unset roles (dctRoles.go), that move    *)
(* the NFT create role from one account to another (one call at the        *)
(* current owner, one at the next owner, dctNFTCreateRoleTransfer.go), and *)
(* the part of DCTNFTCreate that takes the next nonce (dctNFTCreate.go).   *)
(*                                                                         *)
(* Two things are not in the repository and are modelled from how its code *)
(* uses them: the system smart contract on the metachain, the only caller  *)
(* allowed to change roles, and the node, which executes the output        *)
(* transfer of the first half of a role transfer at the next owner's shard.*)
(***************************************************************************)
EXTENDS ShardCoordinator

CONSTANTS
    Roles,           \* role names
    InitRoles,       \* account -> the roles it holds at the start
    InitCreator,     \* the account the system SC has recorded as NFT creator
    RoleSets,        \* the role lists the system SC passes to set and unset
    MultiShard,      \* the token allows creators in several shards
    LastByte,        \* account -> last byte of its address
    RangeSize,       \* MaxUint64 / 256: nonces reserved for one last byte
    SerialHandover,  \* the system SC waits for a role transfer to complete
    MaxCopies,       \* bound: copies of one role in the list of an account
    MaxHandovers     \* bound: role transfers the system SC issues

Create == "NFTCreate"
CreateMultiShard == "NFTCreateMultiShard"

ASSUME RolesAssumption ==
    /\ Create \in Roles /\ CreateMultiShard \in Roles
    /\ InitRoles \in [Accounts -> SUBSET Roles]
    /\ RoleSets \subseteq SUBSET Roles
    /\ MultiShard \in BOOLEAN /\ SerialHandover \in BOOLEAN
    /\ MaxCopies \in Nat \ {0} /\ MaxHandovers \in Nat

\* A token with one creator starts with it; it gets no creator in another way.
ASSUME CreatorAssumption ==
    /\ InitCreator \in Accounts
    /\ ~MultiShard => /\ \A a \in Accounts : /\ (Create \in InitRoles[a]) <=> (a = InitCreator)
                                             /\ CreateMultiShard \notin InitRoles[a]
                      /\ \A R \in RoleSets : Create \notin R /\ CreateMultiShard \notin R

\* The start of each creator's range is a nonce.
ASSUME RangeAssumption ==
    \A a \in Accounts : RangeSize * LastByte[a] \in 0..MaxNonce

Handovers == 1..MaxHandovers

VARIABLES
    roles,        \* account -> role -> copies of the role in its DCTRoles list
    latestNonce,  \* account -> the latest nonce saved under its nonce key
    owner,        \* external: the creator the system SC has recorded
    handover,     \* external: the i-th role transfer, where it is and what it carries
    minted        \* history: nonce -> number of DCTNFTCreate calls that returned it

roleVars == <<roles, latestNonce, owner, handover, minted>>

Unsent == [stage |-> "unsent", from |-> InitCreator, to |-> InitCreator, nonce |-> 0]
HandoverType == [stage : {"unsent", "call", "transfer", "done"},
                 from : Accounts, to : Accounts, nonce : 0..MaxNonce]

RolesTypeOK ==
    /\ roles \in [Accounts -> [Roles -> 0..MaxCopies]]
    /\ latestNonce \in [Accounts -> 0..MaxNonce]
    /\ owner \in Accounts
    /\ handover \in [Handovers -> HandoverType]
    /\ minted \in [Nonces -> 0..2]

RolesInit ==
    /\ roles = [a \in Accounts |-> [r \in Roles |-> IF r \in InitRoles[a] THEN 1 ELSE 0]]
    /\ latestNonce = [a \in Accounts |-> IF CreateMultiShard \in InitRoles[a]
                                         THEN RangeSize * LastByte[a] ELSE 0]
    /\ owner = InitCreator
    /\ handover = [i \in Handovers |-> Unsent]
    /\ minted = [n \in Nonces |-> 0]

-----------------------------------------------------------------------------
\* CheckAllowedToExecute: the role is in the list of the account.
HasRole(a, r) == roles[a][r] > 0

\* computeStartNonce: where the nonces of a multi-shard creator begin.
StartNonce(a) == RangeSize * LastByte[a]

\* append of the arguments: a role already in the list is added once more.
AppendRoles(list, R) == [r \in Roles |-> IF r \in R THEN list[r] + 1 ELSE list[r]]

\* Fault: a role that is not in the list is deleted all the same.
DeleteAnyRole(list, R) == [r \in Roles |-> IF r \in R THEN list[r] - 1 ELSE list[r]]

\* deleteRoles: the first copy of each role, if there is one.
DeleteRoles(list, R) == [r \in Roles |-> IF r \in R /\ list[r] > 0 THEN list[r] - 1 ELSE list[r]]

\* Fault: the role is added to the list but the list is not saved.
AddCreateRoleUnsaved(list) == list

\* addCreateRoleToAccount: only when the list does not have it.
AddCreateRole(list) == IF list[Create] > 0 THEN list ELSE [list EXCEPT ![Create] = 1]

\* DCTSetRole / DCTUnSetRole, called by the system SC.  The multi-shard role
\* among the arguments restarts the nonce of the account, on unset as on set.
ChangeRoles(a, R, newList) ==
    /\ roles' = [roles EXCEPT ![a] = newList]
    /\ latestNonce' = IF CreateMultiShard \in R
                      THEN [latestNonce EXCEPT ![a] = StartNonce(a)]
                      ELSE latestNonce
    /\ UNCHANGED <<owner, handover, minted>>

SetRole(a, R) ==
    /\ \A r \in R : roles[a][r] < MaxCopies
    /\ ChangeRoles(a, R, AppendRoles(roles[a], R))

UnSetRole(a, R) == ChangeRoles(a, R, DeleteRoles(roles[a], R))

\* External: the system SC records the next creator and calls
\* DCTNFTCreateRoleTransfer at the current one.
IssueHandover(i, next) ==
    /\ ~MultiShard
    /\ handover[i].stage = "unsent"
    /\ \A j \in 1..(i - 1) : handover[j].stage # "unsent"
    /\ SerialHandover => \A j \in 1..(i - 1) : handover[j].stage = "done"
    /\ next # owner
    /\ handover' = [handover EXCEPT ![i] = [stage |-> "call", from |-> owner, to |-> next, nonce |-> 0]]
    /\ owner' = next
    /\ UNCHANGED <<roles, latestNonce, minted>>

\* Fault: the current owner keeps the role.
HandoverInShardKeepingRole(i) ==
    LET a == handover[i].from
        b == handover[i].to
    IN  /\ handover[i].stage = "call"
        /\ ShardOf[a] = ShardOf[b]
        /\ latestNonce' = [latestNonce EXCEPT ![a] = 0, ![b] = latestNonce[a]]
        /\ roles' = [roles EXCEPT ![b] = AddCreateRole(@)]
        /\ handover' = [handover EXCEPT ![i].stage = "done"]
        /\ UNCHANGED <<owner, minted>>

\* Fault: the nonce is read after it was set to zero.
HandoverLeavesAfterReset(i) ==
    LET a == handover[i].from
        b == handover[i].to
    IN  /\ handover[i].stage = "call"
        /\ ShardOf[a] # ShardOf[b]
        /\ latestNonce' = [latestNonce EXCEPT ![a] = 0]
        /\ roles' = [roles EXCEPT ![a] = DeleteRoles(@, {Create})]
        /\ handover' = [handover EXCEPT ![i].stage = "transfer", ![i].nonce = latestNonce'[a]]
        /\ UNCHANGED <<owner, minted>>

\* Fault: an account without any role yet is taken for an error.
HandoverArrivesIfKnown(i) ==
    LET b == handover[i].to
    IN  /\ handover[i].stage = "transfer"
        /\ \E r \in Roles : roles[b][r] > 0
        /\ latestNonce' = [latestNonce EXCEPT ![b] = handover[i].nonce]
        /\ roles' = [roles EXCEPT ![b] = AddCreateRole(@)]
        /\ handover' = [handover EXCEPT ![i].stage = "done"]
        /\ UNCHANGED <<owner, minted>>

\* executeTransferNFTCreateChangeAtCurrentOwner.  Nothing checks that the
\* account still has, or ever had, the role.  The output transfer it creates
\* in this case too has no effect: with the sender's account in the shard
\* ProcessBuiltinFunction refuses it.
HandoverInShard(i) ==
    LET a == handover[i].from
        b == handover[i].to
    IN  /\ handover[i].stage = "call"
        /\ ShardOf[a] = ShardOf[b]
        /\ latestNonce' = [latestNonce EXCEPT ![a] = 0, ![b] = latestNonce[a]]
        /\ roles' = [roles EXCEPT ![a] = DeleteRoles(@, {Create}), ![b] = AddCreateRole(@)]
        /\ handover' = [handover EXCEPT ![i].stage = "done"]
        /\ UNCHANGED <<owner, minted>>

HandoverLeaves(i) ==
    LET a == handover[i].from
        b == handover[i].to
    IN  /\ handover[i].stage = "call"
        /\ ShardOf[a] # ShardOf[b]
        /\ latestNonce' = [latestNonce EXCEPT ![a] = 0]
        /\ roles' = [roles EXCEPT ![a] = DeleteRoles(@, {Create})]
        /\ handover' = [handover EXCEPT ![i].stage = "transfer", ![i].nonce = latestNonce[a]]
        /\ UNCHANGED <<owner, minted>>

\* executeTransferNFTCreateChangeAtNextOwner.
HandoverArrives(i) ==
    LET b == handover[i].to
    IN  /\ handover[i].stage = "transfer"
        /\ latestNonce' = [latestNonce EXCEPT ![b] = handover[i].nonce]
        /\ roles' = [roles EXCEPT ![b] = AddCreateRole(@)]
        /\ handover' = [handover EXCEPT ![i].stage = "done"]
        /\ UNCHANGED <<owner, minted>>

\* DCTNFTCreate, as far as it concerns the role and the counter.
AllocateNonce(a) ==
    /\ HasRole(a, Create)
    /\ latestNonce[a] < MaxNonce
    /\ LET next == latestNonce[a] + 1
       IN  /\ minted[next] < 2
           /\ minted' = [minted EXCEPT ![next] = @ + 1]
           /\ latestNonce' = [latestNonce EXCEPT ![a] = next]
    /\ UNCHANGED <<roles, owner, handover>>

HandoverStep(i) == HandoverInShard(i) \/ HandoverLeaves(i) \/ HandoverArrives(i)

\* Every step of the system SC and of the node that concerns roles.
RoleAdministration ==
    \/ \E a \in Accounts, R \in RoleSets : SetRole(a, R) \/ UnSetRole(a, R)
    \/ \E i \in Handovers, b \in Accounts : IssueHandover(i, b)
    \/ \E i \in Handovers : HandoverStep(i)

RolesNext == RoleAdministration \/ \E a \in Accounts : AllocateNonce(a)

RolesSpec == RolesInit /\ [][RolesNext]_roleVars

\* The node executes a call it has received: every role transfer moves on.
RolesFairness == \A i \in Handovers : WF_roleVars(HandoverStep(i))
FairRolesSpec == RolesSpec /\ RolesFairness

-----------------------------------------------------------------------------
\* Two DCTNFTCreate calls never return the same nonce: the nonce is the key
\* under which balances and metadata of the token are stored.
NonceNeverReused == \A n \in Nonces : minted[n] <= 1

\* At most one account can create, whatever role transfer is under way.
UniqueCreator == \A a, b \in Accounts : HasRole(a, Create) /\ HasRole(b, Create) => a = b

\* The counter travels with the role: who can create knows how many nonces
\* were allocated before, by whomever, and while the role is in flight the
\* call that carries it does.
CreatorKnowsEveryNonce ==
    /\ \A a \in Accounts : HasRole(a, Create) =>
          \A n \in Nonces : (minted[n] > 0) <=> (n <= latestNonce[a])
    /\ \A i \in Handovers : handover[i].stage = "transfer" =>
          \A n \in Nonces : (minted[n] > 0) <=> (n <= handover[i].nonce)

\* When no role transfer is under way the account the system SC has recorded,
\* and no other, can create: the role is neither lost nor left behind.
RecordedOwnerCreates ==
    (\A i \in Handovers : handover[i].stage \in {"unsent", "done"}) =>
        \A a \in Accounts : HasRole(a, Create) <=> a = owner

\* A role transfer the system SC has issued reaches the next owner.
HandoverCompletes == \A i \in Handovers : handover[i].stage = "call" ~> handover[i].stage = "done"
=============================================================================
