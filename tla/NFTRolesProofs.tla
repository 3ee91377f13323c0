---------------------------- MODULE NFTRolesProofs ----------------------------
(***************************************************************************)
(* Proofs about NFTRoles and its refinement of NonceSequence, for a token  *)
(* with one creator whose role transfers are issued one after another.     *)
(*                                                                         *)
(* NonceNeverReused is not inductive: that the next nonce is new follows   *)
(* from the creator knowing every nonce so far, which in turn needs that   *)
(* it is the only one, that a role transfer under way finds the role at    *)
(* the account it is taken from (or in nobody's hands), and that there is  *)
(* one role transfer at a time.  RolesInv puts these together.             *)
(***************************************************************************)
EXTENDS NFTRolesRefinement, TLAPS

\* The account a role transfer starts from has the role, once in its list, and
\* while the call is on its way nobody has it; the next owner is recorded.
CallFindsRole ==
    \A i \in Handovers : handover[i].stage = "call" =>
        /\ handover[i].from # handover[i].to
        /\ handover[i].to = owner
        /\ \A a \in Accounts : HasRole(a, Create) <=> a = handover[i].from

TransferHoldsRole ==
    \A i \in Handovers : handover[i].stage = "transfer" =>
        /\ handover[i].to = owner
        /\ \A a \in Accounts : ~HasRole(a, Create)

OneCopy == \A a \in Accounts : roles[a][Create] <= 1

\* Role transfers happen one after another.
OneAtATime ==
    \A i \in Handovers : handover[i].stage # "unsent" =>
        \A j \in Handovers : j < i => handover[j].stage = "done"

RolesInv ==
    /\ RolesTypeOK
    /\ OneCopy
    /\ OneAtATime
    /\ CallFindsRole
    /\ TransferHoldsRole
    /\ RecordedOwnerCreates
    /\ CreatorKnowsEveryNonce
    /\ NonceNeverReused

-----------------------------------------------------------------------------
\* What the list operations of dctRoles.go and dctNFTCreateRoleTransfer.go
\* return: a list again, and whether it has the create role.
LEMMA RoleLists ==
    ASSUME NEW list \in [Roles -> 0..MaxCopies], NEW R \in SUBSET Roles
    PROVE  /\ DeleteRoles(list, R) \in [Roles -> 0..MaxCopies]
           /\ AddCreateRole(list) \in [Roles -> 0..MaxCopies]
           /\ AddCreateRole(list)[Create] = IF list[Create] > 0 THEN list[Create] ELSE 1
           /\ (\A r \in R : list[r] < MaxCopies) => AppendRoles(list, R) \in [Roles -> 0..MaxCopies]
           /\ Create \notin R => /\ DeleteRoles(list, R)[Create] = list[Create]
                                 /\ AppendRoles(list, R)[Create] = list[Create]
           /\ list[Create] <= 1 => DeleteRoles(list, {Create})[Create] = 0
<1>1. MaxCopies \in Nat \ {0} /\ Create \in Roles
  BY RolesAssumption
<1>2. \A r \in Roles : list[r] \in 0..MaxCopies
  OBVIOUS
<1>3. \A r \in Roles : list[r] > 0 => list[r] - 1 \in 0..MaxCopies
  BY <1>1, <1>2
<1>4. DeleteRoles(list, R) \in [Roles -> 0..MaxCopies]
  BY <1>2, <1>3 DEF DeleteRoles
<1>5. 1 \in 0..MaxCopies
  BY <1>1
<1>6. /\ AddCreateRole(list) \in [Roles -> 0..MaxCopies]
      /\ AddCreateRole(list)[Create] = IF list[Create] > 0 THEN list[Create] ELSE 1
  BY <1>1, <1>2, <1>5 DEF AddCreateRole
<1>7. ASSUME \A r \in R : list[r] < MaxCopies
      PROVE  AppendRoles(list, R) \in [Roles -> 0..MaxCopies]
  <2>1. \A r \in R : list[r] + 1 \in 0..MaxCopies
    BY <1>1, <1>2, <1>7
  <2> QED
    BY <1>2, <2>1 DEF AppendRoles
<1>8. Create \notin R => /\ DeleteRoles(list, R)[Create] = list[Create]
                         /\ AppendRoles(list, R)[Create] = list[Create]
  BY <1>1 DEF DeleteRoles, AppendRoles
<1>9. list[Create] <= 1 => DeleteRoles(list, {Create})[Create] = 0
  BY <1>1, <1>2 DEF DeleteRoles
<1> QED
  BY <1>4, <1>6, <1>7, <1>8, <1>9

\* The start of a range is a nonce.
LEMMA StartIsNonce == \A a \in Accounts : StartNonce(a) \in 0..MaxNonce
BY RangeAssumption DEF StartNonce

LEMMA InitTypeOK == RolesInit => RolesTypeOK
<1> SUFFICES ASSUME RolesInit PROVE RolesTypeOK
  OBVIOUS
<1>1. MaxCopies \in Nat \ {0} /\ MaxNonce \in Nat /\ InitCreator \in Accounts
  BY RolesAssumption, CoordinatorAssumption, CreatorAssumption
<1>2. roles \in [Accounts -> [Roles -> 0..MaxCopies]]
  BY <1>1 DEF RolesInit
<1>3. latestNonce \in [Accounts -> 0..MaxNonce]
  BY <1>1, RangeAssumption DEF RolesInit
<1>4. handover \in [Handovers -> HandoverType]
  BY <1>1 DEF RolesInit, Unsent, HandoverType
<1> QED
  BY <1>1, <1>2, <1>3, <1>4 DEF RolesInit, RolesTypeOK

LEMMA NextTypeOK == RolesTypeOK /\ [RolesNext]_roleVars => RolesTypeOK'
<1> SUFFICES ASSUME RolesTypeOK, [RolesNext]_roleVars PROVE RolesTypeOK'
  OBVIOUS
<1> USE DEF RolesTypeOK
<1>1. MaxNonce \in Nat /\ 0 \in 0..MaxNonce /\ InitCreator \in Accounts /\ {Create} \subseteq Roles
  BY CoordinatorAssumption, CreatorAssumption, RolesAssumption
<1>2. ASSUME NEW a \in Accounts, NEW R \in RoleSets, SetRole(a, R) \/ UnSetRole(a, R)
      PROVE  RolesTypeOK'
  <2>1. R \subseteq Roles
    BY RolesAssumption
  <2>2. PICK list \in [Roles -> 0..MaxCopies] : ChangeRoles(a, R, list)
    BY <1>2, <2>1, RoleLists DEF SetRole, UnSetRole
  <2> QED
    BY <2>2, StartIsNonce DEF ChangeRoles
<1>3. ASSUME NEW i \in Handovers, NEW b \in Accounts, IssueHandover(i, b)
      PROVE  RolesTypeOK'
  BY <1>1, <1>3 DEF IssueHandover, HandoverType
<1>4. ASSUME NEW i \in Handovers, HandoverStep(i)
      PROVE  RolesTypeOK'
  <2> DEFINE a == handover[i].from
             b == handover[i].to
  <2>1. a \in Accounts /\ b \in Accounts /\ handover[i].nonce \in 0..MaxNonce
    BY DEF HandoverType
  <2>2. \A c \in Accounts : /\ DeleteRoles(roles[c], {Create}) \in [Roles -> 0..MaxCopies]
                            /\ AddCreateRole(roles[c]) \in [Roles -> 0..MaxCopies]
    BY <1>1, RoleLists
  <2>3. CASE HandoverInShard(i)
    <3>1. roles' \in [Accounts -> [Roles -> 0..MaxCopies]]
      <4>1. [roles EXCEPT ![a] = DeleteRoles(roles[a], {Create})] \in [Accounts -> [Roles -> 0..MaxCopies]]
        BY <2>1, <2>2
      <4>2. a = b => AddCreateRole(DeleteRoles(roles[a], {Create})) \in [Roles -> 0..MaxCopies]
        BY <1>1, <2>1, <2>2, RoleLists
      <4> QED
        BY <2>1, <2>2, <2>3, <4>1, <4>2 DEF HandoverInShard
    <3>2. latestNonce' \in [Accounts -> 0..MaxNonce]
      BY <1>1, <2>1, <2>3 DEF HandoverInShard
    <3>3. handover' \in [Handovers -> HandoverType] /\ UNCHANGED <<owner, minted>>
      BY <2>3 DEF HandoverInShard, HandoverType
    <3> QED
      BY <3>1, <3>2, <3>3
  <2>4. CASE HandoverLeaves(i)
    BY <1>1, <2>1, <2>2, <2>4 DEF HandoverLeaves, HandoverType
  <2>5. CASE HandoverArrives(i)
    BY <1>1, <2>1, <2>2, <2>5 DEF HandoverArrives, HandoverType
  <2> QED
    BY <1>4, <2>3, <2>4, <2>5 DEF HandoverStep
<1>5. ASSUME NEW a \in Accounts, AllocateNonce(a)
      PROVE  RolesTypeOK'
  <2>1. latestNonce[a] + 1 \in Nonces
    BY <1>1, <1>5 DEF AllocateNonce, Nonces
  <2>2. latestNonce' \in [Accounts -> 0..MaxNonce]
    BY <1>1, <1>5, <2>1 DEF AllocateNonce, Nonces
  <2>3. minted' \in [Nonces -> 0..2]
    BY <1>5, <2>1 DEF AllocateNonce
  <2> QED
    BY <1>5, <2>2, <2>3 DEF AllocateNonce
<1>6. CASE UNCHANGED roleVars
  BY <1>6 DEF roleVars
<1> QED
  BY <1>2, <1>3, <1>4, <1>5, <1>6 DEF RolesNext, RoleAdministration

\* Whatever the roles and role transfers, every list, counter and call has
\* the values the code gives it.
THEOREM TypeCorrect == RolesSpec => []RolesTypeOK
<1>1. RolesInit => RolesTypeOK
  BY InitTypeOK
<1>2. RolesTypeOK /\ [RolesNext]_roleVars => RolesTypeOK'
  BY NextTypeOK
<1> QED
  BY <1>1, <1>2, PTL DEF RolesSpec

-----------------------------------------------------------------------------
\* While one role transfer is under way every other one is over or to come.
LEMMA OthersRest ==
    ASSUME RolesTypeOK, OneAtATime,
           NEW i \in Handovers, handover[i].stage \in {"call", "transfer"},
           NEW j \in Handovers, j # i
    PROVE  handover[j].stage = IF j < i THEN "done" ELSE "unsent"
<1>1. i \in Int /\ j \in Int
  BY RolesAssumption DEF Handovers
<1> QED
  BY <1>1 DEF OneAtATime

\* The create role is with one account, or in one call on its way.
LEMMA RoleIsSomewhere ==
    ASSUME RolesInv
    PROVE  /\ UniqueCreator
           /\ \/ \E a \in Accounts : HasRole(a, Create)
              \/ \E i \in Handovers : handover[i].stage = "transfer"
<1>1. owner \in Accounts /\ \A i \in Handovers : handover[i] \in HandoverType
  BY DEF RolesInv, RolesTypeOK
<1>2. CASE \E i \in Handovers : handover[i].stage = "transfer"
  BY <1>2 DEF RolesInv, TransferHoldsRole, UniqueCreator
<1>3. CASE \E i \in Handovers : handover[i].stage = "call"
  BY <1>1, <1>3 DEF RolesInv, CallFindsRole, UniqueCreator, HandoverType
<1>4. CASE \A i \in Handovers : handover[i].stage \in {"unsent", "done"}
  BY <1>1, <1>4 DEF RolesInv, RecordedOwnerCreates, UniqueCreator
<1> QED
  BY <1>1, <1>2, <1>3, <1>4 DEF HandoverType

\* A step that leaves the create role, the counters and the role transfers
\* alone leaves the invariant alone.
LEMMA CreateRoleUntouched ==
    ASSUME RolesInv, RolesTypeOK',
           \A a \in Accounts : roles'[a][Create] = roles[a][Create],
           UNCHANGED <<latestNonce, owner, handover, minted>>
    PROVE  RolesInv'
BY DEF RolesInv, OneCopy, OneAtATime, CallFindsRole, TransferHoldsRole, RecordedOwnerCreates,
       CreatorKnowsEveryNonce, NonceNeverReused, HasRole

LEMMA InitInv == ~MultiShard /\ RolesInit => RolesInv
<1> SUFFICES ASSUME ~MultiShard, RolesInit PROVE RolesInv
  OBVIOUS
<1>1. Create \in Roles /\ MaxNonce \in Nat
  BY RolesAssumption, CoordinatorAssumption
<1>2. \A i \in Handovers : handover[i].stage = "unsent"
  BY DEF RolesInit, Unsent
<1>3. \A a \in Accounts : roles[a][Create] = IF a = InitCreator THEN 1 ELSE 0
  BY <1>1, CreatorAssumption DEF RolesInit
<1>4. ASSUME NEW a \in Accounts, HasRole(a, Create), NEW n \in Nonces
      PROVE  (minted[n] > 0) <=> (n <= latestNonce[a])
  <2>1. a = InitCreator
    BY <1>3, <1>4 DEF HasRole
  <2>2. latestNonce[a] = 0
    BY <1>4, <2>1, CreatorAssumption DEF RolesInit
  <2> QED
    BY <1>1, <2>2 DEF RolesInit, Nonces
<1>5. CreatorKnowsEveryNonce
  BY <1>2, <1>4 DEF CreatorKnowsEveryNonce
<1>6. OneAtATime /\ CallFindsRole /\ TransferHoldsRole
  BY <1>2 DEF OneAtATime, CallFindsRole, TransferHoldsRole
<1>7. OneCopy /\ RecordedOwnerCreates
  <2>1. owner = InitCreator
    BY DEF RolesInit
  <2> QED
    BY <1>3, <2>1 DEF OneCopy, RecordedOwnerCreates, HasRole
<1>8. NonceNeverReused
  BY DEF RolesInit, NonceNeverReused
<1> QED
  BY <1>5, <1>6, <1>7, <1>8, InitTypeOK DEF RolesInv

LEMMA NextInv == ~MultiShard /\ SerialHandover /\ RolesInv /\ [RolesNext]_roleVars => RolesInv'
<1> SUFFICES ASSUME ~MultiShard, SerialHandover, RolesInv, [RolesNext]_roleVars PROVE RolesInv'
  OBVIOUS
<1>1. RolesTypeOK /\ RolesTypeOK'
  BY NextTypeOK DEF RolesInv
<1>2. /\ MaxNonce \in Nat /\ Create \in Roles /\ CreateMultiShard \in Roles
      /\ \A R \in RoleSets : R \subseteq Roles /\ Create \notin R /\ CreateMultiShard \notin R
  BY CoordinatorAssumption, RolesAssumption, CreatorAssumption
<1>3. \A a \in Accounts : /\ roles[a] \in [Roles -> 0..MaxCopies]
                         /\ roles[a][Create] \in {0, 1}
  <2>1. MaxCopies \in Nat
    BY RolesAssumption
  <2>2. ASSUME NEW a \in Accounts
        PROVE  roles[a] \in [Roles -> 0..MaxCopies] /\ roles[a][Create] \in {0, 1}
    <3>1. roles[a] \in [Roles -> 0..MaxCopies] /\ roles[a][Create] \in 0..MaxCopies
      BY <1>1, <1>2 DEF RolesTypeOK
    <3>2. roles[a][Create] <= 1
      BY DEF RolesInv, OneCopy
    <3> QED
      BY <2>1, <3>1, <3>2
  <2> QED
    BY <2>2
<1>4. ASSUME NEW a \in Accounts, NEW R \in RoleSets, SetRole(a, R) \/ UnSetRole(a, R)
      PROVE  RolesInv'
  <2>1. PICK list : ChangeRoles(a, R, list) /\ list[Create] = roles[a][Create]
    BY <1>2, <1>3, <1>4, RoleLists DEF SetRole, UnSetRole
  <2>2. \A c \in Accounts : roles'[c][Create] = roles[c][Create]
    BY <1>1, <2>1 DEF ChangeRoles, RolesTypeOK
  <2>3. UNCHANGED <<latestNonce, owner, handover, minted>>
    BY <1>2, <2>1 DEF ChangeRoles
  <2> QED
    BY <1>1, <2>2, <2>3, CreateRoleUntouched
<1>5. ASSUME NEW i \in Handovers, NEW b \in Accounts, IssueHandover(i, b)
      PROVE  RolesInv'
  <2>1. \A j \in Handovers : handover[j].stage = IF j < i THEN "done" ELSE "unsent"
    <3>1. \A j \in Handovers : j < i => j \in 1..(i - 1)
      BY RolesAssumption DEF Handovers
    <3>2. \A j \in Handovers : i \in Int /\ j \in Int
      BY RolesAssumption DEF Handovers
    <3> QED
      BY <1>5, <3>1, <3>2 DEF IssueHandover, RolesInv, OneAtATime
  <2>2. \A a \in Accounts : HasRole(a, Create) <=> a = owner
    BY <2>1 DEF RolesInv, RecordedOwnerCreates
  <2>3. /\ handover' = [handover EXCEPT ![i] = [stage |-> "call", from |-> owner, to |-> b, nonce |-> 0]]
        /\ b # owner /\ owner' = b
        /\ UNCHANGED <<roles, latestNonce, minted>>
    BY <1>5 DEF IssueHandover
  <2>4. /\ handover'[i] = [stage |-> "call", from |-> owner, to |-> b, nonce |-> 0]
        /\ \A j \in Handovers : j # i => handover'[j] = handover[j]
    BY <1>1, <2>3 DEF RolesTypeOK
  <2>5. OneAtATime'
    <3>1. \A j \in Handovers : i \in Int /\ j \in Int
      BY RolesAssumption DEF Handovers
    <3> QED
      BY <2>1, <2>4, <3>1 DEF OneAtATime
  <2>6. CallFindsRole'
    BY <2>1, <2>2, <2>3, <2>4 DEF CallFindsRole, HasRole
  <2>7. TransferHoldsRole' /\ RecordedOwnerCreates'
    BY <2>1, <2>4 DEF TransferHoldsRole, RecordedOwnerCreates
  <2>8. CreatorKnowsEveryNonce'
    BY <2>1, <2>3, <2>4 DEF RolesInv, CreatorKnowsEveryNonce, HasRole
  <2> QED
    BY <1>1, <2>3, <2>5, <2>6, <2>7, <2>8 DEF RolesInv, OneCopy, NonceNeverReused
<1>6. ASSUME NEW i \in Handovers, HandoverStep(i)
      PROVE  RolesInv'
  <2> DEFINE a == handover[i].from
             b == handover[i].to
  <2>1. a \in Accounts /\ b \in Accounts /\ handover[i].nonce \in 0..MaxNonce
    BY <1>1 DEF RolesTypeOK, HandoverType
  <2>2. handover[i].stage \in {"call", "transfer"}
    BY <1>6 DEF HandoverStep, HandoverInShard, HandoverLeaves, HandoverArrives
  <2>3. \A j \in Handovers : j # i => handover[j].stage = IF j < i THEN "done" ELSE "unsent"
    BY <1>1, <2>2, OthersRest DEF RolesInv
  <2>4. /\ handover'[i].stage \in {"transfer", "done"}
        /\ \A j \in Handovers : j # i => handover'[j] = handover[j]
        /\ UNCHANGED <<owner, minted>>
    BY <1>1, <1>6 DEF HandoverStep, HandoverInShard, HandoverLeaves, HandoverArrives, RolesTypeOK, HandoverType
  <2>5. OneAtATime'
    <3>1. \A j \in Handovers : i \in Int /\ j \in Int
      BY RolesAssumption DEF Handovers
    <3> QED
      BY <2>3, <2>4, <3>1 DEF OneAtATime
  <2>6. CallFindsRole'
    BY <2>3, <2>4 DEF CallFindsRole
  <2>7. NonceNeverReused'
    BY <2>4 DEF RolesInv, NonceNeverReused
  <2>8. b = owner
    BY <2>2 DEF RolesInv, CallFindsRole, TransferHoldsRole
  <2>9. \A c \in Accounts : /\ DeleteRoles(roles[c], {Create})[Create] = 0
                            /\ AddCreateRole(roles[c])[Create] = 1
    <3>1. \A c \in Accounts : /\ DeleteRoles(roles[c], {Create})[Create] = 0
                              /\ AddCreateRole(roles[c])[Create] = IF roles[c][Create] > 0
                                                                   THEN roles[c][Create] ELSE 1
      <4>1. {Create} \in SUBSET Roles
        BY <1>2
      <4>2. \A c \in Accounts : roles[c][Create] <= 1
        BY <1>3
      <4> QED
        BY <1>3, <4>1, <4>2, RoleLists
    <3>2. \A c \in Accounts : roles[c][Create] = 0 \/ roles[c][Create] = 1
      BY <1>3
    <3> QED
      BY <3>1, <3>2
  <2>10. CASE HandoverInShard(i)
    <3>1. a # b /\ \A c \in Accounts : HasRole(c, Create) <=> c = a
      BY <2>10 DEF HandoverInShard, RolesInv, CallFindsRole
    <3>2. /\ \A c \in Accounts : c # a /\ c # b => roles'[c] = roles[c]
          /\ roles'[a][Create] = 0 /\ roles'[b][Create] = 1
          /\ latestNonce'[b] = latestNonce[a]
          /\ handover'[i].stage = "done"
      BY <1>1, <2>1, <2>9, <2>10, <3>1 DEF HandoverInShard, RolesTypeOK
    <3>3. \A c \in Accounts : HasRole(c, Create)' <=> c = b
      BY <3>1, <3>2 DEF HasRole
    <3>4. OneCopy'
      BY <1>3, <3>2 DEF OneCopy
    <3>5. TransferHoldsRole' /\ RecordedOwnerCreates'
      BY <2>3, <2>4, <2>8, <3>2, <3>3 DEF TransferHoldsRole, RecordedOwnerCreates
    <3>6. CreatorKnowsEveryNonce'
      <4>1. \A n \in Nonces : (minted[n] > 0) <=> (n <= latestNonce[a])
        BY <2>1, <3>1 DEF RolesInv, CreatorKnowsEveryNonce
      <4> QED
        BY <2>3, <2>4, <3>2, <3>3, <4>1 DEF CreatorKnowsEveryNonce
    <3> QED
      BY <1>1, <2>5, <2>6, <2>7, <3>4, <3>5, <3>6 DEF RolesInv
  <2>11. CASE HandoverLeaves(i)
    <3>1. \A c \in Accounts : HasRole(c, Create) <=> c = a
      BY <2>11 DEF HandoverLeaves, RolesInv, CallFindsRole
    <3>2. /\ \A c \in Accounts : c # a => roles'[c] = roles[c]
          /\ roles'[a][Create] = 0
          /\ handover'[i].stage = "transfer" /\ handover'[i].to = b
          /\ handover'[i].nonce = latestNonce[a]
      <4>1. /\ handover[i] \in HandoverType
            /\ handover' = [handover EXCEPT ![i] = [handover[i] EXCEPT !.stage = "transfer",
                                                                      !.nonce = latestNonce[a]]]
        BY <1>1, <2>11 DEF HandoverLeaves, RolesTypeOK
      <4>2. handover'[i] = [handover[i] EXCEPT !.stage = "transfer", !.nonce = latestNonce[a]]
        BY <1>1, <4>1 DEF RolesTypeOK
      <4>3. /\ handover'[i].stage = "transfer" /\ handover'[i].to = b
            /\ handover'[i].nonce = latestNonce[a]
        BY <4>1, <4>2 DEF HandoverType
      <4> QED
        BY <1>1, <2>1, <2>9, <2>11, <4>3 DEF HandoverLeaves, RolesTypeOK
    <3>3. \A c \in Accounts : ~HasRole(c, Create)'
      BY <3>1, <3>2 DEF HasRole
    <3>4. OneCopy'
      BY <1>3, <3>2 DEF OneCopy
    <3>5. TransferHoldsRole' /\ RecordedOwnerCreates'
      BY <2>3, <2>4, <2>8, <3>2, <3>3 DEF TransferHoldsRole, RecordedOwnerCreates
    <3>6. CreatorKnowsEveryNonce'
      <4>1. \A n \in Nonces : (minted[n] > 0) <=> (n <= latestNonce[a])
        BY <2>1, <3>1 DEF RolesInv, CreatorKnowsEveryNonce
      <4> QED
        BY <2>3, <2>4, <3>2, <3>3, <4>1 DEF CreatorKnowsEveryNonce
    <3> QED
      BY <1>1, <2>5, <2>6, <2>7, <3>4, <3>5, <3>6 DEF RolesInv
  <2>12. CASE HandoverArrives(i)
    <3>1. \A c \in Accounts : ~HasRole(c, Create)
      BY <2>12 DEF HandoverArrives, RolesInv, TransferHoldsRole
    <3>2. /\ \A c \in Accounts : c # b => roles'[c] = roles[c]
          /\ roles'[b][Create] = 1
          /\ latestNonce'[b] = handover[i].nonce
          /\ handover'[i].stage = "done"
      BY <1>1, <2>1, <2>9, <2>12 DEF HandoverArrives, RolesTypeOK
    <3>3. \A c \in Accounts : HasRole(c, Create)' <=> c = b
      BY <3>1, <3>2 DEF HasRole
    <3>4. OneCopy'
      BY <1>3, <3>2 DEF OneCopy
    <3>5. TransferHoldsRole' /\ RecordedOwnerCreates'
      BY <2>3, <2>4, <2>8, <3>2, <3>3 DEF TransferHoldsRole, RecordedOwnerCreates
    <3>6. CreatorKnowsEveryNonce'
      <4>1. \A n \in Nonces : (minted[n] > 0) <=> (n <= handover[i].nonce)
        BY <2>12 DEF HandoverArrives, RolesInv, CreatorKnowsEveryNonce
      <4> QED
        BY <2>3, <2>4, <3>2, <3>3, <4>1 DEF CreatorKnowsEveryNonce
    <3> QED
      BY <1>1, <2>5, <2>6, <2>7, <3>4, <3>5, <3>6 DEF RolesInv
  <2> QED
    BY <1>6, <2>10, <2>11, <2>12 DEF HandoverStep
<1>7. ASSUME NEW a \in Accounts, AllocateNonce(a)
      PROVE  RolesInv'
  <2> DEFINE next == latestNonce[a] + 1
  <2>1. /\ HasRole(a, Create) /\ next \in Nonces
        /\ minted' = [minted EXCEPT ![next] = @ + 1]
        /\ latestNonce' = [latestNonce EXCEPT ![a] = next]
        /\ UNCHANGED <<roles, owner, handover>>
    BY <1>1, <1>2, <1>7 DEF AllocateNonce, RolesTypeOK, Nonces
  <2>2. \A n \in Nonces : (minted[n] > 0) <=> (n <= latestNonce[a])
    BY <2>1 DEF RolesInv, CreatorKnowsEveryNonce
  <2>3. minted[next] = 0
    <3>1. latestNonce[a] \in Int /\ minted[next] \in 0..2
      BY <1>1, <2>1 DEF RolesTypeOK
    <3>2. ~(next <= latestNonce[a])
      BY <3>1
    <3>3. ~(minted[next] > 0)
      BY <2>1, <2>2, <3>2
    <3> QED
      BY <3>1, <3>3
  <2>4. NonceNeverReused'
    BY <1>1, <2>1, <2>3 DEF RolesTypeOK, RolesInv, NonceNeverReused
  <2>5. \A n \in Nonces : (minted'[n] > 0) <=> (n <= next)
    BY <1>1, <2>1, <2>2, <2>3 DEF RolesTypeOK, Nonces
  <2>6. \A c \in Accounts : HasRole(c, Create) => c = a
    BY <2>1, RoleIsSomewhere DEF UniqueCreator
  <2>7. \A i \in Handovers : handover[i].stage # "transfer"
    BY <2>1 DEF RolesInv, TransferHoldsRole
  <2>8. CreatorKnowsEveryNonce'
    <3>1. latestNonce'[a] = next
      BY <1>1, <2>1 DEF RolesTypeOK
    <3> QED
      BY <2>1, <2>5, <2>6, <2>7, <3>1 DEF CreatorKnowsEveryNonce, HasRole
  <2>9. (OneCopy /\ OneAtATime /\ CallFindsRole /\ TransferHoldsRole /\ RecordedOwnerCreates)'
    BY <2>1 DEF RolesInv, OneCopy, OneAtATime, CallFindsRole, TransferHoldsRole, RecordedOwnerCreates, HasRole
  <2> QED
    BY <1>1, <2>4, <2>8, <2>9 DEF RolesInv
<1>8. CASE UNCHANGED roleVars
  BY <1>1, <1>8, CreateRoleUntouched DEF roleVars
<1> QED
  BY <1>4, <1>5, <1>6, <1>7, <1>8 DEF RolesNext, RoleAdministration

LEMMA RolesInvariant ==
    ASSUME ~MultiShard, SerialHandover
    PROVE  RolesSpec => []RolesInv
<1>1. RolesInit => RolesInv
  BY InitInv
<1>2. RolesInv /\ [RolesNext]_roleVars => RolesInv'
  BY NextInv
<1> QED
  BY <1>1, <1>2, PTL DEF RolesSpec

\* No two NFTs of the collection get the same nonce.
THEOREM NoncesAreUnique ==
    ASSUME ~MultiShard, SerialHandover
    PROVE  RolesSpec => []NonceNeverReused
<1>1. RolesInv => NonceNeverReused
  BY DEF RolesInv
<1> QED
  BY <1>1, RolesInvariant, PTL

\* The create role is never with two accounts.
THEOREM CreatorIsUnique ==
    ASSUME ~MultiShard, SerialHandover
    PROVE  RolesSpec => []UniqueCreator
<1>1. RolesInv => UniqueCreator
  BY RoleIsSomewhere
<1> QED
  BY <1>1, RolesInvariant, PTL

\* The counter travels with the role, across shards too.
THEOREM CounterTravels ==
    ASSUME ~MultiShard, SerialHandover
    PROVE  RolesSpec => []CreatorKnowsEveryNonce
<1>1. RolesInv => CreatorKnowsEveryNonce
  BY DEF RolesInv
<1> QED
  BY <1>1, RolesInvariant, PTL

\* Between role transfers the role is with the account the system SC recorded.
THEOREM OwnerCreates ==
    ASSUME ~MultiShard, SerialHandover
    PROVE  RolesSpec => []RecordedOwnerCreates
<1>1. RolesInv => RecordedOwnerCreates
  BY DEF RolesInv
<1> QED
  BY <1>1, RolesInvariant, PTL

-----------------------------------------------------------------------------
\* What HolderNow and LastNow are.
RoleKnown ==
    /\ \A a \in Accounts : HasRole(a, Create) => HolderNow = a /\ LastNow = latestNonce[a]
    /\ \A i \in Handovers : handover[i].stage = "transfer" =>
          HolderNow = Nobody /\ LastNow = handover[i].nonce

LEMMA RoleIsKnown == RolesInv => RoleKnown
<1> SUFFICES ASSUME RolesInv PROVE RoleKnown
  OBVIOUS
<1>1. ASSUME NEW a \in Accounts, HasRole(a, Create)
      PROVE  HolderNow = a /\ LastNow = latestNonce[a]
  <2>1. Holders # {}
    BY <1>1 DEF Holders
  <2>2. \A c \in Accounts : HasRole(c, Create) => c = a
    BY <1>1, RoleIsSomewhere DEF UniqueCreator
  <2>3. (CHOOSE c \in Accounts : HasRole(c, Create)) = a
    BY <1>1, <2>2
  <2> QED
    BY <2>1, <2>3 DEF HolderNow, LastNow
<1>2. ASSUME NEW i \in Handovers, handover[i].stage = "transfer"
      PROVE  HolderNow = Nobody /\ LastNow = handover[i].nonce
  <2>1. Holders = {}
    BY <1>2 DEF Holders, RolesInv, TransferHoldsRole
  <2>2. \A j \in Handovers : handover[j].stage = "transfer" => j = i
    BY <1>2, OthersRest DEF RolesInv
  <2>3. (CHOOSE j \in Handovers : handover[j].stage = "transfer") = i
    BY <1>2, <2>2
  <2> QED
    BY <2>1, <2>3 DEF HolderNow, LastNow
<1> QED
  BY <1>1, <1>2 DEF RoleKnown

LEMMA StepIsSequenceStep ==
    ASSUME ~MultiShard, RolesInv, RolesInv', RoleKnown, RoleKnown', [RolesNext]_roleVars
    PROVE  [Sequence!Next]_<<HolderNow, LastNow>>
<1> USE DEF Sequence!Next
<1>1. ASSUME \A a \in Accounts : HasRole(a, Create)' <=> HasRole(a, Create),
             UNCHANGED latestNonce,
             \A i \in Handovers : handover[i].stage = "transfer" => handover'[i] = handover[i]
      PROVE  UNCHANGED <<HolderNow, LastNow>>
  BY <1>1, RoleIsSomewhere DEF RoleKnown
<1>2. ASSUME NEW a \in Accounts, NEW R \in RoleSets, SetRole(a, R) \/ UnSetRole(a, R)
      PROVE  UNCHANGED <<HolderNow, LastNow>>
  <2>1. /\ R \in SUBSET Roles /\ Create \in Roles /\ Create \notin R /\ CreateMultiShard \notin R
        /\ roles[a] \in [Roles -> 0..MaxCopies]
    BY RolesAssumption, CreatorAssumption DEF RolesInv, RolesTypeOK
  <2>2. PICK list : ChangeRoles(a, R, list) /\ list[Create] = roles[a][Create]
    BY <1>2, <2>1, RoleLists DEF SetRole, UnSetRole
  <2>3. \A c \in Accounts : roles'[c][Create] = roles[c][Create]
    BY <2>2 DEF ChangeRoles, RolesInv, RolesTypeOK
  <2> QED
    BY <1>1, <2>1, <2>2, <2>3 DEF ChangeRoles, HasRole
<1>3. ASSUME NEW i \in Handovers, NEW b \in Accounts, IssueHandover(i, b)
      PROVE  UNCHANGED <<HolderNow, LastNow>>
  <2>1. \A j \in Handovers : handover[j].stage = "transfer" => handover'[j] = handover[j]
    BY <1>3 DEF IssueHandover, RolesInv, RolesTypeOK
  <2> QED
    BY <1>1, <1>3, <2>1 DEF IssueHandover, HasRole
<1>4. ASSUME NEW i \in Handovers, HandoverInShard(i)
      PROVE  Sequence!PassOn
  <2> DEFINE a == handover[i].from
             b == handover[i].to
  <2>1. a \in Accounts /\ b \in Accounts /\ b # Nobody /\ a # Nobody /\ a # b
    BY <1>4, NobodyAssumption DEF HandoverInShard, RolesInv, RolesTypeOK, HandoverType, CallFindsRole
  <2>2. HasRole(a, Create)
    BY <1>4, <2>1 DEF HandoverInShard, RolesInv, CallFindsRole
  <2>3. roles'[b][Create] > 0 /\ latestNonce'[b] = latestNonce[a]
    <3>1. Create \in Roles /\ roles[b] \in [Roles -> 0..MaxCopies] /\ {Create} \in SUBSET Roles
      BY <2>1, RolesAssumption DEF RolesInv, RolesTypeOK
    <3>2. roles'[b] = AddCreateRole(roles[b]) /\ latestNonce'[b] = latestNonce[a]
      BY <1>4, <2>1 DEF HandoverInShard, RolesInv, RolesTypeOK
    <3> QED
      <4>1. roles[b][Create] \in 0..MaxCopies /\ MaxCopies \in Nat
        BY <3>1, RolesAssumption
      <4>2. AddCreateRole(roles[b])[Create] = IF roles[b][Create] > 0 THEN roles[b][Create] ELSE 1
        BY <3>1, RoleLists
      <4> QED
        BY <3>2, <4>1, <4>2
  <2> QED
    BY <2>1, <2>2, <2>3 DEF RoleKnown, Sequence!PassOn, HasRole
<1>5. ASSUME NEW i \in Handovers, HandoverLeaves(i)
      PROVE  Sequence!Release
  <2> DEFINE a == handover[i].from
  <2>1. a \in Accounts /\ a # Nobody /\ HasRole(a, Create)
    BY <1>5, NobodyAssumption DEF HandoverLeaves, RolesInv, RolesTypeOK, HandoverType, CallFindsRole
  <2>2. handover[i] \in HandoverType
    BY DEF RolesInv, RolesTypeOK
  <2>3. handover'[i] = [handover[i] EXCEPT !.stage = "transfer", !.nonce = latestNonce[a]]
    BY <1>5, <2>2 DEF HandoverLeaves, RolesInv, RolesTypeOK
  <2>4. handover'[i].stage = "transfer" /\ handover'[i].nonce = latestNonce[a]
    BY <2>2, <2>3 DEF HandoverType
  <2> QED
    BY <2>1, <2>4 DEF RoleKnown, Sequence!Release
<1>6. ASSUME NEW i \in Handovers, HandoverArrives(i)
      PROVE  Sequence!Acquire
  <2> DEFINE b == handover[i].to
  <2>1. b \in Accounts /\ handover[i].stage = "transfer"
    BY <1>6 DEF HandoverArrives, RolesInv, RolesTypeOK, HandoverType
  <2>2. roles'[b][Create] > 0 /\ latestNonce'[b] = handover[i].nonce
    <3>1. Create \in Roles /\ roles[b] \in [Roles -> 0..MaxCopies] /\ {Create} \in SUBSET Roles
      BY <2>1, RolesAssumption DEF RolesInv, RolesTypeOK
    <3>2. roles'[b] = AddCreateRole(roles[b]) /\ latestNonce'[b] = handover[i].nonce
      BY <1>6, <2>1 DEF HandoverArrives, RolesInv, RolesTypeOK
    <3> QED
      <4>1. roles[b][Create] \in 0..MaxCopies /\ MaxCopies \in Nat
        BY <3>1, RolesAssumption
      <4>2. AddCreateRole(roles[b])[Create] = IF roles[b][Create] > 0 THEN roles[b][Create] ELSE 1
        BY <3>1, RoleLists
      <4> QED
        BY <3>2, <4>1, <4>2
  <2> QED
    BY <2>1, <2>2 DEF RoleKnown, Sequence!Acquire, HasRole
<1>7. ASSUME NEW a \in Accounts, AllocateNonce(a)
      PROVE  Sequence!TakeNonce
  <2>1. HasRole(a, Create) /\ HasRole(a, Create)' /\ a # Nobody
    BY <1>7, NobodyAssumption DEF AllocateNonce, HasRole
  <2>2. latestNonce'[a] = latestNonce[a] + 1
    BY <1>7 DEF AllocateNonce, RolesInv, RolesTypeOK
  <2> QED
    BY <2>1, <2>2 DEF RoleKnown, Sequence!TakeNonce
<1>8. CASE UNCHANGED roleVars
  BY <1>1, <1>8 DEF roleVars, HasRole
<1> QED
  BY <1>2, <1>3, <1>4, <1>5, <1>6, <1>7, <1>8 DEF RolesNext, RoleAdministration, HandoverStep

\* The handlers implement the abstract sequence of nonces (its safety part:
\* that the role always arrives is model-checked).
THEOREM NoncesAreASequence ==
    ASSUME ~MultiShard, SerialHandover
    PROVE  RolesSpec => Sequence!SequenceSpec
<1>1. RolesInit => Sequence!Init
  <2> SUFFICES ASSUME RolesInit PROVE Sequence!Init
    OBVIOUS
  <2>1. RolesInv /\ RoleKnown
    BY InitInv, RoleIsKnown
  <2>2. HasRole(InitCreator, Create) /\ latestNonce[InitCreator] = 0
    BY CreatorAssumption, RolesAssumption DEF RolesInit, HasRole
  <2> QED
    BY <2>1, <2>2, CreatorAssumption DEF RoleKnown, Sequence!Init
<1>2. RolesInv /\ RolesInv' /\ RoleKnown /\ RoleKnown' /\ [RolesNext]_roleVars
         => [Sequence!Next]_<<HolderNow, LastNow>>
  BY StepIsSequenceStep
<1> QED
  BY <1>1, <1>2, RolesInvariant, RoleIsKnown, PTL DEF RolesSpec, Sequence!SequenceSpec
=============================================================================
