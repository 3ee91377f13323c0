---------------------------- MODULE NodeCallsProofs ----------------------------
(***************************************************************************)
(* That the two halves of a call on an account return its gas once, that   *)
(* rewards go to the owner and none is lost or paid twice, and that a node *)
(* which executes these calls and the loops one at a time keeps what is    *)
(* proved of each, for any accounts and shards and any number of calls     *)
(* under way.                                                              *)
(***************************************************************************)
EXTENDS NodeCalls, ArgumentsProofs, SumTheorems

Slots == 1..CallSlots

\* What the cost of a function leaves of the gas.
Rest(gas) == IF gas < GasCost THEN 0 ELSE gas - GasCost

\* What a call is at each stage.
OwnerCall == [stage : {"sent"}, fn : {"owner"}, from : Accounts, to : Contracts, new : Accounts,
              gas : GasProvided, given : Nat]
ClaimCall == [stage : {"sent"}, fn : {"claim"}, from : Accounts, to : Contracts,
              gas : GasProvided, given : Nat]
NameCall == [stage : {"sent"}, fn : {"name"}, from : DNSAddresses, to : Accounts, new : Names,
             gas : GasProvided, given : Nat]
PaidCall == [stage : {"paid"}, from : Accounts, value : Nat, gas : GasProvided, given : Nat]
DoneCall == [stage : {"done"}, from : Accounts, gas : GasProvided, given : Nat]

LEMMA CallTypes ==
    CallType = {FreeSlot} \union OwnerCall \union ClaimCall \union NameCall \union PaidCall
                  \union DoneCall
BY DEF CallType, OwnerCall, ClaimCall, NameCall, PaidCall, DoneCall

LEMMA SentCalls ==
    ASSUME NEW m \in CallType
    PROVE  /\ m.stage = "sent" => m.fn \in {"owner", "claim", "name"}
           /\ m.stage = "sent" /\ m.fn = "owner" => m \in OwnerCall
           /\ m.stage = "sent" /\ m.fn = "claim" => m \in ClaimCall
           /\ m.stage = "sent" /\ m.fn = "name" => m \in NameCall
           /\ m.stage = "paid" => m \in PaidCall
           /\ m.stage = "done" => m \in DoneCall
BY CallTypes DEF FreeSlot, OwnerCall, ClaimCall, NameCall, PaidCall, DoneCall

LEMMA GasFacts ==
    /\ \A gas \in GasProvided : gas \in Nat /\ Rest(gas) \in Nat
    /\ \A gas \in GasProvided : GasRemaining(TRUE, gas) = Rest(gas)
    /\ \A gas \in GasProvided : gas >= GasCost => gas - GasCost = Rest(gas)
BY AccountsAssumption DEF GasRemaining, Rest

-----------------------------------------------------------------------------
\* What has been given back is all that the cost leaves if a user called, and
\* nothing yet if a name is on its way.
GasInv ==
    \A i \in Slots : calls[i] # FreeSlot =>
        /\ calls[i].given <= Rest(calls[i].gas)
        /\ calls[i].from \notin Contracts => calls[i].given = Rest(calls[i].gas)
        /\ calls[i].stage = "sent" /\ calls[i].fn = "name" => calls[i].given = 0

\* A slot with a good call in it.
GoodCall(m) ==
    m # FreeSlot =>
        /\ m.given <= Rest(m.gas)
        /\ m.from \notin Contracts => m.given = Rest(m.gas)
        /\ m.stage = "sent" /\ m.fn = "name" => m.given = 0

AccountInv == AccountsTypeOK /\ GasInv

LEMMA InitAccount == AccountsInit => AccountInv
BY AccountsAssumption, CallTypes
   DEF AccountsInit, AccountInv, AccountsTypeOK, GasInv, FreeSlot, Slots, NoName

\* A step that changes one slot, to a good call, keeps the invariant.
LEMMA OneSlot ==
    ASSUME AccountInv, NEW i \in Slots, NEW m \in CallType, GoodCall(m),
           calls' = [calls EXCEPT ![i] = m],
           owner' \in [Contracts -> Accounts], rewards' \in [Contracts -> Nat],
           balance' \in [Accounts -> Nat], name' \in [Accounts -> Names \union {NoName}],
           earned' \in Nat
    PROVE  AccountInv'
<1>1. calls \in [Slots -> CallType]
  BY DEF AccountInv, AccountsTypeOK, Slots
<1>2. calls' \in [Slots -> CallType]
  BY <1>1
<1>3. \A j \in Slots : calls'[j] = m \/ calls'[j] = calls[j]
  BY <1>1
<1>4. GasInv'
  BY <1>3 DEF AccountInv, GasInv, GoodCall
<1>5. QED
  BY <1>2, <1>4 DEF AccountInv, AccountsTypeOK, Slots

LEMMA AccountTypes ==
    ASSUME AccountInv
    PROVE  /\ owner \in [Contracts -> Accounts] /\ rewards \in [Contracts -> Nat]
           /\ balance \in [Accounts -> Nat] /\ name \in [Accounts -> Names \union {NoName}]
           /\ earned \in Nat
           /\ \A i \in Slots : calls[i] \in CallType /\ GoodCall(calls[i])
BY DEF AccountInv, AccountsTypeOK, GasInv, GoodCall, Slots

LEMMA BeginKeeps ==
    ASSUME AccountInv, NEW i \in Slots, CallBegins(i)
    PROVE  AccountInv'
<1> USE AccountTypes, GasFacts
<1>1. PICK gas \in GasProvided :
        \/ \E a, b \in Accounts, c \in Contracts :
              ChangeOwnerHere(i, a, c, b, gas) \/ ChangeOwnerLeaves(i, a, c, b, gas)
        \/ \E a \in Accounts, c \in Contracts :
              \/ \E async \in BOOLEAN : ClaimHere(i, a, c, gas, async)
              \/ ClaimLeaves(i, a, c, gas)
        \/ \E d \in DNSAddresses, u \in Accounts, n \in Names :
              SetNameHere(i, d, u, n, gas) \/ SetNameLeaves(i, d, u, n, gas)
  BY DEF CallBegins
<1>0. gas \in Nat /\ Rest(gas) \in Nat /\ GasRemaining(TRUE, gas) = Rest(gas)
  BY <1>1
<1>2. ASSUME NEW a \in Accounts, NEW b \in Accounts, NEW c \in Contracts,
             ChangeOwnerHere(i, a, c, b, gas)
      PROVE  AccountInv'
  <2> DEFINE m == [stage |-> "done", from |-> a, gas |-> gas, given |-> Rest(gas)]
  <2>1. m \in CallType /\ GoodCall(m)
    BY <1>0, CallTypes DEF DoneCall, GoodCall, FreeSlot
  <2>2. calls' = [calls EXCEPT ![i] = m] /\ owner' \in [Contracts -> Accounts]
    BY <1>2, <1>0 DEF ChangeOwnerHere, Issue
  <2>3. QED
    BY <2>1, <2>2, <1>2, OneSlot DEF ChangeOwnerHere
<1>3. ASSUME NEW a \in Accounts, NEW b \in Accounts, NEW c \in Contracts,
             ChangeOwnerLeaves(i, a, c, b, gas)
      PROVE  AccountInv'
  <2> DEFINE m == [stage |-> "sent", fn |-> "owner", from |-> a, to |-> c, new |-> b,
                   gas |-> gas, given |-> Rest(gas)]
  <2>1. m \in CallType /\ GoodCall(m)
    BY <1>0, CallTypes DEF OwnerCall, GoodCall, FreeSlot
  <2>2. calls' = [calls EXCEPT ![i] = m]
    BY <1>3, <1>0 DEF ChangeOwnerLeaves, Issue
  <2>3. QED
    BY <2>1, <2>2, <1>3, OneSlot DEF ChangeOwnerLeaves
<1>4. ASSUME NEW a \in Accounts, NEW c \in Contracts, NEW async \in BOOLEAN,
             ClaimHere(i, a, c, gas, async)
      PROVE  AccountInv'
  <2> DEFINE m == [stage |-> "done", from |-> a, gas |-> gas,
                   given |-> IF async THEN 0 ELSE Rest(gas)]
  <2>1. m \in DoneCall
    BY DEF DoneCall
  <2>2. GoodCall(m)
    BY <1>0, <1>4 DEF GoodCall, ClaimHere
  <2>3. calls' = [calls EXCEPT ![i] = m]
    BY <1>4, <1>0 DEF ClaimHere, Issue
  <2>4. rewards' \in [Contracts -> Nat] /\ balance' \in [Accounts -> Nat]
    BY <1>4 DEF ClaimHere
  <2>5. QED
    BY <2>1, <2>2, <2>3, <2>4, <1>4, CallTypes, OneSlot DEF ClaimHere
<1>5. ASSUME NEW a \in Accounts, NEW c \in Contracts, ClaimLeaves(i, a, c, gas)
      PROVE  AccountInv'
  <2> DEFINE m == [stage |-> "sent", fn |-> "claim", from |-> a, to |-> c, gas |-> gas,
                   given |-> Rest(gas)]
  <2>1. m \in CallType /\ GoodCall(m)
    BY <1>0, CallTypes DEF ClaimCall, GoodCall, FreeSlot
  <2>2. calls' = [calls EXCEPT ![i] = m]
    BY <1>5, <1>0 DEF ClaimLeaves, Issue
  <2>3. QED
    BY <2>1, <2>2, <1>5, OneSlot DEF ClaimLeaves
<1>6. ASSUME NEW d \in DNSAddresses, NEW u \in Accounts, NEW n \in Names,
             SetNameHere(i, d, u, n, gas)
      PROVE  AccountInv'
  <2> DEFINE m == [stage |-> "done", from |-> d, gas |-> gas, given |-> gas - GasCost]
  <2>1. gas - GasCost = Rest(gas) /\ d \in Accounts
    BY <1>6, AccountsAssumption DEF SetNameHere
  <2>2. m \in CallType /\ GoodCall(m)
    BY <2>1, CallTypes DEF DoneCall, GoodCall, FreeSlot
  <2>3. calls' = [calls EXCEPT ![i] = m] /\ name' \in [Accounts -> Names \union {NoName}]
    BY <1>6 DEF SetNameHere, Issue
  <2>4. QED
    BY <2>2, <2>3, <1>6, OneSlot DEF SetNameHere
<1>7. ASSUME NEW d \in DNSAddresses, NEW u \in Accounts, NEW n \in Names,
             SetNameLeaves(i, d, u, n, gas)
      PROVE  AccountInv'
  <2> DEFINE m == [stage |-> "sent", fn |-> "name", from |-> d, to |-> u, new |-> n,
                   gas |-> gas, given |-> 0]
  <2>1. m \in CallType /\ GoodCall(m)
    BY CallTypes, AccountsAssumption DEF NameCall, GoodCall, FreeSlot
  <2>2. calls' = [calls EXCEPT ![i] = m]
    BY <1>7 DEF SetNameLeaves, Issue
  <2>3. QED
    BY <2>1, <2>2, <1>7, OneSlot DEF SetNameLeaves
<1>8. QED
  BY <1>1, <1>2, <1>3, <1>4, <1>5, <1>6, <1>7

\* The half without the caller.
LEMMA EndKeeps ==
    ASSUME AccountInv, NEW i \in Slots, CallEnds(i)
    PROVE  AccountInv'
<1> DEFINE m == calls[i]
<1>0. m \in CallType /\ GoodCall(m)
  BY AccountTypes
<1> USE AccountTypes
<1>1. CASE ChangeOwnerArrives(i)
  <2> DEFINE d == Done(m, m.given + GasRemaining(FALSE, m.gas))
  <2>1. m \in OwnerCall
    BY <1>0, <1>1, SentCalls DEF ChangeOwnerArrives, Waiting
  <2>2. d = Done(m, m.given)
    <3>1. GasRemaining(FALSE, m.gas) = 0
      BY DEF GasRemaining
    <3>2. m.given + 0 = m.given
      BY <2>1 DEF OwnerCall
    <3>3. QED
      BY <3>1, <3>2
  <2>3. Done(m, m.given) \in DoneCall /\ GoodCall(Done(m, m.given))
    BY <2>1, <1>0 DEF OwnerCall, DoneCall, Done, GoodCall, FreeSlot
  <2>4. calls' = [calls EXCEPT ![i] = Done(m, m.given)] /\ owner' \in [Contracts -> Accounts]
    BY <1>1, <2>1, <2>2 DEF ChangeOwnerArrives, OwnerCall
  <2>5. QED
    BY <2>3, <2>4, <1>1, CallTypes, OneSlot DEF ChangeOwnerArrives
<1>2. CASE ClaimArrives(i)
  <2> DEFINE p == [stage |-> "paid", from |-> m.from, value |-> rewards[m.to], gas |-> m.gas,
                   given |-> m.given]
  <2>1. m \in ClaimCall
    BY <1>0, <1>2, SentCalls DEF ClaimArrives, Waiting
  <2>2. m.given + GasRemaining(FALSE, m.gas) = m.given
    <3>1. GasRemaining(FALSE, m.gas) = 0
      BY DEF GasRemaining
    <3>2. m.given + 0 = m.given
      BY <2>1 DEF ClaimCall
    <3>3. QED
      BY <3>1, <3>2
  <2>3. p \in PaidCall /\ GoodCall(p)
    BY <2>1, <1>0 DEF ClaimCall, PaidCall, GoodCall, FreeSlot
  <2>4. calls' = [calls EXCEPT ![i] = p] /\ rewards' \in [Contracts -> Nat]
    BY <1>2, <2>1, <2>2 DEF ClaimArrives, ClaimCall
  <2>5. QED
    BY <2>3, <2>4, <1>2, CallTypes, OneSlot DEF ClaimArrives
<1>3. CASE SetNameArrives(i)
  <2> DEFINE d == Done(m, m.given + (m.gas - GasCost))
  <2>1. m \in NameCall /\ m.given = 0
    BY <1>0, <1>3, SentCalls DEF SetNameArrives, Waiting, GoodCall, FreeSlot
  <2>2. m.gas \in Nat /\ m.gas >= GasCost /\ GasCost \in Nat
    <3>1. m.gas \in Nat /\ GasCost \in Nat
      BY <2>1, AccountsAssumption DEF NameCall
    <3>2. ~(m.gas < GasCost)
      BY <1>3 DEF SetNameArrives, Refused
    <3>3. QED
      BY <3>1, <3>2
  <2>3. m.given + (m.gas - GasCost) = Rest(m.gas) /\ Rest(m.gas) \in Nat
    BY <2>1, <2>2 DEF Rest
  <2>4. Done(m, Rest(m.gas)) \in DoneCall /\ GoodCall(Done(m, Rest(m.gas)))
    BY <2>1, <2>3, AccountsAssumption DEF NameCall, DoneCall, Done, GoodCall, FreeSlot
  <2>5. calls' = [calls EXCEPT ![i] = Done(m, Rest(m.gas))]
        /\ name' \in [Accounts -> Names \union {NoName}]
    BY <1>3, <2>1, <2>3 DEF SetNameArrives, NameCall
  <2>6. QED
    BY <2>4, <2>5, <1>3, CallTypes, OneSlot DEF SetNameArrives
<1>4. CASE CallFails(i)
  <2>1. m.stage = "sent"
    BY <1>4 DEF CallFails
  <2>2. m.from \in Accounts /\ m.gas \in GasProvided /\ m.given \in Nat
    BY <1>0, <2>1, SentCalls, AccountsAssumption DEF OwnerCall, ClaimCall, NameCall
  <2>3. Done(m, m.given) \in DoneCall /\ GoodCall(Done(m, m.given))
    BY <2>1, <2>2, <1>0 DEF DoneCall, Done, GoodCall, FreeSlot
  <2>4. calls' = [calls EXCEPT ![i] = Done(m, m.given)]
    BY <1>4 DEF CallFails
  <2>5. QED
    BY <2>3, <2>4, <1>4, CallTypes, OneSlot DEF CallFails
<1>5. CASE Deliver(i)
  <2>1. m \in PaidCall
    BY <1>0, <1>5, SentCalls DEF Deliver
  <2>2. Done(m, m.given) \in DoneCall /\ GoodCall(Done(m, m.given))
    BY <2>1, <1>0 DEF PaidCall, DoneCall, Done, GoodCall, FreeSlot
  <2>3. calls' = [calls EXCEPT ![i] = Done(m, m.given)] /\ balance' \in [Accounts -> Nat]
    BY <1>5, <2>1 DEF Deliver, PaidCall
  <2>4. QED
    BY <2>2, <2>3, <1>5, CallTypes, OneSlot DEF Deliver
<1>6. QED
  BY <1>1, <1>2, <1>3, <1>4, <1>5 DEF CallEnds

LEMMA AccountKeeps == AccountInv /\ [AccountNext]_accountVars => AccountInv'
<1> SUFFICES ASSUME AccountInv, [AccountNext]_accountVars PROVE AccountInv'
  OBVIOUS
<1>1. CASE AccountBegin
  BY <1>1, BeginKeeps DEF AccountBegin, Slots
<1>2. CASE \E i \in Slots : CallEnds(i)
  BY <1>2, EndKeeps
<1>3. CASE \E i \in Slots : Book(i)
  <2>1. PICK i \in Slots : Book(i)
    BY <1>3
  <2>2. FreeSlot \in CallType /\ GoodCall(FreeSlot)
    BY CallTypes DEF GoodCall
  <2>3. QED
    BY <2>1, <2>2, AccountTypes, OneSlot DEF Book
<1>4. CASE \E c \in Contracts : Earn(c)
  <2>1. PICK c \in Contracts : Earn(c)
    BY <1>4
  <2>2. rewards' \in [Contracts -> Nat] /\ earned' \in Nat
    BY <2>1, AccountTypes DEF Earn
  <2>3. QED
    BY <2>1, <2>2 DEF Earn, AccountInv, AccountsTypeOK, GasInv
<1>5. CASE UNCHANGED accountVars
  BY <1>5 DEF accountVars, AccountInv, AccountsTypeOK, GasInv
<1>6. QED
  BY <1>1, <1>2, <1>3, <1>4, <1>5 DEF AccountNext, AccountStep, Slots

LEMMA GasReturned == AccountInv => GasReturnedOnce
BY DEF AccountInv, GasInv, GasReturnedOnce, Rest, Slots

\* Rewards and balances stay numbers, owners accounts, calls calls
\* (changeOwnerAddress.go, claimDeveloperRewards.go, saveUserName.go).
THEOREM AccountsTypeCorrect == AccountSpec => []AccountsTypeOK
<1>1. AccountInv => AccountsTypeOK
  BY DEF AccountInv
<1>2. QED
  BY <1>1, InitAccount, AccountKeeps, PTL DEF AccountSpec

\* The two halves of a call return its gas once, and to a user all of it
\* (computeGasRemaining and the calls of it).
THEOREM GasIsReturnedOnce == AccountSpec => []GasReturnedOnce
BY InitAccount, AccountKeeps, GasReturned, PTL DEF AccountSpec

-----------------------------------------------------------------------------
\* What PaidToOwner says of one step.
PaidStep ==
    \A c \in Contracts : rewards'[c] < rewards[c] =>
        \/ balance' = [balance EXCEPT ![owner[c]] = @ + rewards[c]]
        \/ \E i \in 1..CallSlots : /\ calls'[i].stage = "paid"
                                  /\ calls'[i].from = owner[c]
                                  /\ calls'[i].value = rewards[c]

LEMMA RewardsStay ==
    ASSUME AccountInv, rewards' = rewards
    PROVE  PaidStep
BY AccountTypes DEF PaidStep

LEMMA StepPays == AccountInv /\ [AccountNext]_accountVars => PaidStep
<1> SUFFICES ASSUME AccountInv, [AccountNext]_accountVars PROVE PaidStep
  OBVIOUS
<1> USE AccountTypes
<1>1. ASSUME NEW i \in Slots, NEW a \in Accounts, NEW c \in Contracts, NEW gas \in GasProvided,
             NEW async \in BOOLEAN, ClaimHere(i, a, c, gas, async)
      PROVE  PaidStep
  <2>1. rewards' = [rewards EXCEPT ![c] = 0] /\ owner[c] = a
        /\ balance' = [balance EXCEPT ![owner[c]] = @ + rewards[c]]
    BY <1>1 DEF ClaimHere
  <2>2. \A d \in Contracts : d # c => rewards'[d] = rewards[d]
    BY <2>1
  <2>3. ASSUME NEW d \in Contracts, rewards'[d] < rewards[d]
        PROVE  balance' = [balance EXCEPT ![owner[d]] = @ + rewards[d]]
    <3>1. d = c
      BY <2>2, <2>3
    <3>2. QED
      BY <2>1, <3>1
  <2>4. QED
    BY <2>3 DEF PaidStep
<1>2. ASSUME NEW i \in Slots, ClaimArrives(i)
      PROVE  PaidStep
  <2>1. calls[i] \in ClaimCall
    BY <1>2, SentCalls DEF ClaimArrives, Waiting
  <2>2. rewards' = [rewards EXCEPT ![calls[i].to] = 0] /\ owner[calls[i].to] = calls[i].from
    BY <1>2, <2>1 DEF ClaimArrives, Refused, ClaimCall
  <2>3. calls'[i].stage = "paid" /\ calls'[i].from = calls[i].from
        /\ calls'[i].value = rewards[calls[i].to]
    BY <1>2 DEF ClaimArrives, AccountInv, AccountsTypeOK, Slots
  <2>4. calls[i].to \in Contracts /\ \A d \in Contracts : d # calls[i].to => rewards'[d] = rewards[d]
    BY <2>1, <2>2 DEF ClaimCall
  <2>5. QED
    BY <2>2, <2>3, <2>4 DEF PaidStep, Slots
<1>3. CASE \E c \in Contracts : Earn(c)
  <2>1. PICK c \in Contracts : Earn(c)
    BY <1>3
  <2>2. \A d \in Contracts : ~(rewards'[d] < rewards[d])
    BY <2>1 DEF Earn
  <2>3. QED
    BY <2>2 DEF PaidStep
<1>4. CASE \E i \in Slots : CallBegins(i)
  <2>1. PICK i \in Slots, gas \in GasProvided :
          \/ \E a, b \in Accounts, c \in Contracts :
                ChangeOwnerHere(i, a, c, b, gas) \/ ChangeOwnerLeaves(i, a, c, b, gas)
          \/ \E a \in Accounts, c \in Contracts :
                \/ \E async \in BOOLEAN : ClaimHere(i, a, c, gas, async)
                \/ ClaimLeaves(i, a, c, gas)
          \/ \E d \in DNSAddresses, u \in Accounts, n \in Names :
                SetNameHere(i, d, u, n, gas) \/ SetNameLeaves(i, d, u, n, gas)
    BY <1>4 DEF CallBegins
  <2>2. CASE \E a \in Accounts, c \in Contracts, async \in BOOLEAN : ClaimHere(i, a, c, gas, async)
    BY <2>2, <1>1
  <2>3. CASE rewards' = rewards
    BY <2>3, RewardsStay
  <2>4. QED
    BY <2>1, <2>2, <2>3
       DEF ChangeOwnerHere, ChangeOwnerLeaves, ClaimLeaves, SetNameHere, SetNameLeaves
<1>5. CASE \E i \in Slots : CallEnds(i) \/ Book(i)
  <2>1. PICK i \in Slots : CallEnds(i) \/ Book(i)
    BY <1>5
  <2>2. CASE ClaimArrives(i)
    BY <2>2, <1>2
  <2>3. CASE rewards' = rewards
    BY <2>3, RewardsStay
  <2>4. QED
    BY <2>1, <2>2, <2>3
       DEF CallEnds, Book, ChangeOwnerArrives, SetNameArrives, CallFails, Deliver
<1>6. CASE UNCHANGED accountVars
  BY <1>6, RewardsStay DEF accountVars
<1>7. QED
  BY <1>3, <1>4, <1>5, <1>6 DEF AccountNext, AccountBegin, AccountStep, Slots

\* Developer rewards go to who owns the contract when they leave it
\* (claimDeveloperRewards.go).
THEOREM RewardsPaidToOwner == AccountSpec => PaidToOwner
<1>1. AccountInv /\ [AccountNext]_accountVars => [PaidStep]_accountVars
  BY StepPays
<1>2. QED
  BY <1>1, InitAccount, AccountKeeps, PTL DEF AccountSpec, PaidToOwner, PaidStep

-----------------------------------------------------------------------------
\* What is on its way in a slot, and in all of them.
PaidIn(m) == IF m.stage = "paid" THEN m.value ELSE 0
OnTheWay(w) == SumFunctionOnSet([i \in Slots |-> PaidIn(w[i])], Slots)
Earnings(r) == SumFunctionOnSet(r, Contracts)
Payments(b) == SumFunctionOnSet(b, Accounts)

\* RewardsConserved, over all slots.
Balanced == Earnings(rewards) + Payments(balance) + OnTheWay(calls) = earned

LEMMA FiniteIndices == IsFiniteSet(Contracts) /\ IsFiniteSet(Accounts) /\ IsFiniteSet(Slots)
BY CoordinatorAssumption, AccountsAssumption, FS_Subset, FS_Interval DEF Slots

LEMMA PaidInIsNat == ASSUME NEW m \in CallType PROVE PaidIn(m) \in Nat
BY SentCalls DEF PaidIn, PaidCall

LEMMA WayTypes ==
    ASSUME NEW w \in [Slots -> CallType]
    PROVE  OnTheWay(w) \in Int
<1> DEFINE f == [i \in Slots |-> PaidIn(w[i])]
<1>1. \A i \in Slots : f[i] \in Int
  BY PaidInIsNat
<1>2. OnTheWay(w) = SumFunctionOnSet(f, Slots)
  BY DEF OnTheWay
<1> HIDE DEF f
<1> QED
  BY <1>1, <1>2, FiniteIndices, SumAdds

LEMMA WayChanges ==
    ASSUME NEW w \in [Slots -> CallType], NEW i \in Slots, NEW m \in CallType
    PROVE  OnTheWay([w EXCEPT ![i] = m]) = OnTheWay(w) - PaidIn(w[i]) + PaidIn(m)
<1> DEFINE w2 == [w EXCEPT ![i] = m]
           f == [j \in Slots |-> PaidIn(w[j])]
           g == [j \in Slots |-> PaidIn(w2[j])]
<1>1. w2[i] = m /\ \A j \in Slots : w2[j] \in CallType /\ (j # i => w2[j] = w[j])
  OBVIOUS
<1>2. OnTheWay(w) = SumFunctionOnSet(f, Slots) /\ OnTheWay(w2) = SumFunctionOnSet(g, Slots)
  BY DEF OnTheWay
<1> HIDE DEF w2
<1>3. (\A j \in Slots : f[j] \in Int) /\ (\A j \in Slots : g[j] \in Int)
  BY <1>1, PaidInIsNat
<1>4. (\A j \in Slots \ {i} : f[j] = g[j]) /\ f[i] = PaidIn(w[i]) /\ g[i] = PaidIn(m)
  BY <1>1
<1> HIDE DEF f, g
<1>5. SumFunctionOnSet(g, Slots) = SumFunctionOnSet(f, Slots) - f[i] + g[i]
  BY <1>3, <1>4, FiniteIndices, SumChanges
<1> QED
  BY <1>2, <1>4, <1>5 DEF w2

\* One contract's rewards or one account's balance changes.
LEMMA EarningsChange ==
    ASSUME NEW r \in [Contracts -> Nat], NEW c \in Contracts, NEW v \in Nat
    PROVE  /\ Earnings(r) \in Int /\ r[c] \in Nat
           /\ Earnings([r EXCEPT ![c] = v]) = Earnings(r) - r[c] + v
<1> DEFINE g == [r EXCEPT ![c] = v]
<1>1. /\ (\A x \in Contracts : r[x] \in Int) /\ (\A x \in Contracts : g[x] \in Int)
      /\ (\A x \in Contracts \ {c} : r[x] = g[x]) /\ g[c] = v
  OBVIOUS
<1> HIDE DEF g
<1>2. /\ SumFunctionOnSet(r, Contracts) \in Int
      /\ SumFunctionOnSet(g, Contracts) = SumFunctionOnSet(r, Contracts) - r[c] + g[c]
  BY <1>1, FiniteIndices, SumChanges
<1> QED
  BY <1>1, <1>2 DEF Earnings, g

LEMMA PaymentsChange ==
    ASSUME NEW b \in [Accounts -> Nat], NEW a \in Accounts, NEW v \in Nat
    PROVE  /\ Payments(b) \in Int /\ b[a] \in Nat
           /\ Payments([b EXCEPT ![a] = v]) = Payments(b) - b[a] + v
<1> DEFINE g == [b EXCEPT ![a] = v]
<1>1. /\ (\A x \in Accounts : b[x] \in Int) /\ (\A x \in Accounts : g[x] \in Int)
      /\ (\A x \in Accounts \ {a} : b[x] = g[x]) /\ g[a] = v
  OBVIOUS
<1> HIDE DEF g
<1>2. /\ SumFunctionOnSet(b, Accounts) \in Int
      /\ SumFunctionOnSet(g, Accounts) = SumFunctionOnSet(b, Accounts) - b[a] + g[a]
  BY <1>1, FiniteIndices, SumChanges
<1> QED
  BY <1>1, <1>2 DEF Payments, g

LEMMA SumsAreInt ==
    ASSUME AccountInv
    PROVE  Earnings(rewards) \in Int /\ Payments(balance) \in Int /\ OnTheWay(calls) \in Int /\ earned \in Int
<1>1. calls \in [Slots -> CallType]
  BY DEF AccountInv, AccountsTypeOK, Slots
<1>2. (\A c \in Contracts : rewards[c] \in Int) /\ (\A a \in Accounts : balance[a] \in Int)
  BY AccountTypes
<1>3. Earnings(rewards) \in Int
  BY <1>2, FiniteIndices, SumAdds DEF Earnings
<1>4. Payments(balance) \in Int
  BY <1>2, FiniteIndices, SumAdds DEF Payments
<1> QED
  BY <1>1, <1>3, <1>4, WayTypes, AccountTypes

\* A step that changes one slot, when the sums change together.
LEMMA OneSlotBalances ==
    ASSUME AccountInv, Balanced, NEW i \in Slots, NEW m \in CallType,
           calls' = [calls EXCEPT ![i] = m], UNCHANGED earned,
           Earnings(rewards') + Payments(balance') + PaidIn(m)
              = Earnings(rewards) + Payments(balance) + PaidIn(calls[i]),
           Earnings(rewards') \in Int, Payments(balance') \in Int
    PROVE  Balanced'
<1>1. calls \in [Slots -> CallType]
  BY DEF AccountInv, AccountsTypeOK, Slots
<1>2. PaidIn(m) \in Nat /\ PaidIn(calls[i]) \in Nat
  BY <1>1, PaidInIsNat
<1>3. OnTheWay(calls') = OnTheWay(calls) - PaidIn(calls[i]) + PaidIn(m)
  BY <1>1, WayChanges
<1>4. Earnings(rewards') + Payments(balance') + OnTheWay(calls') = earned'
  BY <1>2, <1>3, SumsAreInt DEF Balanced
<1> QED
  BY <1>4 DEF Balanced, Earnings, Payments, OnTheWay, PaidIn

\* Nothing was on its way in the slot and nothing is.
LEMMA NothingPaid ==
    ASSUME AccountInv, Balanced, NEW i \in Slots, NEW m \in CallType,
           calls' = [calls EXCEPT ![i] = m], calls[i].stage # "paid", m.stage # "paid",
           UNCHANGED <<rewards, balance, earned>>
    PROVE  Balanced'
<1>1. PaidIn(m) = 0 /\ PaidIn(calls[i]) = 0
  BY DEF PaidIn
<1> QED
  BY <1>1, SumsAreInt, OneSlotBalances

LEMMA BeginBalances ==
    ASSUME AccountInv, Balanced, NEW i \in Slots, CallBegins(i)
    PROVE  Balanced'
<1> USE AccountTypes
<1>1. PICK gas \in GasProvided :
        \/ \E a, b \in Accounts, c \in Contracts :
              ChangeOwnerHere(i, a, c, b, gas) \/ ChangeOwnerLeaves(i, a, c, b, gas)
        \/ \E a \in Accounts, c \in Contracts :
              \/ \E async \in BOOLEAN : ClaimHere(i, a, c, gas, async)
              \/ ClaimLeaves(i, a, c, gas)
        \/ \E d \in DNSAddresses, u \in Accounts, n \in Names :
              SetNameHere(i, d, u, n, gas) \/ SetNameLeaves(i, d, u, n, gas)
  BY DEF CallBegins
<1>2. ASSUME NEW a \in Accounts, NEW c \in Contracts, NEW async \in BOOLEAN,
             ClaimHere(i, a, c, gas, async)
      PROVE  Balanced'
  <2> DEFINE m == [stage |-> "done", from |-> a, gas |-> gas,
                   given |-> IF async THEN 0 ELSE GasRemaining(TRUE, gas)]
             old == balance[a]
             v == rewards[c]
  <2>1. /\ calls' = [calls EXCEPT ![i] = m] /\ calls[i] = FreeSlot
        /\ rewards' = [rewards EXCEPT ![c] = 0] /\ balance' = [balance EXCEPT ![a] = old + v]
        /\ UNCHANGED earned
    BY <1>2 DEF ClaimHere, Issue
  <2>2. m \in CallType /\ PaidIn(m) = 0 /\ PaidIn(calls[i]) = 0
    <3>1. calls' \in [Slots -> CallType] /\ calls \in [Slots -> CallType]
      BY BeginKeeps DEF AccountInv, AccountsTypeOK, Slots
    <3>2. m \in CallType
      BY <2>1, <3>1
    <3> QED
      BY <2>1, <3>2 DEF PaidIn, FreeSlot
  <2>3. old \in Nat /\ v \in Nat /\ old + v \in Nat /\ 0 \in Nat
    OBVIOUS
  <2> HIDE DEF m
  <2>4. Earnings(rewards') = Earnings(rewards) - v + 0 /\ Earnings(rewards) \in Int
    BY <2>1, <2>3, EarningsChange
  <2>5. Payments(balance') = Payments(balance) - old + (old + v) /\ Payments(balance) \in Int
    BY <2>1, <2>3, PaymentsChange
  <2> HIDE DEF old, v
  <2>6. /\ Earnings(rewards') + Payments(balance') + PaidIn(m)
             = Earnings(rewards) + Payments(balance) + PaidIn(calls[i])
        /\ Earnings(rewards') \in Int /\ Payments(balance') \in Int
    BY <2>2, <2>3, <2>4, <2>5
  <2> QED
    BY <2>1, <2>2, <2>6, OneSlotBalances
<1>3. ASSUME NEW m, Issue(i, m), m.stage # "paid", UNCHANGED <<rewards, balance, earned>>
      PROVE  Balanced'
  <2>1. calls' = [calls EXCEPT ![i] = m] /\ calls[i].stage # "paid"
    BY <1>3 DEF Issue, FreeSlot
  <2>2. m \in CallType
    <3>1. calls' \in [Slots -> CallType] /\ calls \in [Slots -> CallType]
      BY BeginKeeps DEF AccountInv, AccountsTypeOK, Slots
    <3> QED
      BY <2>1, <3>1
  <2> QED
    BY <1>3, <2>1, <2>2, NothingPaid
<1>4. ASSUME NEW a \in Accounts, NEW b \in Accounts, NEW c \in Contracts,
             ChangeOwnerHere(i, a, c, b, gas) \/ ChangeOwnerLeaves(i, a, c, b, gas)
      PROVE  Balanced'
  BY <1>3, <1>4 DEF ChangeOwnerHere, ChangeOwnerLeaves
<1>5. ASSUME NEW a \in Accounts, NEW c \in Contracts, ClaimLeaves(i, a, c, gas)
      PROVE  Balanced'
  BY <1>3, <1>5 DEF ClaimLeaves
<1>6. ASSUME NEW d \in DNSAddresses, NEW u \in Accounts, NEW n \in Names,
             SetNameHere(i, d, u, n, gas) \/ SetNameLeaves(i, d, u, n, gas)
      PROVE  Balanced'
  BY <1>3, <1>6 DEF SetNameHere, SetNameLeaves
<1> QED
  BY <1>1, <1>2, <1>4, <1>5, <1>6

LEMMA EndBalances ==
    ASSUME AccountInv, Balanced, NEW i \in Slots, CallEnds(i) \/ Book(i)
    PROVE  Balanced'
<1> DEFINE m == calls[i]
<1>0. m \in CallType /\ calls \in [Slots -> CallType]
  BY DEF AccountInv, AccountsTypeOK, Slots
<1> USE AccountTypes
<1>1. CASE ClaimArrives(i)
  <2> DEFINE c == m.to
             v == rewards[c]
             p == [stage |-> "paid", from |-> m.from, value |-> v, gas |-> m.gas,
                   given |-> m.given + GasRemaining(FALSE, m.gas)]
  <2>1. /\ m.stage = "sent" /\ c \in Contracts /\ m \in ClaimCall
        /\ calls' = [calls EXCEPT ![i] = p] /\ rewards' = [rewards EXCEPT ![c] = 0]
        /\ UNCHANGED <<balance, earned>>
    BY <1>0, <1>1, SentCalls DEF ClaimArrives, Waiting, ClaimCall
  <2>2. v \in Nat /\ PaidIn(p) = v /\ PaidIn(m) = 0
    BY <2>1 DEF PaidIn
  <2>3. p \in CallType
    <3>1. calls' \in [Slots -> CallType]
      BY <1>1, EndKeeps DEF AccountInv, AccountsTypeOK, Slots, CallEnds
    <3> QED
      BY <1>0, <2>1, <3>1
  <2> HIDE DEF p, c
  <2>4. Earnings(rewards') = Earnings(rewards) - v + 0 /\ Earnings(rewards) \in Int
    BY <2>1, EarningsChange
  <2>5. Payments(balance') = Payments(balance) /\ Payments(balance) \in Int
    BY <2>1, SumsAreInt
  <2> HIDE DEF v, m
  <2>6. /\ Earnings(rewards') + Payments(balance') + PaidIn(p)
             = Earnings(rewards) + Payments(balance) + PaidIn(m)
        /\ Earnings(rewards') \in Int /\ Payments(balance') \in Int
    BY <2>2, <2>4, <2>5
  <2> QED
    BY <2>1, <2>3, <2>6, OneSlotBalances DEF m
<1>2. CASE Deliver(i)
  <2> DEFINE a == m.from
             old == balance[a]
             v == m.value
             d == Done(m, m.given)
  <2>1. /\ m \in PaidCall /\ calls' = [calls EXCEPT ![i] = d] /\ UNCHANGED <<rewards, earned>>
        /\ balance' = [balance EXCEPT ![a] = old + v]
    BY <1>0, <1>2, SentCalls DEF Deliver
  <2>2. /\ a \in Accounts /\ old \in Nat /\ v \in Nat /\ old + v \in Nat
        /\ PaidIn(d) = 0 /\ PaidIn(m) = v
    BY <2>1 DEF PaidIn, PaidCall, Done
  <2>3. d \in CallType
    <3>1. calls' \in [Slots -> CallType]
      BY <1>2, EndKeeps DEF AccountInv, AccountsTypeOK, Slots, CallEnds
    <3> QED
      BY <1>0, <2>1, <3>1
  <2> HIDE DEF d, a
  <2>4. Payments(balance') = Payments(balance) - old + (old + v) /\ Payments(balance) \in Int
    BY <2>1, <2>2, PaymentsChange
  <2>5. Earnings(rewards') = Earnings(rewards) /\ Earnings(rewards) \in Int
    BY <2>1, SumsAreInt
  <2> HIDE DEF old, v, m
  <2>6. /\ Earnings(rewards') + Payments(balance') + PaidIn(d)
             = Earnings(rewards) + Payments(balance) + PaidIn(m)
        /\ Earnings(rewards') \in Int /\ Payments(balance') \in Int
    BY <2>2, <2>4, <2>5
  <2> QED
    BY <2>1, <2>3, <2>6, OneSlotBalances DEF m
<1>3. ASSUME NEW d, calls' = [calls EXCEPT ![i] = d], d.stage # "paid", m.stage # "paid",
             UNCHANGED <<rewards, balance, earned>>
      PROVE  Balanced'
  <2>1. d \in CallType
    <3>1. AccountNext
      BY DEF AccountNext, AccountStep, Slots
    <3>2. AccountInv'
      BY <3>1, AccountKeeps
    <3>3. calls' \in [Slots -> CallType]
      BY <3>2 DEF AccountInv, AccountsTypeOK, Slots
    <3> QED
      BY <1>0, <1>3, <3>3
  <2> QED
    BY <1>3, <2>1, NothingPaid
<1>4. CASE ChangeOwnerArrives(i) \/ SetNameArrives(i) \/ CallFails(i) \/ Book(i)
  <2>1. \E d : /\ calls' = [calls EXCEPT ![i] = d] /\ d.stage # "paid" /\ m.stage # "paid"
              /\ UNCHANGED <<rewards, balance, earned>>
    BY <1>4 DEF ChangeOwnerArrives, SetNameArrives, CallFails, Book, Waiting, Done, FreeSlot
  <2> QED
    BY <1>3, <2>1
<1> QED
  BY <1>1, <1>2, <1>4 DEF CallEnds

LEMMA InitBalances == AccountsInit => Balanced
<1> SUFFICES ASSUME AccountsInit PROVE Balanced
  OBVIOUS
<1> DEFINE f == [i \in Slots |-> PaidIn(calls[i])]
<1>1. \A i \in Slots : f[i] = 0
  BY DEF AccountsInit, PaidIn, FreeSlot, Slots
<1>2. (\A c \in Contracts : rewards[c] = 0) /\ (\A a \in Accounts : balance[a] = 0) /\ earned = 0
  BY DEF AccountsInit
<1>3. OnTheWay(calls) = SumFunctionOnSet(f, Slots)
  BY DEF OnTheWay
<1> HIDE DEF f
<1>4. /\ SumFunctionOnSet(f, {}) = 0 /\ SumFunctionOnSet(rewards, {}) = 0
      /\ SumFunctionOnSet(balance, {}) = 0
  BY FS_EmptySet, SumUnfolds
<1>5. SumFunctionOnSet(f, {}) = SumFunctionOnSet(f, Slots)
  BY <1>1, FiniteIndices, SumRestricts
<1>6. SumFunctionOnSet(rewards, {}) = SumFunctionOnSet(rewards, Contracts)
  BY <1>2, FiniteIndices, SumRestricts
<1>7. SumFunctionOnSet(balance, {}) = SumFunctionOnSet(balance, Accounts)
  BY <1>2, FiniteIndices, SumRestricts
<1> QED
  BY <1>2, <1>3, <1>4, <1>5, <1>6, <1>7 DEF Balanced, Earnings, Payments

LEMMA StepBalances == AccountInv /\ Balanced /\ [AccountNext]_accountVars => Balanced'
<1> SUFFICES ASSUME AccountInv, Balanced, [AccountNext]_accountVars PROVE Balanced'
  OBVIOUS
<1>1. CASE AccountBegin
  BY <1>1, BeginBalances DEF AccountBegin, Slots
<1>2. CASE \E i \in Slots : CallEnds(i) \/ Book(i)
  BY <1>2, EndBalances
<1>3. ASSUME NEW c \in Contracts, Earn(c)
      PROVE  Balanced'
  <2> DEFINE v == rewards[c]
  <2>1. rewards' = [rewards EXCEPT ![c] = v + 1] /\ UNCHANGED <<balance, calls>> /\ earned' = earned + 1
    BY <1>3 DEF Earn
  <2>2. v \in Nat /\ v + 1 \in Nat
    BY AccountTypes
  <2>3. Earnings(rewards') = Earnings(rewards) - v + (v + 1)
    BY <2>1, <2>2, EarningsChange, AccountTypes
  <2> HIDE DEF v
  <2>4. Earnings(rewards') + Payments(balance') + OnTheWay(calls') = earned'
    BY <2>1, <2>2, <2>3, SumsAreInt DEF Balanced
  <2> QED
    BY <2>4 DEF Balanced, Earnings, Payments, OnTheWay, PaidIn
<1>4. CASE UNCHANGED accountVars
  BY <1>4 DEF accountVars, Balanced, Earnings, Payments, OnTheWay, PaidIn
<1> QED
  BY <1>1, <1>2, <1>3, <1>4 DEF AccountNext, AccountStep, Slots

LEMMA BalancedIsConserved == AccountInv /\ Balanced => RewardsConserved
<1> SUFFICES ASSUME AccountInv, Balanced PROVE RewardsConserved
  OBVIOUS
<1> DEFINE f == [i \in Slots |-> PaidIn(calls[i])]
           g == [i \in Paid |-> calls[i].value]
<1>1. Paid \in SUBSET Slots /\ IsFiniteSet(Paid)
  BY FiniteIndices, FS_Subset DEF Paid, Slots
<1>2. /\ \A i \in Slots : f[i] \in Int
      /\ \A i \in Slots \ Paid : f[i] = 0
      /\ \A i \in Paid : f[i] = g[i]
  BY <1>1, AccountTypes, PaidInIsNat DEF PaidIn, Paid, Slots
<1>3. OnTheWay(calls) = SumFunctionOnSet(f, Slots)
  BY DEF OnTheWay
<1> HIDE DEF f
<1>4. SumFunctionOnSet(f, Paid) = SumFunctionOnSet(f, Slots)
  BY <1>1, <1>2, FiniteIndices, SumRestricts
<1>5. SumFunctionOnSet(f, Paid) = SumFunctionOnSet(g, Paid)
  <2> HIDE DEF g
  <2> QED
    BY <1>1, <1>2, SumSame
<1> QED
  BY <1>3, <1>4, <1>5 DEF RewardsConserved, Balanced, Earnings, Payments

\* No rewards are lost or paid twice, from whichever shard they are claimed
\* while the owner changes (claimDeveloperRewards.go).
THEOREM NoRewardsAreLost == AccountSpec => []RewardsConserved
BY InitAccount, AccountKeeps, InitBalances, StepBalances, BalancedIsConserved, PTL DEF AccountSpec

-----------------------------------------------------------------------------
\* What a node executes is an execution of each module.
LEMMA NodeStep ==
    [NodeNext]_nodeVars =>
        [AccountNext]_accountVars /\ [LoopNext]_loopVars /\ [TransferNext]_transferVars
BY DEF NodeNext, BeginAccountCall, BeginLoop, BeginTransfer, Execute, AccountNext, LoopNext,
       TransferNext, nodeVars

LEMMA NodeIsAll == NodeSpec => AccountSpec /\ LoopSpec /\ TransferSpec
<1>1. NodeInit => AccountsInit /\ LoopInit /\ TransfersInit
  BY DEF NodeInit
<1>2. QED
  BY <1>1, NodeStep, PTL DEF NodeSpec, AccountSpec, LoopSpec, TransferSpec

\* All of it holds of the node that executes the calls one at a time.
THEOREM NodeCallsCorrect ==
    NodeSpec => /\ [](RewardsConserved /\ GasReturnedOnce /\ ListsDoneExactly /\ WritesArePaid)
                /\ [](SaidAsExecuted /\ ReadAsMeant)
                /\ PaidToOwner
BY NodeIsAll, NoRewardsAreLost, GasIsReturnedOnce, RewardsPaidToOwner, ListsAreDone, WrittenIsPaid,
   TransfersAreSaid, TransfersArriveAsMeant, PTL
=============================================================================
