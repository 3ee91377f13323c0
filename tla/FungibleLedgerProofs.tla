------------------------- MODULE FungibleLedgerProofs -------------------------
(***************************************************************************)
(* Proofs about FungibleLedger: its type (no balance is ever negative),    *)
(* that tokens on their way back are accepted, that what a frozen or       *)
(* paused account holds stands still, and that no transfer makes or loses  *)
(* a token.                                                                *)
(***************************************************************************)
EXTENDS FungibleLedger, NFTRolesProofs, SumTheorems

Balances == [Accounts -> Holding]
Wires == [1..Slots -> MessageType \union {Free}]

\* What a step may do to the types of the token's own state.
TokenTypes == balance \in Balances /\ wire \in Wires /\ supply \in Int

LEMMA TypeParts == TypeOK <=> FlagsTypeOK /\ SettingsTypeOK /\ RolesTypeOK /\ TokenTypes
BY DEF TypeOK, TokenTypes, Balances, Wires

LEMMA QuantityTypes == \A q \in Quantities : q \in Nat /\ -q \in Int
BY FungibleAssumption

\* addToDCTBalance keeps a balance a balance, and everything but the value of
\* the one account as it was.
LEMMA AddedWrites ==
    ASSUME NEW bal \in Balances, NEW a \in Accounts, NEW delta \in Int, NEW returning \in BOOLEAN,
           ~AddRefused(bal, a, delta, returning)
    PROVE  /\ Added(bal, a, delta) \in Balances
           /\ Added(bal, a, delta)[a].value = bal[a].value + delta
           /\ \A c \in Accounts : /\ Added(bal, a, delta)[c].frozen = bal[c].frozen
                                  /\ c # a => Added(bal, a, delta)[c] = bal[c]
<1> DEFINE h == [bal[a] EXCEPT !.value = bal[a].value + delta]
<1>1. bal[a] \in Holding /\ bal[a].value \in Nat
  BY DEF Balances, Holding
<1>2. bal[a].value + delta \in Nat
  BY <1>1 DEF AddRefused
<1>3. h \in Holding /\ h.value = bal[a].value + delta /\ h.frozen = bal[a].frozen
  BY <1>1, <1>2 DEF Holding
<1>4. Added(bal, a, delta) = [bal EXCEPT ![a] = h]
  BY DEF Added
<1> HIDE DEF h
<1> QED
  BY <1>3, <1>4 DEF Balances

\* A held account is refused, whatever else the balances are.
LEMMA HeldIsRefused ==
    ASSUME NEW bal, NEW a \in Accounts, NEW delta, bal[a].frozen = balance[a].frozen,
           ~AddRefused(bal, a, delta, FALSE)
    PROVE  ~balance[a].frozen /\ ~settings[ShardOf[a]]["paused"]
BY DEF AddRefused, FrozenOrPaused

\* The step property, for one account.
StandsStill(a) ==
    /\ /\ balance[a].frozen \/ settings[ShardOf[a]]["paused"]
       /\ balance'[a].value # balance[a].value
       => WipedNow(a) \/ ReturnedTo(a)
    /\ balance'[a].frozen # balance[a].frozen => balance'[a].value = balance[a].value \/ WipedNow(a)

StepGood == TokenTypes' /\ \A a \in Accounts : StandsStill(a)

LEMMA BalanceUnchanged ==
    ASSUME TokenTypes, UNCHANGED balance, wire' \in Wires, supply' \in Int
    PROVE  StepGood
BY DEF StepGood, TokenTypes, StandsStill

\* One account that is not held changes its balance.
LEMMA OneChanges ==
    ASSUME TypeOK, NEW a \in Accounts, NEW delta \in Int,
           ~AddRefused(balance, a, delta, FALSE), balance' = Added(balance, a, delta),
           wire' \in Wires, supply' \in Int
    PROVE  StepGood
<1>1. balance \in Balances
  BY TypeParts DEF TokenTypes
<1>2. /\ balance' \in Balances
      /\ \A c \in Accounts : balance'[c].frozen = balance[c].frozen
                             /\ (c # a => balance'[c] = balance[c])
  BY <1>1, AddedWrites
<1>3. ~balance[a].frozen /\ ~settings[ShardOf[a]]["paused"]
  BY HeldIsRefused
<1>4. \A c \in Accounts : StandsStill(c)
  BY <1>2, <1>3 DEF StandsStill
<1> QED
  BY <1>2, <1>4 DEF StepGood, TokenTypes

LEMMA ChangeBalanceGood ==
    ASSUME TypeOK, NEW a \in Accounts, NEW delta \in Int, ChangeBalance(a, delta)
    PROVE  StepGood
<1>1. wire \in Wires /\ supply \in Int
  BY TypeParts DEF TokenTypes
<1>2. /\ ~AddRefused(balance, a, delta, FALSE) /\ balance' = Added(balance, a, delta)
      /\ wire' = wire /\ supply' = supply + delta
  BY DEF ChangeBalance
<1>3. wire' \in Wires /\ supply' \in Int
  BY <1>1, <1>2
<1> QED
  BY <1>2, <1>3, OneChanges

LEMMA TransferInShardGood ==
    ASSUME TypeOK, NEW a \in Accounts, NEW b \in Accounts, NEW q \in Quantities,
           NEW call \in BOOLEAN, TransferInShard(a, b, q, call)
    PROVE  StepGood
<1> DEFINE mid == Added(balance, a, -q)
<1>1. balance \in Balances /\ wire \in Wires /\ supply \in Int /\ q \in Int /\ -q \in Int
  BY TypeParts, QuantityTypes DEF TokenTypes
<1>2. /\ ~AddRefused(balance, a, -q, FALSE) /\ ~AddRefused(mid, b, q, FALSE)
      /\ balance' = Added(mid, b, q)
      /\ UNCHANGED <<wire, supply>>
  BY DEF TransferInShard, CanSend
<1>3. /\ mid \in Balances
      /\ \A c \in Accounts : mid[c].frozen = balance[c].frozen /\ (c # a => mid[c] = balance[c])
  BY <1>1, <1>2, AddedWrites
<1> HIDE DEF mid
<1>4. /\ balance' \in Balances
      /\ \A c \in Accounts : balance'[c].frozen = mid[c].frozen /\ (c # b => balance'[c] = mid[c])
  BY <1>1, <1>2, <1>3, AddedWrites, ZenonT(40)
<1>5. ~balance[a].frozen /\ ~settings[ShardOf[a]]["paused"]
  BY <1>2, HeldIsRefused
<1>6. ~balance[b].frozen /\ ~settings[ShardOf[b]]["paused"]
  BY <1>2, <1>3, HeldIsRefused
<1>7. \A c \in Accounts : StandsStill(c)
  BY <1>3, <1>4, <1>5, <1>6 DEF StandsStill
<1> QED
  BY <1>1, <1>2, <1>4, <1>7 DEF StepGood, TokenTypes

LEMMA TransferLeavesGood ==
    ASSUME TypeOK, NEW i \in 1..Slots, NEW a \in Accounts, NEW b \in Accounts, NEW q \in Quantities,
           NEW call \in BOOLEAN, TransferLeaves(i, a, b, q, call)
    PROVE  StepGood
<1> DEFINE m == [phase |-> "sent", from |-> a, to |-> b, value |-> q, call |-> call]
<1>1. wire \in Wires /\ supply \in Int /\ q \in Nat /\ -q \in Int
  BY TypeParts, QuantityTypes DEF TokenTypes
<1>2. m \in MessageType
  BY <1>1 DEF MessageType
<1>3. /\ ~AddRefused(balance, a, -q, FALSE) /\ balance' = Added(balance, a, -q)
      /\ wire' = [wire EXCEPT ![i] = m] /\ supply' = supply
  BY DEF TransferLeaves, CanSend
<1> HIDE DEF m
<1>4. wire' \in Wires
  BY <1>1, <1>2, <1>3 DEF Wires
<1> QED
  BY <1>1, <1>3, <1>4, OneChanges

LEMMA WireType ==
    ASSUME TypeOK, NEW i \in 1..Slots, wire[i] # Free
    PROVE  /\ wire[i] \in MessageType
           /\ wire[i].from \in Accounts /\ wire[i].to \in Accounts /\ wire[i].value \in Nat
           /\ wire[i].phase \in {"sent", "returning"}
<1>1. wire[i] \in MessageType
  BY TypeParts DEF TokenTypes, Wires
<1> QED
  BY <1>1 DEF MessageType

\* The tokens that arrive are added: of a return as they are, of a transfer
\* only if the account is not held.
LEMMA TransferArrivesGood ==
    ASSUME TypeOK, NEW i \in 1..Slots, TransferArrives(i)
    PROVE  StepGood
<1> DEFINE to == wire[i].to
           v == wire[i].value
           returning == wire[i].phase = "returning"
<1>1. balance \in Balances /\ wire \in Wires /\ supply \in Int
  BY TypeParts DEF TokenTypes
<1>2. /\ wire[i] # Free /\ ~AddRefused(balance, to, v, returning)
      /\ balance' = Added(balance, to, v)
      /\ wire' = [wire EXCEPT ![i] = Free] /\ supply' = supply
  BY DEF TransferArrives, Accepted
<1>3. to \in Accounts /\ v \in Int /\ returning \in BOOLEAN
  BY <1>2, WireType
<1>4. wire' \in Wires /\ wire'[i] = Free
  BY <1>1, <1>2 DEF Wires
<1>5. CASE ~returning
  BY <1>1, <1>2, <1>3, <1>4, <1>5, OneChanges
<1>6. CASE returning
  <2>1. /\ balance' \in Balances /\ balance'[to].value = balance[to].value + v
        /\ \A c \in Accounts : balance'[c].frozen = balance[c].frozen
                               /\ (c # to => balance'[c] = balance[c])
    BY <1>1, <1>2, <1>3, AddedWrites, ZenonT(40)
  <2>2. ReturnedTo(to)
    BY <1>2, <1>4, <1>6, <2>1 DEF ReturnedTo
  <2> HIDE DEF to, v, returning
  <2>3. \A c \in Accounts : StandsStill(c)
    BY <2>1, <2>2 DEF StandsStill
  <2> QED
    BY <1>1, <1>2, <1>4, <2>1, <2>3 DEF StepGood, TokenTypes
<1> QED
  BY <1>5, <1>6

LEMMA TransferFailsGood ==
    ASSUME TypeOK, NEW i \in 1..Slots, TransferFails(i)
    PROVE  StepGood
<1> DEFINE m == wire[i]
           back == [m EXCEPT !.phase = "returning", !.from = m.to, !.to = m.from, !.call = FALSE]
<1>1. TokenTypes
  BY TypeParts
<1>2. m \in MessageType
  BY WireType DEF TransferFails
<1>3. back \in MessageType
  BY <1>2 DEF MessageType
<1>4. wire' = [wire EXCEPT ![i] = back] /\ UNCHANGED <<balance, supply>>
  BY DEF TransferFails
<1> HIDE DEF m, back
<1>5. wire' \in Wires
  BY <1>1, <1>3, <1>4 DEF TokenTypes, Wires
<1> QED
  BY <1>1, <1>4, <1>5, BalanceUnchanged DEF TokenTypes

LEMMA FreezeGood ==
    ASSUME TypeOK, NEW a \in Accounts, NEW v \in BOOLEAN, Freeze(a, v)
    PROVE  StepGood
<1>1. TokenTypes /\ UNCHANGED <<wire, supply>> /\ balance' = [balance EXCEPT ![a].frozen = v]
  BY TypeParts DEF Freeze
<1>2. /\ balance' \in Balances
      /\ \A c \in Accounts : balance'[c].value = balance[c].value
  BY <1>1 DEF TokenTypes, Balances, Holding
<1>3. \A c \in Accounts : StandsStill(c)
  BY <1>2 DEF StandsStill
<1> QED
  BY <1>1, <1>2, <1>3 DEF StepGood, TokenTypes

LEMMA WipeGood ==
    ASSUME TypeOK, NEW a \in Accounts, Wipe(a)
    PROVE  StepGood
<1>1. /\ TokenTypes /\ balance[a].frozen /\ balance' = [balance EXCEPT ![a] = NoHolding]
      /\ supply' = supply - balance[a].value /\ UNCHANGED wire
  BY TypeParts DEF Wipe
<1>2. /\ balance' \in Balances /\ balance'[a] = NoHolding
      /\ \A c \in Accounts \ {a} : balance'[c] = balance[c]
  BY <1>1 DEF TokenTypes, Balances, Holding, NoHolding
<1>3. supply' \in Int
  BY <1>1 DEF TokenTypes, Balances, Holding
<1>4. \A c \in Accounts : StandsStill(c)
  BY <1>1, <1>2 DEF StandsStill, WipedNow
<1> QED
  BY <1>1, <1>2, <1>3, <1>4 DEF StepGood, TokenTypes

-----------------------------------------------------------------------------
LEMMA StepTokenGood == TypeOK /\ [Next]_vars => StepGood
<1> SUFFICES ASSUME TypeOK, [Next]_vars PROVE StepGood
  OBVIOUS
<1>1. ASSUME NEW a \in Accounts, UserCalls(a)
      PROVE  StepGood
  <2>1. ASSUME NEW q \in Quantities, LocalMint(a, q) \/ LocalBurn(a, q) \/ Burn(a, q)
        PROVE  StepGood
    BY <2>1, QuantityTypes, ChangeBalanceGood DEF LocalMint, LocalBurn, Burn
  <2>2. ASSUME NEW b \in Accounts, NEW q \in Quantities, NEW call \in BOOLEAN,
               TransferInShard(a, b, q, call)
        PROVE  StepGood
    BY <2>2, TransferInShardGood
  <2>3. ASSUME NEW b \in Accounts, NEW q \in Quantities, NEW call \in BOOLEAN, NEW i \in 1..Slots,
               TransferLeaves(i, a, b, q, call)
        PROVE  StepGood
    BY <2>3, TransferLeavesGood
  <2> QED
    BY <1>1, <2>1, <2>2, <2>3 DEF UserCalls
<1>2. ASSUME NEW i \in 1..Slots, Settle(i)
      PROVE  StepGood
  BY <1>2, TransferArrivesGood, TransferFailsGood DEF Settle
<1>3. ASSUME NEW a \in Accounts, Wipe(a) \/ \E v \in BOOLEAN : Freeze(a, v)
      PROVE  StepGood
  BY <1>3, WipeGood, FreezeGood
<1>4. ASSUME ChangeSettings \/ RoleCalls \/ UNCHANGED vars
      PROVE  StepGood
  <2>1. UNCHANGED balance /\ UNCHANGED wire /\ UNCHANGED supply
    BY <1>4 DEF ChangeSettings, RoleCalls, vars
  <2>2. TokenTypes
    BY TypeParts
  <2> QED
    BY <2>1, <2>2, BalanceUnchanged DEF TokenTypes
<1> QED
  BY <1>1, <1>2, <1>3, <1>4 DEF Next, SystemCalls

\* Every step but those of the settings and of the roles leaves both alone.
LEMMA OnlyTokenSteps ==
    ASSUME [Next]_vars, ~ChangeSettings, ~RoleCalls
    PROVE  UNCHANGED <<flags, settings, transferAddresses, roles, latestNonce, owner, handover, minted>>
<1>1. ASSUME NEW a \in Accounts, UserCalls(a)
      PROVE  OnlyToken
  BY <1>1 DEF UserCalls, LocalMint, LocalBurn, Burn, ChangeBalance, TransferInShard, TransferLeaves
<1>2. ASSUME NEW i \in 1..Slots, Settle(i)
      PROVE  OnlyToken
  BY <1>2 DEF Settle, TransferArrives, TransferFails
<1>3. ASSUME NEW a \in Accounts, Wipe(a) \/ \E v \in BOOLEAN : Freeze(a, v)
      PROVE  OnlyToken
  BY <1>3 DEF Wipe, Freeze
<1>4. Next => OnlyToken
  BY <1>1, <1>2, <1>3 DEF Next, SystemCalls
<1> QED
  BY <1>4 DEF OnlyToken, vars

LEMMA StepOtherTypes ==
    ASSUME TypeOK, [Next]_vars
    PROVE  /\ UNCHANGED flags /\ FlagsTypeOK' /\ SettingsTypeOK'
           /\ [RolesNext]_roleVars
<1>1. CASE ChangeSettings
  <2>1. UNCHANGED flags /\ UNCHANGED roleVars
    BY <1>1 DEF ChangeSettings, roleVars
  <2>2. ASSUME \E t \in Shards, x \in SettingNames, v \in BOOLEAN : ToggleSetting(t, x, v)
        PROVE  SettingsTypeOK'
    BY <2>2 DEF ToggleSetting, TypeOK, SettingsTypeOK
  <2>3. ASSUME \E t \in Shards, a \in Accounts :
                  AddTransferAddresses(t, {a}) \/ DeleteTransferAddresses(t, {a})
        PROVE  SettingsTypeOK'
    BY <2>3 DEF AddTransferAddresses, DeleteTransferAddresses, TypeOK, SettingsTypeOK
  <2>4. SettingsTypeOK'
    BY <1>1, <2>2, <2>3 DEF ChangeSettings, SettingsCalls
  <2> QED
    BY <2>1, <2>4 DEF TypeOK, FlagsTypeOK
<1>2. CASE RoleCalls
  <2>1. UNCHANGED <<flags, settings, transferAddresses>>
    BY <1>2 DEF RoleCalls
  <2>2. RolesNext
    BY <1>2 DEF RoleCalls, RolesNext, RoleAdministration
  <2> QED
    BY <2>1, <2>2 DEF TypeOK, FlagsTypeOK, SettingsTypeOK
<1>3. CASE ~ChangeSettings /\ ~RoleCalls
  BY <1>3, OnlyTokenSteps DEF TypeOK, FlagsTypeOK, SettingsTypeOK, roleVars
<1> QED
  BY <1>1, <1>2, <1>3

LEMMA InitFungibleTypeOK == Init => TypeOK
<1> SUFFICES ASSUME Init PROVE TypeOK
  OBVIOUS
<1>1. FlagsTypeOK /\ SettingsTypeOK
  BY DEF Init, FlagsInit, FlagsTypeOK, SettingsInit, SettingsTypeOK
<1>2. RolesTypeOK
  BY InitTypeOK DEF Init
<1>3. TokenTypes
  BY DEF Init, TokenTypes, Balances, Wires, Holding, NoHolding
<1> QED
  BY <1>1, <1>2, <1>3, TypeParts

LEMMA NextFungibleTypeOK == TypeOK /\ [Next]_vars => TypeOK'
<1> SUFFICES ASSUME TypeOK, [Next]_vars PROVE TypeOK'
  OBVIOUS
<1>1. FlagsTypeOK' /\ SettingsTypeOK' /\ [RolesNext]_roleVars
  BY StepOtherTypes
<1>2. RolesTypeOK'
  BY <1>1, NextTypeOK DEF TypeOK
<1>3. TokenTypes'
  BY StepTokenGood DEF StepGood
<1>4. TypeOK' <=> FlagsTypeOK' /\ SettingsTypeOK' /\ RolesTypeOK' /\ TokenTypes'
  BY DEF TypeOK, TokenTypes, Balances, Wires
<1> QED
  BY <1>1, <1>2, <1>3, <1>4

\* Every balance and message has a value the code gives it: no call takes more
\* from an account than it holds.
THEOREM FungibleTypeCorrect == Spec => []TypeOK
<1>1. Init => TypeOK
  BY InitFungibleTypeOK
<1>2. TypeOK /\ [Next]_vars => TypeOK'
  BY NextFungibleTypeOK
<1> QED
  BY <1>1, <1>2, PTL DEF Spec

\* What a frozen or paused account holds changes only by a wipe or by tokens
\* that come back, and coming back does not thaw it (checkFrozeAndPause).
THEOREM FungibleHeldStands == Spec => HeldStillStands
<1>1. TypeOK /\ [Next]_vars => \A a \in Accounts : StandsStill(a)
  BY StepTokenGood DEF StepGood
<1>2. (\A a \in Accounts : StandsStill(a)) <=>
      \A a \in Accounts :
         /\ /\ balance[a].frozen \/ settings[ShardOf[a]]["paused"]
            /\ balance'[a].value # balance[a].value
            => WipedNow(a) \/ ReturnedTo(a)
         /\ balance'[a].frozen # balance[a].frozen => balance'[a].value = balance[a].value \/ WipedNow(a)
  BY DEF StandsStill
<1> QED
  BY <1>1, <1>2, FungibleTypeCorrect, PTL DEF Spec, HeldStillStands

\* Tokens on their way back are accepted whenever they arrive: a return is
\* asked neither for frozen, paused or limited tokens nor for a payable contract.
THEOREM FungibleReturnsAccepted == Spec => []ReturnsAreAccepted
<1> DEFINE Inv == TypeOK /\ On(FixAsyncCallbackCheck)
<1>1. Init => Inv
  BY InitFungibleTypeOK, FungibleAssumption DEF Init, FlagsInit, On
<1>2. Inv /\ [Next]_vars => Inv'
  <2> SUFFICES ASSUME Inv, [Next]_vars PROVE Inv'
    OBVIOUS
  <2>1. UNCHANGED flags
    BY StepOtherTypes
  <2> QED
    BY <2>1, NextFungibleTypeOK DEF On
<1>3. Inv => ReturnsAreAccepted
  <2> SUFFICES ASSUME Inv, NEW i \in 1..Slots, wire[i] # Free, wire[i].phase = "returning"
               PROVE  Accepted(wire[i])
    BY DEF ReturnsAreAccepted
  <2>1. wire[i].to \in Accounts /\ wire[i].value \in Nat
    BY WireType
  <2>2. balance[wire[i].to].value \in Nat
    BY <2>1, TypeParts DEF TokenTypes, Balances, Holding
  <2>3. ~AddRefused(balance, wire[i].to, wire[i].value, TRUE)
    BY <2>1, <2>2 DEF AddRefused
  <2> QED
    BY <2>3 DEF Accepted, Payable
<1> QED
  BY <1>1, <1>2, <1>3, PTL DEF Spec
-----------------------------------------------------------------------------
\* What the accounts hold and what is in flight, for any balances and wire.
HeldIn(bal) == SumFunctionOnSet([a \in Accounts |-> bal[a].value], Accounts)
ValueOf(m) == IF m = Free THEN 0 ELSE m.value
TravelsOn(w) == SumFunctionOnSet([i \in 1..Slots |-> ValueOf(w[i])], 1..Slots)

LEMMA SupplyParts == SupplyConserved <=> HeldIn(balance) + TravelsOn(wire) = supply
BY DEF SupplyConserved, Held, Travelling, HeldIn, TravelsOn, ValueOf

\* One account's value changes, and what is held by as much.
LEMMA HeldChanges ==
    ASSUME NEW bal \in Balances, NEW bal2 \in Balances, NEW a \in Accounts,
           \A c \in Accounts \ {a} : bal2[c].value = bal[c].value
    PROVE  HeldIn(bal) \in Int /\ HeldIn(bal2) = HeldIn(bal) - bal[a].value + bal2[a].value
<1> DEFINE f == [c \in Accounts |-> bal[c].value]
           g == [c \in Accounts |-> bal2[c].value]
<1>1. IsFiniteSet(Accounts)
  BY CoordinatorAssumption
<1>2. \A c \in Accounts : /\ f[c] = bal[c].value /\ f[c] \in Int
                          /\ g[c] = bal2[c].value /\ g[c] \in Int
  BY DEF Balances, Holding
<1>3. HeldIn(bal) = SumFunctionOnSet(f, Accounts) /\ HeldIn(bal2) = SumFunctionOnSet(g, Accounts)
  BY DEF HeldIn
<1> HIDE DEF f, g
<1>4. \A c \in Accounts \ {a} : f[c] = g[c]
  BY <1>2
<1>5. /\ SumFunctionOnSet(f, Accounts) \in Int
      /\ SumFunctionOnSet(g, Accounts) = SumFunctionOnSet(f, Accounts) - f[a] + g[a]
  BY <1>1, <1>2, <1>4, SumChanges
<1> QED
  BY <1>2, <1>3, <1>5

\* One message changes, and what is in flight by as much.
LEMMA TravellingChanges ==
    ASSUME NEW w \in Wires, NEW i \in 1..Slots, NEW m \in MessageType \union {Free}
    PROVE  /\ TravelsOn(w) \in Int
           /\ TravelsOn([w EXCEPT ![i] = m]) = TravelsOn(w) - ValueOf(w[i]) + ValueOf(m)
<1> DEFINE w2 == [w EXCEPT ![i] = m]
           f == [j \in 1..Slots |-> ValueOf(w[j])]
           g == [j \in 1..Slots |-> ValueOf(w2[j])]
<1>1. IsFiniteSet(1..Slots)
  BY FungibleAssumption, FS_Interval
<1>2. \A x \in MessageType \union {Free} : ValueOf(x) \in Int
  BY DEF ValueOf, MessageType
<1>3. w2[i] = m /\ \A j \in 1..Slots : w2[j] \in MessageType \union {Free} /\ (j # i => w2[j] = w[j])
  BY DEF Wires
<1>4. TravelsOn(w) = SumFunctionOnSet(f, 1..Slots) /\ TravelsOn(w2) = SumFunctionOnSet(g, 1..Slots)
  BY DEF TravelsOn
<1> HIDE DEF w2
<1>5. \A j \in 1..Slots : /\ f[j] = ValueOf(w[j]) /\ f[j] \in Int
                          /\ g[j] = ValueOf(w2[j]) /\ g[j] \in Int
  BY <1>2, <1>3 DEF Wires
<1> HIDE DEF f, g
<1>6. \A j \in (1..Slots) \ {i} : f[j] = g[j]
  BY <1>3, <1>5
<1>7. /\ SumFunctionOnSet(f, 1..Slots) \in Int
      /\ SumFunctionOnSet(g, 1..Slots) = SumFunctionOnSet(f, 1..Slots) - f[i] + g[i]
  <2> DEFINE I == 1..Slots
  <2>1. /\ IsFiniteSet(I) /\ i \in I
        /\ \A j \in I : f[j] \in Int /\ g[j] \in Int
        /\ \A j \in I \ {i} : f[j] = g[j]
    BY <1>1, <1>5, <1>6
  <2> HIDE DEF I
  <2>2. SumFunctionOnSet(f, I) \in Int /\ SumFunctionOnSet(g, I) = SumFunctionOnSet(f, I) - f[i] + g[i]
    BY <2>1, SumChanges, ZenonT(40)
  <2> QED
    BY <2>2 DEF I
<1> QED
  BY <1>3, <1>4, <1>5, <1>7 DEF w2

\* addToDCTBalance adds to what is held what it is told to.
LEMMA AddedHeld ==
    ASSUME NEW bal \in Balances, NEW a \in Accounts, NEW delta \in Int, NEW returning \in BOOLEAN,
           ~AddRefused(bal, a, delta, returning)
    PROVE  /\ HeldIn(bal) \in Int
           /\ HeldIn(Added(bal, a, delta)) = HeldIn(bal) + delta
<1> DEFINE new == Added(bal, a, delta)
<1>1. new \in Balances
  BY AddedWrites
<1>2. new[a].value = bal[a].value + delta
  BY AddedWrites
<1>3. \A c \in Accounts \ {a} : new[c].value = bal[c].value
  <2>1. \A c \in Accounts : c # a => new[c] = bal[c]
    BY AddedWrites
  <2> QED
    BY <2>1
<1>4. bal[a].value \in Nat
  BY DEF Balances, Holding
<1> HIDE DEF new
<1>5. HeldIn(bal) \in Int /\ HeldIn(new) = HeldIn(bal) - bal[a].value + new[a].value
  BY <1>1, <1>3, HeldChanges
<1> QED
  BY <1>2, <1>4, <1>5 DEF new

LEMMA SumTypes == TypeOK => HeldIn(balance) \in Int /\ TravelsOn(wire) \in Int
<1> SUFFICES ASSUME TypeOK PROVE HeldIn(balance) \in Int /\ TravelsOn(wire) \in Int
  OBVIOUS
<1>1. balance \in Balances /\ wire \in Wires
  BY TypeParts DEF TokenTypes
<1>2. HeldIn(balance) \in Int
  <2> DEFINE f == [c \in Accounts |-> balance[c].value]
  <2>1. \A c \in Accounts : f[c] \in Int
    BY <1>1 DEF Balances, Holding
  <2> HIDE DEF f
  <2>2. SumFunctionOnSet(f, Accounts) \in Int
    BY <2>1, SumAdds, CoordinatorAssumption
  <2> QED
    BY <2>2 DEF HeldIn, f
<1>3. TravelsOn(wire) \in Int
  <2> DEFINE I == 1..Slots
             f == [i \in I |-> ValueOf(wire[i])]
  <2>1. IsFiniteSet(I) /\ \A i \in I : f[i] \in Int
    BY <1>1, FungibleAssumption, FS_Interval DEF Wires, MessageType, ValueOf
  <2>2. TravelsOn(wire) = SumFunctionOnSet(f, I)
    BY DEF TravelsOn
  <2> HIDE DEF f, I
  <2> QED
    BY <2>1, <2>2, SumAdds
<1> QED
  BY <1>2, <1>3

LEMMA ChangeBalanceConserves ==
    ASSUME TypeOK, SupplyConserved, NEW a \in Accounts, NEW delta \in Int, ChangeBalance(a, delta)
    PROVE  HeldIn(balance') + TravelsOn(wire') = supply'
<1>1. balance \in Balances /\ HeldIn(balance) + TravelsOn(wire) = supply
  BY TypeParts, SupplyParts DEF TokenTypes
<1>2. /\ ~AddRefused(balance, a, delta, FALSE) /\ balance' = Added(balance, a, delta)
      /\ wire' = wire /\ supply' = supply + delta
  BY DEF ChangeBalance
<1>3. HeldIn(balance') = HeldIn(balance) + delta
  BY <1>1, <1>2, AddedHeld
<1> QED
  BY <1>1, <1>2, <1>3, SumTypes

LEMMA TransferInShardConserves ==
    ASSUME TypeOK, SupplyConserved, NEW a \in Accounts, NEW b \in Accounts, NEW q \in Quantities,
           NEW call \in BOOLEAN, TransferInShard(a, b, q, call)
    PROVE  HeldIn(balance') + TravelsOn(wire') = supply'
<1> DEFINE mid == Added(balance, a, -q)
<1>1. /\ balance \in Balances /\ q \in Int /\ -q \in Int
      /\ HeldIn(balance) + TravelsOn(wire) = supply
  BY TypeParts, QuantityTypes, SupplyParts DEF TokenTypes
<1>2. /\ ~AddRefused(balance, a, -q, FALSE) /\ ~AddRefused(mid, b, q, FALSE)
      /\ balance' = Added(mid, b, q) /\ UNCHANGED <<wire, supply>>
  BY DEF TransferInShard, CanSend
<1>3. mid \in Balances
  BY <1>1, <1>2, AddedWrites
<1>4. HeldIn(mid) = HeldIn(balance) + (-q)
  BY <1>1, <1>2, AddedHeld
<1> HIDE DEF mid
<1>5. HeldIn(balance') = HeldIn(mid) + q
  BY <1>1, <1>2, <1>3, AddedHeld
<1> QED
  BY <1>1, <1>2, <1>4, <1>5, SumTypes

LEMMA TransferLeavesConserves ==
    ASSUME TypeOK, SupplyConserved, NEW i \in 1..Slots, NEW a \in Accounts, NEW b \in Accounts,
           NEW q \in Quantities, NEW call \in BOOLEAN, TransferLeaves(i, a, b, q, call)
    PROVE  HeldIn(balance') + TravelsOn(wire') = supply'
<1> DEFINE m == [phase |-> "sent", from |-> a, to |-> b, value |-> q, call |-> call]
<1>1. /\ balance \in Balances /\ wire \in Wires /\ q \in Nat /\ -q \in Int
      /\ HeldIn(balance) + TravelsOn(wire) = supply
  BY TypeParts, QuantityTypes, SupplyParts DEF TokenTypes
<1>2. m \in MessageType /\ ValueOf(m) = q
  BY <1>1 DEF MessageType, ValueOf, Free
<1>3. /\ wire[i] = Free /\ ~AddRefused(balance, a, -q, FALSE) /\ balance' = Added(balance, a, -q)
      /\ wire' = [wire EXCEPT ![i] = m] /\ supply' = supply
  BY DEF TransferLeaves, CanSend
<1> HIDE DEF m
<1>4. HeldIn(balance') = HeldIn(balance) + (-q)
  BY <1>1, <1>3, AddedHeld
<1>5. TravelsOn(wire') = TravelsOn(wire) - ValueOf(wire[i]) + ValueOf(m)
  BY <1>1, <1>2, <1>3, TravellingChanges
<1>6. ValueOf(wire[i]) = 0
  BY <1>3 DEF ValueOf
<1> QED
  BY <1>1, <1>2, <1>3, <1>4, <1>5, <1>6, SumTypes

LEMMA TransferArrivesConserves ==
    ASSUME TypeOK, SupplyConserved, NEW i \in 1..Slots, TransferArrives(i)
    PROVE  HeldIn(balance') + TravelsOn(wire') = supply'
<1> DEFINE to == wire[i].to
           v == wire[i].value
           returning == wire[i].phase = "returning"
<1>1. balance \in Balances /\ wire \in Wires /\ HeldIn(balance) + TravelsOn(wire) = supply
  BY TypeParts, SupplyParts DEF TokenTypes
<1>2. /\ wire[i] # Free /\ ~AddRefused(balance, to, v, returning)
      /\ balance' = Added(balance, to, v)
      /\ wire' = [wire EXCEPT ![i] = Free] /\ supply' = supply
  BY DEF TransferArrives, Accepted
<1>3. to \in Accounts /\ v \in Int /\ returning \in BOOLEAN
  BY <1>2, WireType
<1>4. ValueOf(wire[i]) = v /\ ValueOf(Free) = 0
  BY <1>2 DEF ValueOf
<1>5. TravelsOn(wire') = TravelsOn(wire) - ValueOf(wire[i]) + ValueOf(Free)
  BY <1>1, <1>2, TravellingChanges
<1> HIDE DEF to, v, returning
<1>6. HeldIn(balance') = HeldIn(balance) + v
  BY <1>1, <1>2, <1>3, AddedHeld
<1> QED
  BY <1>1, <1>2, <1>3, <1>4, <1>5, <1>6, SumTypes

LEMMA TransferFailsConserves ==
    ASSUME TypeOK, SupplyConserved, NEW i \in 1..Slots, TransferFails(i)
    PROVE  HeldIn(balance') + TravelsOn(wire') = supply'
<1> DEFINE m == wire[i]
           back == [m EXCEPT !.phase = "returning", !.from = m.to, !.to = m.from, !.call = FALSE]
<1>1. wire \in Wires /\ HeldIn(balance) + TravelsOn(wire) = supply
  BY TypeParts, SupplyParts DEF TokenTypes
<1>2. m # Free /\ m \in MessageType
  BY WireType DEF TransferFails
<1>3. back \in MessageType /\ ValueOf(back) = ValueOf(m) /\ ValueOf(m) \in Int
  <2>0. m.value \in Int
    BY <1>2 DEF MessageType
  <2>1. back \in MessageType
    BY <1>2 DEF MessageType
  <2>2. back.phase = "returning" /\ back.value = m.value
    BY <1>2 DEF MessageType
  <2> HIDE DEF back, m
  <2>3. back # Free
    <3>1. Free.phase = "free"
      BY DEF Free
    <3> QED
      BY <2>2, <3>1
  <2> QED
    BY <1>2, <2>0, <2>1, <2>2, <2>3 DEF ValueOf
<1>4. wire' = [wire EXCEPT ![i] = back] /\ UNCHANGED <<balance, supply>>
  BY DEF TransferFails
<1> HIDE DEF back
<1>5. TravelsOn(wire') = TravelsOn(wire) - ValueOf(m) + ValueOf(back)
  BY <1>1, <1>3, <1>4, TravellingChanges
<1> HIDE DEF m
<1> QED
  BY <1>1, <1>3, <1>4, <1>5, SumTypes

\* A freeze changes no value, and a wipe takes the account's from the supply.
LEMMA FreezeAndWipeConserve ==
    ASSUME TypeOK, SupplyConserved, NEW a \in Accounts, Wipe(a) \/ \E v \in BOOLEAN : Freeze(a, v)
    PROVE  HeldIn(balance') + TravelsOn(wire') = supply'
<1>1. /\ balance \in Balances /\ wire \in Wires /\ balance[a].value \in Int
      /\ HeldIn(balance) + TravelsOn(wire) = supply /\ wire' = wire
  BY TypeParts, SupplyParts DEF TokenTypes, Balances, Holding, Wipe, Freeze
<1>2. CASE Wipe(a)
  <2>1. balance' = [balance EXCEPT ![a] = NoHolding] /\ supply' = supply - balance[a].value
    BY <1>2 DEF Wipe
  <2>2. /\ balance' \in Balances /\ balance'[a].value = 0
        /\ \A c \in Accounts \ {a} : balance'[c].value = balance[c].value
    BY <1>1, <2>1 DEF Balances, Holding, NoHolding
  <2>3. HeldIn(balance') = HeldIn(balance) - balance[a].value + 0
    BY <1>1, <2>2, HeldChanges
  <2> QED
    BY <1>1, <2>1, <2>3, SumTypes
<1>3. ASSUME NEW v \in BOOLEAN, Freeze(a, v)
      PROVE  HeldIn(balance') + TravelsOn(wire') = supply'
  <2>1. balance' = [balance EXCEPT ![a].frozen = v] /\ supply' = supply
    BY <1>3 DEF Freeze
  <2>2. /\ balance' \in Balances /\ \A c \in Accounts : balance'[c].value = balance[c].value
    BY <1>1, <2>1 DEF Balances, Holding
  <2>3. HeldIn(balance') = HeldIn(balance) - balance[a].value + balance[a].value
    BY <1>1, <2>2, HeldChanges
  <2> QED
    BY <1>1, <2>1, <2>3, SumTypes
<1> QED
  BY <1>2, <1>3

LEMMA NothingHeldAtFirst == Init => SupplyConserved
<1> SUFFICES ASSUME Init PROVE HeldIn(balance) + TravelsOn(wire) = supply
  BY SupplyParts
<1> DEFINE f == [a \in Accounts |-> balance[a].value]
           g == [i \in 1..Slots |-> ValueOf(wire[i])]
<1>1. IsFiniteSet(Accounts) /\ IsFiniteSet(1..Slots) /\ IsFiniteSet({})
  BY CoordinatorAssumption, FungibleAssumption, FS_Interval, FS_EmptySet
<1>2. \A a \in Accounts : f[a] = 0
  BY DEF Init, NoHolding
<1>3. \A i \in 1..Slots : g[i] = 0
  BY DEF Init, ValueOf
<1>4. HeldIn(balance) = SumFunctionOnSet(f, Accounts) /\ TravelsOn(wire) = SumFunctionOnSet(g, 1..Slots)
  BY DEF HeldIn, TravelsOn
<1>5. supply = 0
  BY DEF Init
<1> HIDE DEF f, g
<1>6. SumFunctionOnSet(f, {}) = 0 /\ SumFunctionOnSet(g, {}) = 0
  BY <1>1, SumUnfolds
<1>7. SumFunctionOnSet(f, {}) = SumFunctionOnSet(f, Accounts)
  BY <1>1, <1>2, SumRestricts
<1>8. SumFunctionOnSet(g, {}) = SumFunctionOnSet(g, 1..Slots)
  <2> DEFINE I == 1..Slots
  <2>1. IsFiniteSet(I) /\ \A i \in I : g[i] = 0
    BY <1>1, <1>3
  <2> HIDE DEF I
  <2>2. SumFunctionOnSet(g, {}) = SumFunctionOnSet(g, I)
    BY <2>1, SumRestricts
  <2> QED
    BY <2>2 DEF I
<1> QED
  BY <1>4, <1>5, <1>6, <1>7, <1>8

LEMMA StepConserves == TypeOK /\ SupplyConserved /\ [Next]_vars => SupplyConserved'
<1> SUFFICES ASSUME TypeOK, SupplyConserved, [Next]_vars
             PROVE  HeldIn(balance') + TravelsOn(wire') = supply'
  BY DEF SupplyConserved, Held, Travelling, HeldIn, TravelsOn, ValueOf
<1> DEFINE Goal == HeldIn(balance') + TravelsOn(wire') = supply'
<1>1. ASSUME NEW a \in Accounts, UserCalls(a)
      PROVE  Goal
  <2>1. ASSUME NEW q \in Quantities, LocalMint(a, q) \/ LocalBurn(a, q) \/ Burn(a, q)
        PROVE  Goal
    <3>1. q \in Int /\ -q \in Int
      BY QuantityTypes
    <3> QED
      BY <2>1, <3>1, ChangeBalanceConserves DEF LocalMint, LocalBurn, Burn
  <2>2. ASSUME NEW b \in Accounts, NEW q \in Quantities, NEW call \in BOOLEAN,
               TransferInShard(a, b, q, call)
        PROVE  Goal
    BY <2>2, TransferInShardConserves
  <2>3. ASSUME NEW b \in Accounts, NEW q \in Quantities, NEW call \in BOOLEAN, NEW i \in 1..Slots,
               TransferLeaves(i, a, b, q, call)
        PROVE  Goal
    BY <2>3, TransferLeavesConserves
  <2> HIDE DEF Goal
  <2> QED
    BY <1>1, <2>1, <2>2, <2>3 DEF UserCalls
<1>2. ASSUME NEW i \in 1..Slots, Settle(i)
      PROVE  Goal
  BY <1>2, TransferArrivesConserves, TransferFailsConserves DEF Settle
<1>3. ASSUME NEW a \in Accounts, Wipe(a) \/ \E v \in BOOLEAN : Freeze(a, v)
      PROVE  Goal
  BY <1>3, FreezeAndWipeConserve
<1>4. ASSUME ChangeSettings \/ RoleCalls \/ UNCHANGED vars
      PROVE  Goal
  <2>1. UNCHANGED balance /\ UNCHANGED wire /\ UNCHANGED supply
    BY <1>4 DEF ChangeSettings, RoleCalls, vars
  <2> QED
    BY <2>1, SupplyParts
<1> HIDE DEF Goal
<1>5. Goal
  BY <1>1, <1>2, <1>3, <1>4 DEF Next, SystemCalls
<1> QED
  BY <1>5 DEF Goal

\* Whatever is transferred, to oneself, to another account or back, frozen or
\* wiped, in whatever order the halves of the transfers are executed: what the
\* accounts hold and what is in flight is what was minted, less what was burnt
\* and wiped (addToDCTBalance).
THEOREM FungibleSupplyConserved == Spec => []SupplyConserved
<1>1. Init => SupplyConserved
  BY NothingHeldAtFirst
<1>2. TypeOK /\ SupplyConserved /\ [Next]_vars => SupplyConserved'
  BY StepConserves
<1> QED
  BY <1>1, <1>2, FungibleTypeCorrect, PTL DEF Spec
=============================================================================
