------------------------------ MODULE NFTLedger ------------------------------
(***************************************************************************)
(* The NFTs of one collection on all shards: the built-in functions that   *)
(* create, add to, burn, transfer, freeze, wipe and update them, over the  *)
(* storage handler, the roles and the global settings.                     *)
(*                                                                         *)
(* Each action is one call of ProcessBuiltinFunction that succeeds: a call *)
(* that returns an error changes nothing, since the node reverts it.  The  *)
(* node is external.  It executes the output transfer of a cross-shard     *)
(* transfer at the destination, once and in any order, and when that call  *)
(* fails it sends the tokens back with ReturnCallAfterError.               *)
(***************************************************************************)
EXTENDS DCTDataStorage, Functions

CONSTANTS
    ConfigShard, \* shard of the address allowed to delete and add metadata
    Quantities,  \* quantities in calls
    MaxSupply,   \* bound: tokens of one nonce
    Slots,       \* bound: slots 1..Slots for cross-shard transfers in flight
    Base,        \* 256: a nonce is written in a key as digits to this base
    Separator    \* the digit that is also the separator of identifiers, '-'

ASSUME LedgerAssumption ==
    /\ ConfigShard \in Shards
    /\ Quantities \subseteq Nat
    /\ MaxSupply \in Nat /\ Slots \in Nat
    /\ Base \in Nat \ {0, 1} /\ Separator \in 0..(Base - 1)

AddQuantityRole == "NFTAddQuantity"
BurnRole == "NFTBurn"
UpdateRole == "NFTUpdateAttributes"

VARIABLES
    store,   \* balances on accounts, metadata and liquidity on system accounts
    wire,    \* slot -> the cross-shard transfer in it
    supply   \* history: nonce -> tokens created and added less burnt and wiped

ledgerVars == <<store, wire, supply>>
vars == <<flags, settings, transferAddresses, roles, latestNonce, owner, handover, minted,
          store, wire, supply>>

\* What the output transfer of DCTNFTTransfer carries: its arguments, and the
\* DCToken in the fourth one (its value, frozen flag and metadata).
MessageType == [phase : {"sent", "returning"}, from : Accounts, to : Accounts, nonce : Nonces,
                value : Nat, frozen : BOOLEAN, meta : BOOLEAN, call : BOOLEAN]
Free == [phase |-> "free"]

TypeOK ==
    /\ FlagsTypeOK /\ SettingsTypeOK /\ RolesTypeOK
    /\ store \in StoreType
    /\ wire \in [1..Slots -> MessageType \union {Free}]
    /\ supply \in [Nonces -> Int]

Init ==
    /\ FlagsInit /\ SettingsInit /\ RolesInit
    /\ store = EmptyStore
    /\ wire = [i \in 1..Slots |-> Free]
    /\ supply = [n \in Nonces |-> 0]

-----------------------------------------------------------------------------
\* Nothing but the ledger's own state changes.
OnlyLedger == UNCHANGED <<flags, settings, transferAddresses, roles, latestNonce, owner, handover, minted>>

\* DCTNFTCreate: the token is saved with its metadata, always, then counted.
NFTCreate(a, q) ==
    /\ Called("create")
    /\ AllocateNonce(a)
    /\ q > 0
    /\ q > 1 => HasRole(a, AddQuantityRole)
    /\ LET n == latestNonce[a] + 1
           tok == [value |-> q, frozen |-> FALSE, meta |-> TRUE]
           saved == SaveToken(store, a, a, n, tok, TRUE)
       IN  /\ supply[n] + q <= MaxSupply
           /\ ~Refused(store, a, tok, FALSE)
           /\ ~LiquidityRefused(saved, ShardOf[a], n, q)
           /\ store' = AddToLiquidity(saved, ShardOf[a], n, q)
           /\ supply' = [supply EXCEPT ![n] = @ + q]
    /\ UNCHANGED <<flags, settings, transferAddresses, wire>>

\* The common end of add quantity and burn: the balance, then the liquidity.
ChangeQuantity(a, n, delta) ==
    LET tok == [Token(store, a, n) EXCEPT !.value = @ + delta]
        saved == SaveToken(store, a, a, n, tok, FALSE)
    IN  /\ store.entry[a][n] # NoEntry
        /\ ~Refused(store, a, tok, FALSE)
        /\ ~LiquidityRefused(saved, ShardOf[a], n, delta)
        /\ store' = AddToLiquidity(saved, ShardOf[a], n, delta)
        /\ supply' = [supply EXCEPT ![n] = @ + delta]
        /\ UNCHANGED wire
        /\ OnlyLedger

NFTAddQuantity(a, n, q) ==
    /\ Called("addQuantity")
    /\ HasRole(a, AddQuantityRole)
    /\ supply[n] + q <= MaxSupply
    /\ ChangeQuantity(a, n, q)

\* Fault: the balance is not compared with the quantity.
NFTBurnUnchecked(a, n, q) ==
    /\ Called("burn")
    /\ settings[ShardOf[a]]["burnRoleForAll"] \/ HasRole(a, BurnRole)
    /\ ChangeQuantity(a, n, -q)

NFTBurn(a, n, q) ==
    /\ Called("burn")
    /\ settings[ShardOf[a]]["burnRoleForAll"] \/ HasRole(a, BurnRole)
    /\ q <= store.entry[a][n].value
    /\ ChangeQuantity(a, n, -q)

-----------------------------------------------------------------------------
\* What processNFTTransferOnSenderShard checks before it takes the quantity.
CanSend(a, b, n, q) ==
    /\ a # b
    /\ store.entry[a][n] # NoEntry
    /\ q <= store.entry[a][n].value
    /\ On(CheckTransfer) => q > 0
    /\ TransferAllowed(a, b)
    /\ ~Refused(store, a, Token(store, a, n), FALSE)

\* The store once the quantity is taken from the sender.
Taken(st, a, n, q) == SaveToken(st, a, a, n, [Token(st, a, n) EXCEPT !.value = @ - q], FALSE)

\* Fault: the balance of the destination is overwritten.
AddedOverwriting(st, from, to, n, tok) == SaveToken(st, from, to, n, tok, FALSE)

\* addNFTToDestination: the token saved is the one transferred, with its own
\* frozen flag and metadata, and the value of both.
Added(st, from, to, n, tok) ==
    SaveToken(st, from, to, n, [tok EXCEPT !.value = @ + st.entry[to][n].value], FALSE)

\* Fault: only the token to be saved is checked, with the flag it comes with.
AddRefusedByToken(st, to, n, tok, returning) == Refused(st, to, tok, returning)

\* The account's own entry is checked first, then the token to be saved.
AddRefused(st, to, n, tok, returning) ==
    \/ ~returning /\ FrozenOrPaused(to, st.entry[to][n])
    \/ Refused(st, to, tok, returning)

TransferInShard(a, b, n, q, call) ==
    /\ Called("transfer")
    /\ ShardOf[a] = ShardOf[b]
    /\ CanSend(a, b, n, q)
    /\ Payable(b, call, FALSE)
    /\ LET tok == [Token(store, a, n) EXCEPT !.value = q]
       IN  /\ ~AddRefused(Taken(store, a, n, q), b, n, tok, FALSE)
           /\ store' = Added(Taken(store, a, n, q), a, b, n, tok)
    /\ UNCHANGED <<wire, supply>>
    /\ OnlyLedger

\* createNFTOutputTransfers: the token is left out of the message when its
\* metadata was sent to the shard before, except for a single NFT.
TransferLeaves(i, a, b, n, q, call) ==
    LET s == ShardOf[a]
        d == ShardOf[b]
        tok == Token(store, a, n)
        counted == AddToLiquidity(Taken(store, a, n, q), s, n, -q)
        whole == ~AlreadySent(counted, s, n, d) \/ q = 1
    IN  /\ Called("transfer")
        /\ wire[i] = Free
        /\ \A j \in 1..(i - 1) : wire[j] # Free
        /\ s # d
        /\ CanSend(a, b, n, q)
        /\ ~LiquidityRefused(Taken(store, a, n, q), s, n, -q)
        /\ store' = RecordSent(counted, s, n, d)
        /\ wire' = [wire EXCEPT ![i] =
              [phase |-> "sent", from |-> a, to |-> b, nonce |-> n, value |-> q,
               frozen |-> whole /\ tok.frozen, meta |-> whole /\ tok.meta, call |-> call]]
        /\ UNCHANGED supply
        /\ OnlyLedger

\* ProcessBuiltinFunction at the destination: does it accept the message, and
\* what does it write.
Carried(m) == [value |-> m.value, frozen |-> m.frozen, meta |-> m.meta]

Credited(m) == Added(store, m.from, m.to, m.nonce, Carried(m))

Accepted(m) ==
    LET returning == m.phase = "returning"
    IN  /\ Payable(m.to, m.call, returning)
        /\ ~AddRefused(store, m.to, m.nonce, Carried(m), returning)
        /\ ~LiquidityRefused(Credited(m), ShardOf[m.to], m.nonce, m.value)

TransferArrives(i) ==
    /\ wire[i] # Free
    /\ Accepted(wire[i])
    /\ store' = AddToLiquidity(Credited(wire[i]), ShardOf[wire[i].to], wire[i].nonce, wire[i].value)
    /\ wire' = [wire EXCEPT ![i] = Free]
    /\ UNCHANGED supply
    /\ OnlyLedger

\* Fault: tokens are returned only when a contract was called.
TransferFailsAfterCall(i) ==
    LET m == wire[i]
    IN  /\ m # Free
        /\ m.phase = "sent"
        /\ m.call
        /\ store' = SaveFailedMetaData(store, m)
        /\ wire' = [wire EXCEPT ![i] = [m EXCEPT !.phase = "returning", !.from = m.to, !.to = m.from,
                                                 !.call = FALSE]]
        /\ UNCHANGED supply
        /\ OnlyLedger

\* External: the call at the destination fails, in the built-in function or in
\* the contract called after it, and the node returns the tokens.
TransferFails(i) ==
    LET m == wire[i]
    IN  /\ m # Free
        /\ m.phase = "sent"
        /\ ~Accepted(m) \/ m.call
        /\ store' = SaveFailedMetaData(store, m)
        /\ wire' = [wire EXCEPT ![i] = [m EXCEPT !.phase = "returning", !.from = m.to, !.to = m.from,
                                                 !.call = FALSE]]
        /\ UNCHANGED supply
        /\ OnlyLedger

\* A return that is refused is not returned once more: the tokens are lost.
ReturnFails(i) ==
    /\ wire[i] # Free
    /\ wire[i].phase = "returning"
    /\ ~Accepted(wire[i])
    /\ wire' = [wire EXCEPT ![i] = Free]
    /\ UNCHANGED <<store, supply>>
    /\ OnlyLedger

Settle(i) == TransferArrives(i) \/ TransferFails(i) \/ ReturnFails(i)

-----------------------------------------------------------------------------
\* DCTFreeze and DCTUnFreeze on key k of the account: the entry of a nonce, or
\* key 0 for the collection.  saveDCTData keeps an empty entry while frozen.
Freeze(a, k, v) ==
    /\ Called("freeze")
    /\ LET e == [store.entry[a][k] EXCEPT !.frozen = v]
       IN  store' = [store EXCEPT !.entry[a][k] = IF e.value = 0 /\ ~v THEN NoEntry ELSE e]
    /\ UNCHANGED <<wire, supply>>
    /\ OnlyLedger

\* extractTokenIdentifierAndNonceDCTWipe splits the key at every separator,
\* so of a nonce it reads the digits before the first one that equals it.
SeparatorIn[k \in Keys] == k # 0 /\ (k % Base = Separator \/ SeparatorIn[k \div Base])

ExtractedNonce[k \in Keys] ==
    IF k = 0 THEN 0
    ELSE IF SeparatorIn[k] THEN ExtractedNonce[k \div Base]
    ELSE k

\* Fault: a wipe never touches the liquidity.
WipeUncounted(a, k) ==
    LET e == store.entry[a][k]
    IN  /\ Called("wipe")
        /\ e.frozen
        /\ store' = [store EXCEPT !.entry[a][k] = NoEntry]
        /\ supply' = IF k = 0 THEN supply ELSE [supply EXCEPT ![k] = @ - e.value]
        /\ UNCHANGED wire
        /\ OnlyLedger

\* wipeIfApplicable: the liquidity follows only with its flag.
Wipe(a, k) ==
    LET e == store.entry[a][k]
        n == ExtractedNonce[k]
        wiped == [store EXCEPT !.entry[a][k] = NoEntry]
        counts == On(WipeLiquidityDecrease) /\ n # 0
    IN  /\ Called("wipe")
        /\ e.frozen
        /\ counts => ~LiquidityRefused(wiped, ShardOf[a], n, -e.value)
        /\ store' = IF counts THEN AddToLiquidity(wiped, ShardOf[a], n, -e.value) ELSE wiped
        /\ supply' = IF k = 0 THEN supply ELSE [supply EXCEPT ![k] = @ - e.value]
        /\ UNCHANGED wire
        /\ OnlyLedger

\* DCTNFTAddURI and DCTNFTUpdateAttributes: metadata is there to be changed (a
\* token without it makes the code dereference nil), and always written.
UpdateMetaData(a, n) ==
    LET tok == Token(store, a, n)
    IN  /\ Called("update")
        /\ HasRole(a, UpdateRole)
        /\ tok # NoEntry /\ tok.meta
        /\ ~Refused(store, a, tok, FALSE)
        /\ store' = SaveToken(store, a, a, n, tok, TRUE)
        /\ UNCHANGED <<wire, supply>>
        /\ OnlyLedger

\* DCTDeleteMetadata and DCTAddMetadata: the configured address clears and
\* restores metadata on its shard, whatever liquidity is counted there.
DeleteMetaData(n) ==
    /\ Called("metadata")
    /\ On(SendAlways)
    /\ store' = [store EXCEPT !.system[ConfigShard][n] = NoSystemEntry]
    /\ UNCHANGED <<wire, supply>>
    /\ OnlyLedger

AddMetaData(n) ==
    /\ Called("metadata")
    /\ On(SendAlways)
    /\ ~store.system[ConfigShard][n].exists
    /\ store' = [store EXCEPT !.system[ConfigShard][n] = [NoSystemEntry EXCEPT !.exists = TRUE]]
    /\ UNCHANGED <<wire, supply>>
    /\ OnlyLedger

-----------------------------------------------------------------------------
\* Calls of the system SC on settings and roles, and a new epoch.
ChangeSettings ==
    /\ SettingsCalls
    /\ UNCHANGED <<flags, roles, latestNonce, owner, handover, minted, store, wire, supply>>

ChangeRolesOrOwner ==
    /\ RoleAdministration
    /\ UNCHANGED <<flags, settings, transferAddresses, store, wire, supply>>

NewEpoch ==
    /\ \E f \in AllFlags : EnableFlag(f)
    /\ UNCHANGED <<settings, transferAddresses, roles, latestNonce, owner, handover, minted,
                   store, wire, supply>>

UserCalls(a) ==
    \/ \E q \in Quantities : NFTCreate(a, q)
    \/ \E n \in Nonces, q \in Quantities : NFTAddQuantity(a, n, q) \/ NFTBurn(a, n, q)
    \/ \E n \in Nonces : UpdateMetaData(a, n)
    \/ \E b \in Accounts, n \in Nonces, q \in Quantities, call \in BOOLEAN :
          /\ call => b \in Contracts
          /\ \/ TransferInShard(a, b, n, q, call)
             \/ \E i \in 1..Slots : TransferLeaves(i, a, b, n, q, call)

SystemCalls ==
    \/ \E a \in Accounts, k \in Keys : Wipe(a, k) \/ \E v \in BOOLEAN : Freeze(a, k, v)
    \/ \E n \in Nonces : DeleteMetaData(n) \/ AddMetaData(n)
    \/ ChangeSettings
    \/ ChangeRolesOrOwner
    \/ NewEpoch

Next ==
    \/ \E a \in Accounts : UserCalls(a)
    \/ SystemCalls
    \/ \E i \in 1..Slots : Settle(i)

Spec == Init /\ [][Next]_vars

\* The node executes every transfer it has received.
FairSpec == Spec /\ \A i \in 1..Slots : WF_vars(Settle(i))

-----------------------------------------------------------------------------
Balance(a, n) == store.entry[a][n].value
InFlight(n) == {i \in 1..Slots : wire[i] # Free /\ wire[i].nonce = n}

Held(n, A) == SumFunctionOnSet([a \in Accounts |-> Balance(a, n)], A)
Travelling(n) == SumFunctionOnSet([i \in 1..Slots |-> IF wire[i] = Free THEN 0 ELSE wire[i].value], InFlight(n))

\* No transfer, delivery, failure or return makes or loses a token: what the
\* accounts hold and what is in flight is what was created, added, burnt and
\* wiped, on every shard together.
SupplyConserved == \A n \in Nonces : Held(n, Accounts) + Travelling(n) = supply[n]

\* The liquidity tracked on the system account of a shard is what the accounts
\* of the shard hold, and metadata is gone only when they hold nothing.
LiquidityMatchesHoldings ==
    TracksLiquidity => \A s \in Shards, n \in Nonces :
        LET x == store.system[s][n]
        IN  /\ x.exists /\ x.reserved => x.value = Held(n, AccountsOf(s))
            /\ ~x.exists => Held(n, AccountsOf(s)) = 0

\* A holder can read the metadata of what it holds, or a transfer that brings
\* the metadata to its shard is still in flight.
MetaDataReachesHolders ==
    \A a \in Accounts, n \in Nonces : Balance(a, n) > 0 =>
        \/ Token(store, a, n).meta
        \/ \E i \in InFlight(n) : wire[i].meta /\ ShardOf[wire[i].to] = ShardOf[a]

\* A holding that is frozen, alone or with its collection, or whose shard is
\* paused.
HeldStill(a, n) ==
    \/ store.entry[a][n].frozen
    \/ On(CheckFrozenCollection) /\ store.entry[a][0].frozen
    \/ settings[ShardOf[a]]["paused"]

WipedNow(a, n) == /\ store.entry[a][n].frozen /\ store'.entry[a][n] = NoEntry
                  /\ supply'[n] = supply[n] - Balance(a, n)
ReturnedNow(a, n) == \E i \in InFlight(n) : /\ wire[i].phase = "returning" /\ wire[i].to = a
                                           /\ wire'[i] = Free
                                           /\ Balance(a, n)' = Balance(a, n) + wire[i].value

\* Nothing of such a holding changes, neither balance nor frozen flag nor
\* metadata, but when it is wiped, frozen or unfrozen, when a failed transfer
\* comes back, or when the step creates the nonce (which writes a new entry).
HeldStillStands ==
    [][\A a \in Accounts, n \in Nonces :
         HeldStill(a, n) /\ store'.entry[a][n] # store.entry[a][n] =>
            \/ WipedNow(a, n) \/ ReturnedNow(a, n) \/ minted'[n] # minted[n]
            \/ \E v \in BOOLEAN : Freeze(a, n, v)]_vars

\* Tokens on their way back are accepted whenever they arrive, whatever was
\* frozen, paused, limited or deleted since they left: none are lost.
ReturnsAreAccepted ==
    \A i \in 1..Slots : wire[i] # Free /\ wire[i].phase = "returning" => Accepted(wire[i])

\* A nonce is created in an empty place, whoever creates and whatever role
\* transfers came before: no account, message or metadata of it is older.
CreatedInEmptyPlace ==
    [][\A n \in Nonces : minted'[n] # minted[n] =>
         /\ minted[n] = 0
         /\ \A a \in Accounts : Balance(a, n) = 0
         /\ InFlight(n) = {}
         /\ \A s \in Shards : ~store.system[s][n].exists]_vars

\* Every cross-shard transfer comes to an end, at its destination or back.
TransfersSettle == \A i \in 1..Slots : wire[i] # Free ~> wire[i] = Free
=============================================================================
