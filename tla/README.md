# Built-in functions of gn-vm-common: models, checks and proofs

`gn-vm-common` is the library a sharded chain links between its virtual machine
and its node. Its core is the set of *built-in functions*: calls that a
transaction or a contract makes and that the node executes itself, on the
accounts of its own shard. Nearly all of them manage DCT tokens: who may do
what (roles), what holds (pause, freeze, limited transfer), who has how much,
and where the metadata of an NFT is kept. This directory holds TLA+ models of
them, TLC runs over small instances, and proofs checked by TLAPS.

## 1. Inventory

All paths are below `src/builtInFunctions/` unless they say otherwise.

| component | state | operations | interacts with | hard parts |
|---|---|---|---|---|
| roles, `dctRoles.go` | per account the list of roles of a token, and the latest NFT nonce | set, unset, lookup | called by the system smart contract on the metachain (not in the repository); looked up by every function that needs a role | duplicates in the list, restart of the nonce of multi-shard creators |
| NFT create role transfer, `dctNFTCreateRoleTransfer.go` | the same | one call at the current owner, an output transfer, one call at the next owner | system smart contract, node | the counter must travel with the role; for a while nobody has it |
| storage handler, `dctDataStorage.go` | entries of NFTs on accounts; metadata, liquidity and "sent to shard" marks on the system account of each shard | get, save, add to liquidity, was already sent, save metadata of a failed transfer | used by every NFT function | four epochs of the storage format; two writes that must agree |
| NFT create, quantity, burn, add URI, update | balances, nonce, liquidity | one call each | roles, settings, storage handler | balance and liquidity change together |
| NFT transfer, `dctNFTTransfer.go`, `payable.go` | balances in two shards, a message between them | sender, destination, failure, return | node, roles, settings, storage handler | anything may change while the message is under way; a return must be accepted |
| multi transfer, `multiDCTNFTTransfer.go` | the same | a list of transfers as one | the same | the same nonce twice; one of several fails |
| fungible transfer, mint, burn | one entry per account | one call each | roles, settings | the same, without metadata |
| freeze and wipe, `dctFreezeWipe.go`, `logsAndEvents.go` | the frozen flag of an entry, liquidity | freeze, unfreeze, wipe | storage handler | parsing the wiped key |
| global settings, `dctGlobalSettings.go`, `dctMetaData.go` | per shard: paused, limited transfer, burn role for all | toggle | looked up by transfers and burns | shards differ while the calls are on their way |
| transfer role addresses, `dctTransferRole.go` | per shard a bounded list of addresses | add, delete | looked up by transfers | the bound |
| metadata deletion, `dctDeleteMetadata.go` | system account of a shard | delete intervals, add | storage handler | deletes liquidity too; three nested loops over arguments with `uint64` arithmetic, nothing saved on an error |
| enable epochs, shard coordinator (`src/interface.go`) | flags of the epoch; shard of an address | external | read by nearly everything | flags change while messages are under way |
| container, creator, gas schedule (`container.go`, `creator.go`, `src/container/mutexMap.go`) | map of functions, gas costs of each under its own lock | create, gas schedule change, lookup | node threads | functions are updated one by one while others run |
| key-value storage, `keyValueStorage.go` | storage of one account | save a list of pairs | node | gas that is compared pair by pair, an error in the middle of the list |
| owner, developer rewards, user name, `changeOwnerAddress.go`, `claimDeveloperRewards.go`, `saveUserName.go` | owner, rewards and balance, name of an account | one call each, in two halves across shards | node | which half returns the gas and which moves the rewards; the owner changes between the halves |
| arguments of the transfer functions and the transfer parser, `src/parsers/dctTransferParser.go` | none (pure); the arguments of a call change from shard to shard | parse | node, VM, which go by what the parser says of a call | five readers of the same arguments, each with code of its own; what an argument means depends on where the call is |
| other parsers, data field parser, data builder, VM input and output types | none (pure) | parse, format, merge | node, VM | argument counts and their arithmetic |

`PROJECT.json` lists the same components with their state of modelling and, under
`hazards`, the places where something can go wrong that a test would hardly reach.

Five things repeat themselves in the last column and decided what is modelled first:

* **A message is on its way while everything else may change.** A transfer takes
  tokens in one shard and adds them in another; in between the destination may be
  frozen, the token paused, metadata deleted, an epoch may begin. A transfer that is
  refused is sent back with the same function, and if the return were refused too the
  tokens would be lost.
* **Two records must agree that one function never writes together**: balances on
  accounts and the liquidity on the system account of their shard; the shards that
  are marked as having metadata and the metadata they have.
* **A counter moves with a right**: the latest nonce of a collection with the create
  role.
* **The same bytes are read in several places**: by the execution on either side, by the
  parser, and once more of a message that failed.
* **Numbers come from arguments**: `uint64` products and intervals, bytes of nonces.

What makes each component correct:

| component | properties |
|---|---|
| roles, role transfer | a nonce is created once; one creator; the counter travels with the role; a role transfer completes |
| storage handler | metadata reaches every holder; liquidity is what the shard holds; old holdings are not counted |
| NFT create, quantity, burn, update; NFT, multi and fungible transfer | tokens are neither made nor lost over all shards; no balance is negative; a transfer settles; a return is accepted; a list succeeds or fails as one |
| freeze and wipe, settings, transfer addresses | what is frozen or paused stands still; a wipe takes balance and liquidity |
| metadata deletion | deletes the nonces of its intervals and no others, of every token listed; all of a list or nothing of it; returns |
| gas schedule | one schedule for an execution, none older than the one in force; a change reaches every function and returns |
| key-value storage | what is written is paid for, and what is not used is what is left; a refused list writes nothing |
| owner, developer rewards, user name | rewards are neither lost nor paid twice, and go to who owns the contract when they leave it; the two halves return the gas once; a call comes to its end |
| arguments, transfer parser | what a user asked for is what every shard executes, and what the parser says of it |

## 2. Modules

```
ShardCoordinator  EnableEpochs                      Words       GasSchedule
   |   \    |                                       /     \
NFTRoles  GlobalSettings     AccountCalls   ArgumentLoops  TransferArguments
   |   \    |      (ShardCoordinator)  \          |        /
   |   TransferRules                     \         |       /
   |     |        \                       \________|______/
   |  DCTDataStorage  FungibleLedger               |
   |     |                                     NodeCalls
   |  NFTLedger
   |     |
   |   MultiTransfer
NFTRolesRefinement -> NonceSequence (INSTANCE)

NFTRolesProofs (NFTRolesRefinement)      SumTheorems
         \       _______________________/     |      \
   NFTLedgerProofs (NFTLedger)                |   NodeCallsProofs (NodeCalls)
           |                                  |         |
   MultiTransferProofs (MultiTransfer)        |   ArgumentsProofs (ArgumentLoops,
                                              |                    TransferArguments)
GasScheduleProofs (GasSchedule)     FungibleLedgerProofs (FungibleLedger)
```
(each module EXTENDS those above it; `NFTRolesRefinement` extends `NFTRoles`.)

| module | models | state |
|---|---|---|
| `ShardCoordinator` | the `Coordinator` interface (external): the shard of each address, the addresses of each shard | constants |
| `EnableEpochs` | the enable epochs handler (external): flags, enabled one by one and never disabled | `flags` |
| `GlobalSettings` | `dctGlobalSettings.go`, `dctTransferRole.go` | `settings`, `transferAddresses` per shard |
| `NFTRoles` | `dctRoles.go`, `dctNFTCreateRoleTransfer.go`, the nonce of `dctNFTCreate.go` | `roles`, `latestNonce` per account; `owner`, `handover` (what the system smart contract knows and calls) ; `minted` (history) |
| `NonceSequence` | what the create role promises, abstractly | `holder`, `last` |
| `NFTRolesRefinement` | the mapping of the one to the other | - |
| `TransferRules` | what every transfer asks: frozen, paused, limited (`dctTransfer.go`), payable (`payable.go`) | - |
| `DCTDataStorage` | `dctDataStorage.go` as operators from a store to the store after the call, with a predicate for each error | - |
| `NFTLedger` | NFT create, add quantity, burn, add URI and update attributes, transfer, freeze, wipe, metadata deletion | `store`, `wire` (transfers in flight), `supply` (history) |
| `MultiTransfer` | `multiDCTNFTTransfer.go` beside all of `NFTLedger` | `multi` (lists in flight) |
| `FungibleLedger` | `dctTransfer.go`, `dctLocalMint.go`, `dctLocalBurn.go`, `dctBurn.go`, freeze and wipe of a balance | `balance`, `wire`, `supply` |
| `GasSchedule` | `creator.go` `GasScheduleChange`, `SetNewGasConfig` and the lock of a function | `cost`, `readers`, `change`, `exec`, `applied` (history) |
| `ArgumentLoops` | `dctDeleteMetadata.go`, `keyValueStorage.go`: one iteration a step, numbers of the width `Word` | `metadata`, `storage`, `loop` (the call under execution), `charged` (the gas of the last) |
| `AccountCalls` | `changeOwnerAddress.go`, `claimDeveloperRewards.go`, `saveUserName.go`, both halves of each | `owner`, `rewards`, `balance`, `name`, `calls` (under way), `earned` (history) |
| `Words` | unsigned numbers of the width `Word` | - |
| `TransferArguments` | the arguments of `DCTTransfer`, `DCTNFTTransfer` and `MultiDCTNFTTransfer`: executed at the sender, written into a message, executed at the destination, metadata kept of a failure, returned; `dctTransferParser.go` at each of these places | `tx` (the call), `meant` (history) |
| `NodeCalls` | the three beside each other, executed one at a time as a node does | `issued` (a bound) |
| `MC...` | instances for TLC | - |
| `...Proofs`, `SumTheorems` | theorems about the modules they are named after; about sums over finite sets | - |

### How state and steps correspond to the code

*One action is one call of a built-in function that succeeds.* A function that
returns an error makes the node revert what it wrote, so a call that fails is no
step, except when it fails at the destination of a cross-shard transfer, where
something has already happened elsewhere (`TransferFails`, `MultiFails`). Guards are
the early returns of the code in the order in which they matter, and within an
action each lookup sees what the writes before it have left: `Taken`, `Added`,
`AddToLiquidity` are composed as the code composes `SaveDCTNFTToken`,
`addNFTToDestination`, `AddToLiquiditySystemAcc`. Where a function can be interrupted
by another goroutine (the gas schedule) an action is one access of shared memory. The
functions of `ArgumentLoops` go by iterations, since the question there is what their
indices do; the account is the one that was loaded until the call ends, and an error
leaves the saved one as it was.

*One token.* All modules have one token identifier, with the nonces `1..MaxNonce` of
its collection; different tokens have different keys and never meet, except in the
wipe, which parses the key (`ExtractedNonce`).

*Entries.* A `DCToken` on an account is `[value, frozen, meta]`; what the metadata
says is abstracted to whether it is there. A system entry is `[exists, value,
reserved, sentTo]`: metadata there, liquidity, the `Reserved` marker of tracked
liquidity, the bytes of `Properties` by shard.

*Messages.* `wire` and `multi` are slots: any message may arrive next, so that they
overtake each other, and each is executed once. Slots are filled in order, which
only removes states that differ in the numbering. A slot of `calls` keeps the gas that
the halves of its call have given back until the node has booked it (`Book`).

*Words.* Unsigned numbers of the code are numbers below `Word`, and each sum, product
and increment of them is taken modulo `Word` (`Uint`). A byte string of `ArgumentLoops` is the number
that `SetBytes` makes of it; tokens are numbers larger than a word. In `TransferArguments`
its length matters too, and whether it is a marshalled token and of what value; there it is
`[num, len, data]`. A message is its list of arguments: joining them with `@` in hexadecimal
and splitting them again (`src/parsers/callArgsParser.go`) gives the same list, empty ones included.

*Readings.* `TransferArguments` has one operator for each reader of arguments, with the
comparisons, the order and the places that reader has. Each returns either a refusal or
the receiver, the items and the arguments behind them. That the tokens are there is the ledgers'
question: `LeaveSender` and `EndAtSender` are both open to a call that is read.

*Fault operators.* A definition whose comment begins with "Fault:" is not part of
the model. It is the definition below it with one plausible bug, and shows that the
properties notice.

### What is external

* **The system smart contract** on the metachain, which alone may change roles,
  settings, frozen flags. It may do so at any time and in any order. About role
  transfers it is assumed (`SerialHandover`) that it issues one after the other, and
  that a token without multi-shard creation gets a creator by role transfer only:
  `executeTransferNFTCreateChangeAtCurrentOwner` does not check whether the account
  it is called for has the role (hazard at `dctNFTCreateRoleTransfer.go:100`).
* **The node**, which loads the accounts of its shard, reverts failed calls, executes
  output transfers at their destination once, returns the tokens of those that fail
  (with `ReturnCallAfterError`), and calls `SaveNFTMetaDataToSystemAccount` for them.
* **`sync.RWMutex`**: a waiting writer keeps new readers out.

## 3. Plan

Done: roles and nonces; the storage handler; the NFT ledger; settings and transfer
addresses; the refinement of nonces; the fungible ledger; multi transfers; the gas
schedule; the loops over arguments with the width of their numbers; owner, rewards and
user names; the arguments of transfers and the transfer parser; their composition. Proved: the type
invariants of all of these, and every invariant and action property that a passing run checks (sections 4 and 5).

What is left to prove is what the prover does not reach (end of section 5).

## 4. Runs

| run | states | what it asks |
|---|---|---|
| `RolesOneCreator` | 12,744 | are nonces unique, is there one creator, does the counter travel with the role, does every role transfer complete, do nonces form one sequence |
| `LedgerCurrent` | 57,664 | all flags enabled: are supply and liquidity conserved; do frozen holdings stand; do transfers settle |
| `LedgerEpochs` | 132,624 | the same of metadata and liquidity while `SendAlways` and the async callback fix are enabled in either order; is a nonce created where nothing is |
| `LedgerSettings` | 309,248 | are returns accepted, and do frozen and paused holdings stand, while pause, limited transfer, burn role, transfer addresses and metadata change shard by shard |
| `FungibleCurrent` | 204,800 | the same of a fungible token |
| `MultiCurrent` | 15,710 | the same of lists of transfers |
| `NodeCalls` | 172,061 | are rewards conserved and paid to the owner, is gas returned once, are lists of deletions, additions and pairs done exactly and paid for, do loops and calls end, is a transfer executed as it was meant and as the parser says |
| `GasChange` | 21,625 | is an execution charged by one schedule that is not older than allowed, does a change reach every function and return |
| `RolesRegrant`, `LedgerMigration`, `LedgerWipe`, `MultiMisread` | - | violated: see section 6 |

What the properties say:

* `NonceNeverReused`, `UniqueCreator`, `CreatorKnowsEveryNonce`, `RecordedOwnerCreates`,
  `HandoverCompletes`, `ImplementsNonceSequence` (roles): over any interleaving of
  creations, other role changes and role transfers within a shard and across two.
* `SupplyConserved` / `MultiSupplyConserved`: held on all accounts plus in flight is
  created, added and minted less burnt and wiped. This is global: each handler sees
  one shard.
* `LiquidityMatchesHoldings`: tracked liquidity is the sum of the balances of the
  shard, and metadata is deleted only with the last token.
* `MetaDataReachesHolders`: who holds tokens can read their metadata or it is on its
  way; the case where metadata is left out of a transfer because the destination is
  marked as having it.
* `ReturnsAreAccepted`: a return never fails (a return that fails is lost).
* `HeldStillStands`: balance, frozen flag and metadata of frozen or paused holdings change only
  by a freeze, a wipe, a return, or the creation of the nonce. `CreatedInEmptyPlace` removes the
  last exception. A return does overwrite the flag of an NFT
  (`dctNFTTransfer.go:398`), while that of a fungible balance survives it, which
  `HeldStillStands` of `FungibleLedger` asks. `LedgerCurrent` freezes, `LedgerSettings` pauses.
* `TransfersSettle`, `MultiTransfersSettle`, `HandoverCompletes`, `ChangeReturns`: what
  has been sent, issued or begun comes to an end.
* `RewardsConserved`: what contracts earned is with them, with those who were paid, or on
  its way. In one shard the claim adds to the balance itself and lists the same amount in
  an output account; across shards the output transfer is all there is.
* `PaidToOwner`: rewards that leave a contract go to its owner of that moment, though the
  claim was sent under another.
* `GasReturnedOnce`: the function runs once without the account and once without the
  caller, and one of the two returns what is left; for names the other one than for owner
  and rewards.
* `ListsDoneExactly`: compares what the three nested loops have done with the list read in
  unbounded numbers (`GroupStarts`, `ListedBefore`); also that an addition refuses an entry it
  has added itself.
* `WritesArePaid`: the comparison of gas stands inside one branch of the loop of
  `SaveKeyValue`, the subtraction after it. It speaks of the gas left only if the last pair wrote
  something: otherwise it may wrap (section 6).
* `LoopsEnd`, `CallsSettle`: a loop over lists whose numbers fit (`Fits`) ends, and then so does
  every call that waits for it. Lists that do not fit are executed too: see section 6.
* `ReadAsMeant`: what the user asked for is what the sender's shard executes and, whatever
  form the message gave it, what the other shard executes, and the first when it is
  returned. It is asked of tokens that have metadata, whose bytes are longer than the limit
  (`TransferAssumption`); what happens to the others is `MultiMisread`'s. The message may leave metadata out or write a quantity in its place, and the two sides
  must agree which it is by its length; of a message that fails, metadata is kept of just the
  items that came with theirs.
* `SaidAsExecuted`: of every call a node executes, with any arguments and at any of these
  places, the transfer parser names the same receiver, items and call after the transfer. A virtual
  machine goes by what the parser says, the balances by what the execution does.
* `OneScheduleEach`, `NoOldSchedule`: the two costs of a function are read at different moments
  of one execution. `AllFunctionsUpdated` says of all functions, executed or not, that a change
  leaves no cost behind. It is proved (`Updated`) and checked by no run: as soon as such a function is executed
  one of the two is violated.

### Bounds, and why they are enough

* *Three accounts, two shards* (two users in shard 0, one account in shard 1): both
  the in-shard and the cross-shard path of every function, several holders behind one
  liquidity, a third party that interferes. In `LedgerEpochs` two of them are contracts
  that are not payable, so that returns can be refused before the fix. Where two
  accounts show the violation there are two.
* *Two slots*: one transfer overtakes another, a return crosses a transfer. Three
  messages would only combine what pairs of them do, as each is executed on its own.
  `LedgerSettings` and `MultiCurrent` have one slot of each kind, since what interferes
  there are settings and the other kind of transfer.
* *Quantities 1 and 2, supply 2 or 3*: partial and whole amounts; one token is a case of
  its own (`quantity = 1` is always sent whole), so is the last one.
* *Nonces*: one where nonces do not meet; two for lists, and for the wipe, where
  `Base = 4`, `Separator = 2` stand for 256 and 45 so that a nonce of few digits contains
  the separator.
* *Lists* of `MultiCurrent`: a nonce alone, twice the same, two in both orders; every
  other list is a longer mixture. `FewFrozen` (a CONSTRAINT) allows one frozen entry at
  a time: an item is refused for its own entry or the collection's, so one suffices to
  make any of the items fail.
* *`Excess`* is what the bytes of a marshalled token exceed its value by; any positive
  number shows the same.
* *Words of 4 bits* (`Word = 16`): lists of up to eight arguments stay below it as real lists
  stay below 2^64, and the interval `14..15` and the counts 7 and 8 reach it. The lists of
  `MCNodeCalls` are one for each way through the loops: several intervals, several tokens,
  none, overlapping ones, an argument left over, each refusal, each wrap; entries twice, one
  that exists; keys twice with the same and another value, a protected one, values that grow
  and shrink the stored one.
* *Three calls, two of them under way* (`MaxCalls = 3`, `CallSlots = 2`), where a loop counts as two
  (`LoopWeight`): a claim, an owner change and a third call meet in every order, or a loop and a
  call on its way. Two rewards: one claimed, one earned while the claim is on its way.
* *A transfer alone* (`TransferWeight = 3`): it shares no state with the others, so that orders
  of the two show nothing.
* *Bytes of base 4 and `MaxLength = 2`* stand for 256 and 32 bytes: a word is two bytes, and the amounts
  1, 5 and 20 have one, two and three, below, at and above the limit. A marshalled token has four
  (`MarshalledLength`; any number above the limit, as `TransferAssumption` says). Addresses
  have four bytes, one of them a small number. `MaxNumber = 164` is the largest number the instance
  writes.
* *Requests* are all transfers of one and two items, of one and two tokens, fungible or not, with
  those amounts and no, one or two arguments behind; each item may or may not be known at the
  destination (`alreadySent`). `MCOtherCalls` are those no client would make: too short, of value zero, to
  oneself, of wrong length, with nonces and counts that wrap around or have zeros in front.
* *Three role transfers, three nonces*; two schedules after the first, two functions,
  three executions: one may hold the lock, one wait, one be at another function.
* `Operations` says which functions a run calls. Together the runs call all.

`CHECK_DEADLOCK FALSE` stands in the runs whose system stops when its bounds are
reached (nothing left to create, send or issue). `GasChange` is checked for deadlock.

### Fairness

* The node executes what it has received: weak fairness of `HandoverStep(i)`,
  `Settle(i)`, `MultiSettle(k)`. A cross-shard message stays until it is executed, and
  one of its outcomes is always enabled. That a user or the system SC calls anything is
  never assumed.
* A loop goes on (`LoopStep`), as the node executes one function to its end; a call under way
  is executed when no loop runs (`CallEnds(i)` with `loop = NoLoop`). The fairness of a call is
  weak, so that it says nothing while loops begin and end without a pause; `MaxCalls` bounds them.
* Goroutines that can go on do (`ChangeStep`), and an execution returns (`ExecStep`); that
  an execution begins is not assumed, and new ones may follow without end. That the
  change nevertheless returns rests on the writer preference of `sync.RWMutex`.

## 5. Proofs

All proofs are checked by TLAPS 1.4.5 with Z3, Zenon and LS4; nothing is assumed but
the named `ASSUME`s on constants, which TLC evaluates in the runs.

| module | obligations | theorems |
|---|---|---|
| `NFTRolesProofs` | 665 | `TypeCorrect`, `NoncesAreUnique`, `CreatorIsUnique`, `CounterTravels`, `OwnerCreates`, `NoncesAreASequence` |
| `NFTLedgerProofs` | 2737 | `LedgerTypeCorrect`, `LedgerFollowsRoles`, `LedgerNoncesAreUnique`, `HeldHoldingsStand`, `CreationFindsNothing`; `LedgerReturnsAccepted`, `LedgerSupplyConserved`, `NoTokenIsLost`, `LiquidityIsHeld`, `HoldersReadMetaData`; lemmas on what each method of the storage handler may write |
| `MultiTransferProofs` | 2267 | `MultiTypeCorrect`, `MultiNoncesAreUnique`, `MultiReturnsAccepted`, `MultiSupply`, `MultiLiquidityIsHeld`, `MultiHoldersReadMetaData`, `MultiHeldHoldingsStand`; `OneItemInShard`, `OneItemArrives` |
| `SumTheorems` | 299 | no theorem of its own interest: lemmas on sums, and the inductions over subsets and along a list |
| `FungibleLedgerProofs` | 625 | `FungibleTypeCorrect`, `FungibleHeldStands`, `FungibleReturnsAccepted`, `FungibleSupplyConserved` |
| `ArgumentsProofs` | 2592 | `LoopsTypeCorrect`, `ListsAreDone`, `WrittenIsPaid`; `TransfersTypeCorrect`, `TransfersAreSaid`, `TransfersArriveAsMeant` |
| `NodeCallsProofs` | 667 | `AccountsTypeCorrect`, `GasIsReturnedOnce`, `RewardsPaidToOwner`, `NoRewardsAreLost`, `NodeCallsCorrect` |
| `GasScheduleProofs` | 150 | `LockIsHeld`, `OneSchedule`, `Updated`, `NoneIsOld` |

**Roles.** `NonceNeverReused` is not inductive: that the next nonce is new needs that the
creator knows every nonce so far; that needs that nobody else creates, that a role
transfer finds the role at the account it is taken from, and that there is one role
transfer at a time. `RolesInv` = `RolesTypeOK`, `OneCopy`, `OneAtATime`, `CallFindsRole`,
`TransferHoldsRole`, `RecordedOwnerCreates`, `CreatorKnowsEveryNonce`, `NonceNeverReused`,
for `~MultiShard` and `SerialHandover`. `OneCopy` is there because `deleteRoles` deletes one
copy of a role and `dctRoles.go:70` appends without looking. From the same invariant every
step is a step of `NonceSequence` or changes neither the holder nor the last nonce.

**Ledger.** Each action has a lemma on what it touches (`Touches(A, n)`: at most the entries of the
accounts `A` for nonce `n`, and the system entries of `n`); type correctness, standing still and
emptiness use these lemmas and the guards. Type correctness says that no balance and no tracked
liquidity becomes negative. `LedgerFollowsRoles` carries the results on roles over to the ledger.
`CreationFindsNothing` needs the invariant that nothing of a nonce exists before it is created, and
that metadata is not added by hand (`"metadata" \notin Operations`: `DCTAddMetadata` may write the
metadata of a nonce nobody has created).

**Fungible ledger.** One lemma per call says that the step keeps the types and that every account
stands still or is wiped or repaid (`StepGood`); a return is accepted because it is asked only whether
the sum is negative, and, with the async callback fix, not whether the contract is payable.

**Sums.** `SumFunctionOnSet` of the community modules folds over a set in an order that is chosen, and
what it is for every set needs an induction. The library's induction theorems take an operator; the
induction here is instead over a *set*: the finite sets on which the sum is what it should be, ordered
by inclusion, of which a smallest exception would have an element that could be left out
(well-foundedness of the inclusion of finite sets). What the rest uses is `SumChanges`: a sum changes
by as much as one of its values does.

**Supply.** `Conserved` is `SupplyConserved` counted over all slots, so that filling and freeing one is a
change at one index. Each call of the ledger changes two of the three sums by the same amount, or one
balance and `supply` (lemma `Balanced`). Two calls need more: a creation overwrites
the entry of its nonce, where there is nothing (`BlankBeforeCreation`, from the uniqueness of
nonces); a failed transfer that is not accepted back loses its tokens, so the theorem asks for
`ReturnsAreAccepted`, and `NoTokenIsLost` puts both together. `ReturnsAreAccepted` itself needs that a
message carries metadata (`SendAlways`) and that a return is not asked whether its contract is payable
(`FixAsyncCallbackCheck`): `ReturnFlags`.

**Liquidity and metadata.** `Matches` relates the system entries to balances, and each write is one of two
kinds: saving metadata, which must agree with what was held *before* the call (`Agrees`), and counting,
which follows the balance that was written with it (`SavedAndCounted`). An entry that is overwritten is
untracked, hence nothing is held of it. The theorems are about the behaviours in which no nonce is wiped
that has the separator among its digits (`[][OnlyWholeKeysWiped]_vars`), so that a wipe reads from the key
the nonce it wipes (`NonceIsRead`, by induction over the digits): otherwise the statement is false, as `LedgerWipe`
shows. Such nonces may be created, sent and burnt, and there may be any number of nonces. Nor may
anybody delete metadata by hand. `HoldersReadMetaData` follows: who holds
something makes the sum positive, so the system entry exists. Both are proved for chains whose
`LiquidityFlags` are enabled from the start; the chains of `LedgerEpochs`, where they are enabled on the
way, are model-checked.

**Lists.** A list is executed item by item, each on the store the one before it has left
(`StoresFrom`, a recursive function over the list). `ListInduction` carries a fact from
the empty prefix to the whole list, by the same induction over sets as for sums (`SumTheorems`), here over the sets `1..i`; that
the function of stores exists is its first use (`StoresExist`). So each theorem needs two things. The first is a lemma on
one item, stated for *any* store of the right type: what it writes (`Changed`, `ItemSentWrites`,
`ItemMovedWrites`, `ItemCreditedWrites`), which is where the lemmas of the ledger on the storage handler
are used again. The second is the fact about the prefix that is carried along:
the store keeps its type, from which `MultiTypeCorrect` follows; balances and items of the prefix sum up (`UpTo`,
`RunStep`, `RunConserves`), from which `MultiSupply` does; the system entries follow the balances
(`MatchesAlong`), from which liquidity does; a holding that is held still is what it was before the call
(`SameHolding`), so that the first item that would change it is refused (`MultiHeldHoldingsStand`,
a property of no run). Items in flight are
counted over all places a list can fill (`Places`, `ItemValue`), so that `SumChanges` applies, and
`ListsAreShort` says that no list in flight is longer than the places. That a creation overwrites nothing needs that
a nonce is in no list before it is created (`NotInLists`). A list on its way back is accepted as a
whole because each item carries its metadata (`ListsCarryMetaData`, from `SendAlways`), so that no
lookup fails whatever the items before it have written; without metadata the length rule of
`multiDCTNFTTransfer.go:175` would read a token as a quantity, which is what `MultiMisread` shows. The
flags and conditions are those of the single transfers (`ReturnFlags`, `LiquidityFlags`); lists may be of any
length and name a nonce any number of times.

Two theorems compare two parts of the code with each other. `dctNFTTransfer.go` and
`multiDCTNFTTransfer.go` are written apart, with their checks in another order. `OneItemInShard` says that
a list of one item is accepted within a shard exactly when the single transfer is, with the same result;
`OneItemArrives` says the same of the destination and of the way back, except for a token without
metadata, where the two functions do differ (`MultiMisread`).

**Loops.** The invariant `IInv` of `ArgumentsProofs` says at each place of the loops which nonces are gone: those of
the groups before, of the intervals before, of the interval up to the nonce. The starts of groups
are the smallest set closed under "behind the intervals of a group", defined without recursion as an
intersection (`GroupStarts`); that the index is one of them, and that the groups before are those
with smaller starts, are lemmas on that definition. `Fits` makes every sum a sum of numbers below `Word`.
The indices of pairs and entries advance by two and three, which with the length of the list
says that the last group is whole.

**Arguments of transfers.** `TransferInv` says what shape the arguments have at each place: at the sender those
of a request or of some call; at the destination the message written of what the sender has read,
for *some* choice of what was sent before (`\E alreadySent`); on the way back its first part. A request is
read as it was meant because the arguments of item `i` stand at `3i`, whatever the number of items and
whatever follows (`ArgumentsOfItems`, `Between`). The destination recovers each item from either form
because a marshalled token is longer than the limit and a quantity that goes alone is not (`WholeItem`).
For the parser the three places differ: at the sender it must see the address, elsewhere it must not take
a number of transfers for one, which is why messages have to start with a number below `Word`.
Both theorems hold for any requests and other calls of the given types, any length of a
marshalled token above the limit (so of tokens that have metadata), and any `Word > 2`. `CountFits` excludes
the calls of a multi transfer whose second argument, the number of transfers at their sender, has a
triple that wraps (section 7).

**Rewards and gas.** As for supply: `Balanced` is `RewardsConserved` over all slots, and each step changes two
of the three sums. `GasReturnedOnce` is inductive with the gas given back at each stage. The lemma `NodeIsAll` shows
that the composition is a behaviour of each of its three parts, so that everything carries over.

**Gas schedule.** `IInv` = `ChangeShape` (which functions have which costs at each point of a
change), `CostShape`, `ReadersShape`, `LockHeld`, `CostsRead` (what an execution has read is what its
function costs as long as it holds the lock, which is why the two reads agree).

**Only model-checked.** Liveness (`HandoverCompletes`, `TransfersSettle`, `MultiTransfersSettle`,
`LoopsEnd`, `CallsSettle`, `ChangeReturns`), and the fairness part of the refinement: out of this
prover's reach.

## 6. Where the code and what is said of it differ

* `RolesRegrant`: unsetting and setting the roles of a multi-shard creator restarts its nonces
  (`dctRoles.go:77`), and a nonce is created again.
* `LedgerMigration`: with `SaveToSystemAccount` enabled while a transfer is in flight, the receiving
  shard marks the sender's shard as having metadata that it never saved
  (`dctDataStorage.go:413`); a quantity sent back arrives without.
* `LedgerWipe`: the wiped key is split at each byte `-`, also inside the nonce
  (`logsAndEvents.go:47`), so for such nonces the liquidity does not follow.
* `MultiMisread`: the destination of a multi transfer tells a token from a quantity by a length of 32
  bytes (`multiDCTNFTTransfer.go:175`), but a token without metadata is shorter; its bytes are taken for a
  quantity. It needs a holding whose metadata is not found, as `LedgerMigration` produces.

Seen while modelling, without a run:

* *Old holdings.* Only the account being saved is asked whether it holds the token in the old format
  (`dctDataStorage.go:446`), so another account's old holding stays uncounted under tracked liquidity.
* *Deletions that do not fit.* An interval that ends at the largest `uint64` never ends
  (`dctDeleteMetadata.go:182`), and a number of intervals whose double wraps skips intervals or
  reads them as tokens (`:152`, `:134`). `NodeCalls` executes such lists, and its properties
  except them through `Fits` and `Endless`. The caller is the system smart contract, and nothing in
  the repository says that such lists must be refused.
* *Gas of unchanged pairs.* `SaveKeyValue` compares the gas only when a pair changes the account
  (`keyValueStorage.go:87`); when the last pairs change nothing the subtraction at the end may wrap
  around, and what remains is not the difference that `src/output.go:123` says it is.
* *Gas of an asynchronous claim in one shard.* The output account of the caller is cleared when it is a
  contract (`claimDeveloperRewards.go:99`), and the gas that was put into it is not returned
  elsewhere. `GasReturnedOnce` asks of contracts only that they get no more than what was left.
* *Small addresses.* The transfer parser takes the first argument of a multi transfer for an address
  only if its number is at least 2^64 (`dctTransferParser.go:129`), the execution asks only for its length
  (`multiDCTNFTTransfer.go:245`). Of a transfer to an address that is all zeros but for its last eight
  bytes the parser says something else than what is executed. `SaidAsExecuted` excepts it
  (`SmallAddress`); nothing in the repository says that there is no such address.

`MetaDataReachesHolders` passes in `LedgerEpochs` because these chains start
after that migration. `MultiSupplyConserved` passes in `MultiCurrent` for the same reason: every holder
there has metadata.

So these hazards of the list in `PROJECT.json` are caught by no property, or not wholly: a role set twice
(the create role is not, by `CreatorAssumption`), the two deletions that do not fit, the gas of unchanged
pairs, small addresses, and the frozen flag of an NFT after a return. Of all but
the gas nothing in the repository says that the code should do something else.

## 7. Not modelled

* *Gas* in the token functions: whether a call has enough is a guard on an input that no state
  depends on. Where one function gives gas back in two halves or compares it inside a loop it is
  modelled (`AccountCalls`, `ArgumentLoops`).
* *The product in a multi transfer* (`multiDCTNFTTransfer.go:151`, and its copy in the parser): a number of transfers whose triple wraps is at
  least a third of 2^64, and the list made for it at line 157 cannot be allocated; no state of
  the model is reached.
* *Balances of fungible items of a multi transfer* (their arguments are in `TransferArguments`): they call the same `addToDCTBalance` as `FungibleLedger`, but
  never for oneself.
* *The other half of `DCTBurn`*, the call of the system smart contract on the metachain, and transfers
  to the metachain.
* *Creation on behalf of a contract* (`ExecOnDestByCaller`), asynchronous call types and the calls after a
  transfer: what the called contract does is the VM's; that it may fail is modelled.
* *Content*: metadata, royalties, log entries, marshalling (except for the length in
  `MultiMisread`).
* *Parsers of calls, deployments and storage updates* (`callArgsParser.go`, `deployArgsParser.go`
  and `storageUpdatesParser.go` in `src/parsers`): pure functions that split strings at `@` and decode hexadecimal. Of them the
  models use that the arguments of a call come back as they were written.
* *The data field parser* (`src/parsers/dataField`): hands on what the transfer parser says, formatted for
  an index; no state.
* *Flags* in `TransferArguments`: the ledgers have those that a transfer depends on. Whether an item goes
  without metadata is left open here (`alreadySent`), and the check of payability, which only looks at
  whether arguments follow, is `TransferRules`'.
* *The transaction data builder* (`src/txDataBuilder`): formatting.
* *VM input and output types* (`src/output.go`, `src/interface.go`): data, and a merge of output accounts
  that nothing in the repository calls.
* *Filling and changing the container of functions* (`container.go`): done once when the node starts;
  nothing in the repository replaces or removes a function afterwards.
