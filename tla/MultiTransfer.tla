----------------------------- MODULE MultiTransfer -----------------------------
(***************************************************************************)
(* MultiDCTNFTTransfer beside the other functions of NFTLedger: a list of  *)
(* transfers from one account to another that succeeds or fails as one     *)
(* (multiDCTNFTTransfer.go).  The items are processed in order, each on    *)
(* the store the one before it has left, so that a list may name a nonce   *)
(* several times.  If one of them is refused the whole call changes        *)
(* nothing.  Fungible items move as in FungibleLedger and are left out.    *)
(***************************************************************************)
EXTENDS NFTLedger, Sequences

CONSTANTS
    Lists,       \* lists of items in calls
    MaxItems,    \* bound: items of a list
    MultiSlots,  \* bound: slots 1..MultiSlots for multi transfers in flight
    Excess       \* what the bytes of a token read as a number exceed its value by

\* A list is never empty.  The bytes of a token begin with its type, so that
\* the number they stand for is larger than its value.
ASSUME MultiAssumption ==
    /\ \A items \in Lists : /\ items \in Seq([nonce : Nonces, value : Nat])
                            /\ Len(items) \in 1..MaxItems
    /\ MaxItems \in Nat /\ MultiSlots \in Nat
    /\ Excess \in Nat \ {0}

VARIABLE multi   \* slot -> the cross-shard multi transfer in it

multiVars == <<vars, multi>>

\* An item that is not whole carries the quantity alone.
ItemType == [nonce : Nonces, value : Nat, whole : BOOLEAN, frozen : BOOLEAN, meta : BOOLEAN]
MultiType == [phase : {"sent", "returning"}, from : Accounts, to : Accounts,
              items : Seq(ItemType), call : BOOLEAN]

MultiTypeOK ==
    /\ TypeOK
    /\ multi \in [1..MultiSlots -> MultiType \union {Free}]

MultiInit == Init /\ multi = [i \in 1..MultiSlots |-> Free]

-----------------------------------------------------------------------------
\* Fault: each item is compared with the balance the call began with.
ItemRefusedAtFirst(st, a, b, x) ==
    \/ x.value = 0
    \/ store.entry[a][x.nonce] = NoEntry
    \/ x.value > store.entry[a][x.nonce].value
    \/ Refused(store, a, Token(store, a, x.nonce), FALSE)
    \/ ~TransferAllowed(a, b)

\* transferOneTokenOnSenderShard: the quantity is taken from the sender ...
ItemRefused(st, a, b, x) ==
    \/ x.value = 0
    \/ st.entry[a][x.nonce] = NoEntry
    \/ x.value > st.entry[a][x.nonce].value
    \/ Refused(st, a, Token(st, a, x.nonce), FALSE)
    \/ ~TransferAllowed(a, b)

ItemTaken(st, a, x) == Taken(st, a, x.nonce, x.value)

\* ... and is what moves, with the frozen flag and the metadata it has.
ItemToken(st, a, x) == [Token(st, a, x.nonce) EXCEPT !.value = x.value]

\* The stores a list goes through from st on: at index i the one after its
\* first i items.
StoresFrom(st, Step(_, _), items) ==
    LET after[i \in 0..Len(items)] ==
            IF i = 0 THEN st ELSE Step(after[i - 1], items[i])
    IN  after

\* With the destination in the same shard each item is added to it at once.
ItemMoved(st, a, b, x) == Added(ItemTaken(st, a, x), a, b, x.nonce, ItemToken(st, a, x))

MultiMoved(a, b, items) ==
    LET Move(st, x) == ItemMoved(st, a, b, x) IN StoresFrom(store, Move, items)

MultiInShard(a, b, items, call) ==
    LET after == MultiMoved(a, b, items)
    IN  /\ Called("multi")
        /\ a # b
        /\ ShardOf[a] = ShardOf[b]
        /\ Payable(b, call, FALSE)
        /\ \A i \in 1..Len(items) :
              LET st == after[i - 1]
                  x == items[i]
              IN  /\ ~ItemRefused(st, a, b, x)
                  /\ ~AddRefused(ItemTaken(st, a, x), b, x.nonce, ItemToken(st, a, x), FALSE)
        /\ store' = after[Len(items)]
        /\ UNCHANGED <<wire, supply, multi>>
        /\ OnlyLedger

\* Fault: the tokens leave the shard without being taken from its liquidity.
MultiLeavesUncounted(k, a, b, items, call) ==
    LET s == ShardOf[a]
        Send(st, x) == ItemTaken(st, a, x)
        sent == StoresFrom(store, Send, items)
    IN  /\ Called("multi")
        /\ multi[k] = Free
        /\ s # ShardOf[b]
        /\ \A i \in 1..Len(items) : ~ItemRefused(sent[i - 1], a, b, items[i])
        /\ store' = sent[Len(items)]
        /\ multi' = [multi EXCEPT ![k] =
              [phase |-> "sent", from |-> a, to |-> b, call |-> call,
               items |-> [i \in 1..Len(items) |->
                    [nonce |-> items[i].nonce, value |-> items[i].value, whole |-> TRUE,
                     frozen |-> FALSE, meta |-> ItemToken(sent[i - 1], a, items[i]).meta]]]]
        /\ UNCHANGED <<wire, supply>>
        /\ OnlyLedger

\* To another shard: each item is taken from the sender and the liquidity ...
ItemSent(st, a, x) == AddToLiquidity(ItemTaken(st, a, x), ShardOf[a], x.nonce, -x.value)

MultiSent(a, items) ==
    LET Send(st, x) == ItemSent(st, a, x) IN StoresFrom(store, Send, items)

\* ... and when all are, createDCTNFTOutputTransfers goes through the list once
\* more and decides for each what the message carries.
MultiRecorded(st, a, b, items) ==
    LET Record(st2, x) == RecordSent(st2, ShardOf[a], x.nonce, ShardOf[b])
    IN  StoresFrom(st, Record, items)

ItemCarried(st, st2, a, b, x) ==
    LET tok == ItemToken(st, a, x)
        whole == ~AlreadySent(st2, ShardOf[a], x.nonce, ShardOf[b]) \/ x.value = 1
    IN  [nonce |-> x.nonce, value |-> x.value, whole |-> whole,
         frozen |-> whole /\ tok.frozen, meta |-> whole /\ tok.meta]

MultiLeaves(k, a, b, items, call) ==
    LET sent == MultiSent(a, items)
        recorded == MultiRecorded(sent[Len(items)], a, b, items)
    IN  /\ Called("multi")
        /\ multi[k] = Free
        /\ \A j \in 1..(k - 1) : multi[j] # Free
        /\ ShardOf[a] # ShardOf[b]
        /\ \A i \in 1..Len(items) :
              LET x == items[i]
              IN  /\ ~ItemRefused(sent[i - 1], a, b, x)
                  /\ ~LiquidityRefused(ItemTaken(sent[i - 1], a, x), ShardOf[a], x.nonce, -x.value)
        /\ store' = recorded[Len(items)]
        /\ multi' = [multi EXCEPT ![k] =
              [phase |-> "sent", from |-> a, to |-> b, call |-> call,
               items |-> [i \in 1..Len(items) |->
                    ItemCarried(sent[i - 1], recorded[i - 1], a, b, items[i])]]]
        /\ UNCHANGED <<wire, supply>>
        /\ OnlyLedger

-----------------------------------------------------------------------------
\* The destination tells a token from a quantity by its length: up to 32 bytes
\* are a quantity.  A token with metadata is longer, one without is not.
Decoded(x) ==
    [value |-> IF x.whole /\ ~x.meta THEN x.value + Excess ELSE x.value,
     frozen |-> x.frozen /\ x.meta, meta |-> x.meta]

ItemAdded(st, m, x) == Added(st, m.from, m.to, x.nonce, Decoded(x))

ItemCredited(st, m, x) ==
    AddToLiquidity(ItemAdded(st, m, x), ShardOf[m.to], x.nonce, Decoded(x).value)

MultiCredited(m) ==
    LET Credit(st, x) == ItemCredited(st, m, x) IN StoresFrom(store, Credit, m.items)

MultiAccepted(m) ==
    LET returning == m.phase = "returning"
        after == MultiCredited(m)
    IN  /\ Payable(m.to, m.call, returning)
        /\ \A i \in 1..Len(m.items) :
              LET st == after[i - 1]
                  x == m.items[i]
              IN  /\ ~AddRefused(st, m.to, x.nonce, Decoded(x), returning)
                  /\ ~LiquidityRefused(ItemAdded(st, m, x), ShardOf[m.to], x.nonce, Decoded(x).value)

\* Fault: the items of a list are all added to the balance of before the call.
MultiArrivesOnFirstRead(k) ==
    LET m == multi[k]
        Credit(st, x) ==
            AddToLiquidity(Added([st EXCEPT !.entry = store.entry], m.from, m.to, x.nonce, Decoded(x)),
                           ShardOf[m.to], x.nonce, Decoded(x).value)
    IN  /\ m # Free
        /\ MultiAccepted(m)
        /\ store' = StoresFrom(store, Credit, m.items)[Len(m.items)]
        /\ multi' = [multi EXCEPT ![k] = Free]
        /\ UNCHANGED <<wire, supply>>
        /\ OnlyLedger

MultiArrives(k) ==
    LET m == multi[k]
    IN  /\ m # Free
        /\ MultiAccepted(m)
        /\ store' = MultiCredited(m)[Len(m.items)]
        /\ multi' = [multi EXCEPT ![k] = Free]
        /\ UNCHANGED <<wire, supply>>
        /\ OnlyLedger

\* Fault: tokens are returned only when a contract was called.
MultiFailsAfterCall(k) ==
    LET m == multi[k]
    IN  /\ m # Free
        /\ m.phase = "sent"
        /\ m.call
        /\ multi' = [multi EXCEPT ![k] = [m EXCEPT !.phase = "returning", !.from = m.to, !.to = m.from,
                                                   !.call = FALSE]]
        /\ UNCHANGED <<store, wire, supply>>
        /\ OnlyLedger

\* addMetaDataToSystemAccountFromMultiTransfer keeps the metadata of each item.
ItemKept(st, m, x) ==
    SaveFailedMetaData(st, [from |-> m.from, to |-> m.to, nonce |-> x.nonce, meta |-> x.meta])

MultiKept(m) ==
    LET Keep(st, x) == ItemKept(st, m, x) IN StoresFrom(store, Keep, m.items)

\* External: the call at the destination fails and the node returns the list.
MultiFails(k) ==
    LET m == multi[k]
    IN  /\ m # Free
        /\ m.phase = "sent"
        /\ ~MultiAccepted(m) \/ m.call
        /\ store' = MultiKept(m)[Len(m.items)]
        /\ multi' = [multi EXCEPT ![k] = [m EXCEPT !.phase = "returning", !.from = m.to, !.to = m.from,
                                                   !.call = FALSE]]
        /\ UNCHANGED <<wire, supply>>
        /\ OnlyLedger

MultiSettle(k) == MultiArrives(k) \/ MultiFails(k)

MultiCalls(a, b) ==
    \E items \in Lists, call \in BOOLEAN :
        /\ call => b \in Contracts
        /\ \/ MultiInShard(a, b, items, call)
           \/ \E k \in 1..MultiSlots : MultiLeaves(k, a, b, items, call)

MultiNext ==
    \/ Next /\ UNCHANGED multi
    \/ \E a, b \in Accounts : MultiCalls(a, b)
    \/ \E k \in 1..MultiSlots : MultiSettle(k)

MultiSpec == MultiInit /\ [][MultiNext]_multiVars

\* The node executes every transfer it has received.
FairMultiSpec ==
    /\ MultiSpec
    /\ \A i \in 1..Slots : WF_multiVars(Settle(i) /\ UNCHANGED multi)
    /\ \A k \in 1..MultiSlots : WF_multiVars(MultiSettle(k))

-----------------------------------------------------------------------------
ItemsInFlight(n) == {p \in (1..MultiSlots) \X (1..MaxItems) :
    /\ multi[p[1]] # Free
    /\ p[2] \in 1..Len(multi[p[1]].items)
    /\ multi[p[1]].items[p[2]].nonce = n}

MultiTravelling(n) ==
    SumFunctionOnSet([p \in ItemsInFlight(n) |-> multi[p[1]].items[p[2]].value], ItemsInFlight(n))

\* A list of transfers makes or loses no token either, whatever nonces it
\* names how often, whether it arrives, fails in the middle or comes back.
MultiSupplyConserved ==
    \A n \in Nonces : Held(n, Accounts) + Travelling(n) + MultiTravelling(n) = supply[n]

\* A holder can read the metadata of what it holds, or a transfer of either
\* kind that brings the metadata to its shard is in flight.
MultiMetaDataReachesHolders ==
    \A a \in Accounts, n \in Nonces : Balance(a, n) > 0 =>
        \/ Token(store, a, n).meta
        \/ \E i \in InFlight(n) : wire[i].meta /\ ShardOf[wire[i].to] = ShardOf[a]
        \/ \E p \in ItemsInFlight(n) : /\ multi[p[1]].items[p[2]].meta
                                      /\ ShardOf[multi[p[1]].to] = ShardOf[a]

\* A list on its way back is accepted as a whole, whatever was frozen since it
\* left: no item of it makes the others get lost.
MultiReturnsAreAccepted ==
    \A k \in 1..MultiSlots : multi[k] # Free /\ multi[k].phase = "returning" => MultiAccepted(multi[k])

\* A list that names n comes back to a and is added to what a has.
MultiReturnedNow(a, n) ==
    \E k \in 1..MultiSlots :
        /\ multi[k] # Free /\ multi[k].phase = "returning" /\ multi[k].to = a
        /\ \E i \in 1..Len(multi[k].items) : multi[k].items[i].nonce = n
        /\ multi'[k] = Free
        /\ Balance(a, n)' > Balance(a, n)

\* A frozen or paused holding stands beside lists, too: no item of a list
\* reaches it behind others that were let through, neither at the sender nor
\* at the destination, and a list that comes back only adds to it.
MultiHeldStillStands ==
    [][\A a \in Accounts, n \in Nonces :
         HeldStill(a, n) /\ Balance(a, n)' # Balance(a, n) =>
            \/ WipedNow(a, n) \/ ReturnedNow(a, n) \/ minted'[n] # minted[n]
            \/ MultiReturnedNow(a, n)]_multiVars

\* Every multi transfer comes to an end, at its destination or back.
MultiTransfersSettle == \A k \in 1..MultiSlots : multi[k] # Free ~> multi[k] = Free
=============================================================================
