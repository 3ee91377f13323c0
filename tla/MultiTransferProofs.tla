-------------------------- MODULE MultiTransferProofs --------------------------
(***************************************************************************)
(* Proofs about MultiTransfer: what NFTLedgerProofs shows of the ledger    *)
(* holds with lists of transfers as well.                                  *)
(*                                                                         *)
(* A list is a recursion over stores, of unbounded length.  Its stores are *)
(* first shown to follow one another (StoresExist and the lemmas after     *)
(* it); then a lemma per item says what one of them changes, and an        *)
(* induction along the list (ListInduction) what all of them do.           *)
(***************************************************************************)
EXTENDS MultiTransfer, NFTLedgerProofs

\* The stores of the five ways a list is gone through, by kind of step.
StepOf(kind, a, b, m, st, x) ==
    CASE kind = "moved"    -> ItemMoved(st, a, b, x)
      [] kind = "sent"     -> ItemSent(st, a, x)
      [] kind = "recorded" -> RecordSent(st, ShardOf[a], x.nonce, ShardOf[b])
      [] kind = "credited" -> ItemCredited(st, m, x)
      [] kind = "kept"     -> ItemKept(st, m, x)

\* g has the stores from st on.
Follows(g, kind, a, b, m, st, items) ==
    g = [i \in 0..Len(items) |-> IF i = 0 THEN st ELSE StepOf(kind, a, b, m, g[i - 1], items[i])]

LEMMA StoresExist ==
    ASSUME NEW kind, NEW a, NEW b, NEW m, NEW st, NEW items, Len(items) \in Nat
    PROVE  \E g : Follows(g, kind, a, b, m, st, items)
<1> DEFINE N == Len(items)
           Upto(g, i) == g = [j \in 0..i |-> IF j = 0 THEN st ELSE StepOf(kind, a, b, m, g[j - 1], items[j])]
           T == {i \in 0..N : \E g : Upto(g, i)}
<1>1. 0 \in T
  <2> DEFINE g == [j \in 0..0 |-> st]
  <2>1. g = [j \in 0..0 |-> IF j = 0 THEN st ELSE StepOf(kind, a, b, m, g[j - 1], items[j])]
    OBVIOUS
  <2> HIDE DEF g
  <2> QED
    BY <2>1
<1>2. ASSUME NEW i \in 1..N, i - 1 \in T
      PROVE  i \in T
  <2>1. PICK g : Upto(g, i - 1)
    BY <1>2
  <2> DEFINE h == [j \in 0..i |-> IF j = i THEN StepOf(kind, a, b, m, g[i - 1], items[i]) ELSE g[j]]
  <2>2. ASSUME NEW j \in 0..i
        PROVE  h[j] = IF j = 0 THEN st ELSE StepOf(kind, a, b, m, h[j - 1], items[j])
    <3>1. CASE j = i
      <4>1. h[j - 1] = g[i - 1]
        BY <3>1
      <4> QED
        BY <3>1, <4>1
    <3>2. CASE j # i
      <4>1. j \in 0..(i - 1)
        BY <3>2
      <4>2. h[j] = g[j] /\ (j # 0 => h[j - 1] = g[j - 1])
        BY <3>2
      <4> HIDE DEF h
      <4>3. g[j] = IF j = 0 THEN st ELSE StepOf(kind, a, b, m, g[j - 1], items[j])
        BY <2>1, <4>1
      <4> QED
        BY <4>2, <4>3
    <3> QED
      BY <3>1, <3>2
  <2>3. h = [j \in 0..i |-> h[j]]
    OBVIOUS
  <2> HIDE DEF h
  <2>4. Upto(h, i)
    BY <2>2, <2>3
  <2> HIDE DEF Upto
  <2> QED
    BY <2>4
<1>3. \A i \in 0..N : i \in T
  <2> HIDE DEF T
  <2> QED
    BY <1>1, <1>2, ListInduction
<1>4. \E g : Upto(g, N)
  <2> HIDE DEF Upto
  <2> QED
    BY <1>3
<1> QED
  BY <1>4 DEF Follows

\* The stores of a list that moves within a shard, leaves it, is recorded,
\* arrives, or whose metadata is kept when it fails.
LEMMA MovedStores ==
    ASSUME NEW a, NEW b, NEW items, Len(items) \in Nat, NEW after, after = MultiMoved(a, b, items)
    PROVE  /\ after[0] = store
           /\ \A i \in 1..Len(items) : after[i] = ItemMoved(after[i - 1], a, b, items[i])
<1> DEFINE Goes(g) == g = [i \in 0..Len(items) |-> IF i = 0 THEN store ELSE ItemMoved(g[i - 1], a, b, items[i])]
<1>1. \A u, x : StepOf("moved", a, b, 0, u, x) = ItemMoved(u, a, b, x)
  BY DEF StepOf
<1>2. \E g : Goes(g)
  <2>1. PICK g : Follows(g, "moved", a, b, 0, store, items)
    BY StoresExist
  <2>2. Goes(g)
    BY <1>1, <2>1 DEF Follows
  <2> HIDE DEF Goes
  <2> QED
    BY <2>2
<1>3. after = CHOOSE g : Goes(g)
  BY DEF MultiMoved, StoresFrom
<1>4. Goes(after)
  <2> HIDE DEF Goes
  <2> QED
    BY <1>2, <1>3
<1> QED
  BY <1>4

LEMMA SentStores ==
    ASSUME NEW a, NEW items, Len(items) \in Nat, NEW after, after = MultiSent(a, items)
    PROVE  /\ after[0] = store
           /\ \A i \in 1..Len(items) : after[i] = ItemSent(after[i - 1], a, items[i])
<1> DEFINE Goes(g) == g = [i \in 0..Len(items) |-> IF i = 0 THEN store ELSE ItemSent(g[i - 1], a, items[i])]
<1>1. \A u, x : StepOf("sent", a, a, 0, u, x) = ItemSent(u, a, x)
  BY DEF StepOf
<1>2. \E g : Goes(g)
  <2>1. PICK g : Follows(g, "sent", a, a, 0, store, items)
    BY StoresExist
  <2>2. Goes(g)
    BY <1>1, <2>1 DEF Follows
  <2> HIDE DEF Goes
  <2> QED
    BY <2>2
<1>3. after = CHOOSE g : Goes(g)
  BY DEF MultiSent, StoresFrom
<1>4. Goes(after)
  <2> HIDE DEF Goes
  <2> QED
    BY <1>2, <1>3
<1> QED
  BY <1>4

LEMMA RecordedStores ==
    ASSUME NEW st, NEW a, NEW b, NEW items, Len(items) \in Nat, NEW after, after = MultiRecorded(st, a, b, items)
    PROVE  /\ after[0] = st
           /\ \A i \in 1..Len(items) : after[i] = RecordSent(after[i - 1], ShardOf[a], items[i].nonce, ShardOf[b])
<1> DEFINE Goes(g) == g = [i \in 0..Len(items) |->
               IF i = 0 THEN st ELSE RecordSent(g[i - 1], ShardOf[a], items[i].nonce, ShardOf[b])]
<1>1. \A u, x : StepOf("recorded", a, b, 0, u, x) = RecordSent(u, ShardOf[a], x.nonce, ShardOf[b])
  BY DEF StepOf
<1>2. \E g : Goes(g)
  <2>1. PICK g : Follows(g, "recorded", a, b, 0, st, items)
    BY StoresExist
  <2>2. Goes(g)
    BY <1>1, <2>1 DEF Follows
  <2> HIDE DEF Goes
  <2> QED
    BY <2>2
<1>3. after = CHOOSE g : Goes(g)
  BY DEF MultiRecorded, StoresFrom
<1>4. Goes(after)
  <2> HIDE DEF Goes
  <2> QED
    BY <1>2, <1>3
<1> QED
  BY <1>4

LEMMA CreditedStores ==
    ASSUME NEW m, NEW items, items = m.items, Len(items) \in Nat, NEW after, after = MultiCredited(m)
    PROVE  /\ after[0] = store
           /\ \A i \in 1..Len(items) : after[i] = ItemCredited(after[i - 1], m, items[i])
<1> DEFINE Goes(g) == g = [i \in 0..Len(items) |-> IF i = 0 THEN store ELSE ItemCredited(g[i - 1], m, items[i])]
<1>1. \A u, x : StepOf("credited", 0, 0, m, u, x) = ItemCredited(u, m, x)
  BY DEF StepOf
<1>2. \E g : Goes(g)
  <2>1. PICK g : Follows(g, "credited", 0, 0, m, store, items)
    BY StoresExist
  <2>2. Goes(g)
    BY <1>1, <2>1 DEF Follows
  <2> HIDE DEF Goes
  <2> QED
    BY <2>2
<1>3. after = CHOOSE g : Goes(g)
  BY DEF MultiCredited, StoresFrom
<1>4. Goes(after)
  <2> HIDE DEF Goes
  <2> QED
    BY <1>2, <1>3
<1> QED
  BY <1>4

LEMMA KeptStores ==
    ASSUME NEW m, NEW items, items = m.items, Len(items) \in Nat, NEW after, after = MultiKept(m)
    PROVE  /\ after[0] = store
           /\ \A i \in 1..Len(items) : after[i] = ItemKept(after[i - 1], m, items[i])
<1> DEFINE Goes(g) == g = [i \in 0..Len(items) |-> IF i = 0 THEN store ELSE ItemKept(g[i - 1], m, items[i])]
<1>1. \A u, x : StepOf("kept", 0, 0, m, u, x) = ItemKept(u, m, x)
  BY DEF StepOf
<1>2. \E g : Goes(g)
  <2>1. PICK g : Follows(g, "kept", 0, 0, m, store, items)
    BY StoresExist
  <2>2. Goes(g)
    BY <1>1, <2>1 DEF Follows
  <2> HIDE DEF Goes
  <2> QED
    BY <2>2
<1>3. after = CHOOSE g : Goes(g)
  BY DEF MultiKept, StoresFrom
<1>4. Goes(after)
  <2> HIDE DEF Goes
  <2> QED
    BY <1>2, <1>3
<1> QED
  BY <1>4

-----------------------------------------------------------------------------
\* What one item does to a store.

ListItem == [nonce : Nonces, value : Nat]

LEMMA ListTypes ==
    ASSUME NEW items \in Lists
    PROVE  /\ Len(items) \in Nat /\ Len(items) # 0 /\ Len(items) <= MaxItems
           /\ \A i \in 1..Len(items) : items[i] \in ListItem
<1>1. items \in Seq(ListItem) /\ Len(items) \in 1..MaxItems /\ MaxItems \in Nat
  BY MultiAssumption DEF ListItem
<1> QED
  BY <1>1

\* The entry of a for n grows by delta, all the others stay.
Changed(st, st2, a, n, delta) ==
    /\ st2 \in StoreType
    /\ st2.entry[a][n].value = st.entry[a][n].value + delta
    /\ \A c \in Accounts, k \in Keys : c # a \/ k # n => st2.entry[c][k] = st.entry[c][k]

\* A store that is counted keeps its entries.
LEMMA CountedChanges ==
    ASSUME NEW st, NEW st2 \in StoreType, NEW a, NEW n, NEW delta, Changed(st, st2, a, n, delta),
           NEW s \in Shards, NEW v \in Int, ~LiquidityRefused(st2, s, n, v)
    PROVE  Changed(st, AddToLiquidity(st2, s, n, v), a, n, delta)
<1>1. AddToLiquidity(st2, s, n, v) \in StoreType
  BY AddToLiquidityWrites
<1>2. AddToLiquidity(st2, s, n, v).entry = st2.entry
  BY AddToLiquidityWrites
<1> QED
  BY <1>1, <1>2 DEF Changed

LEMMA ListItemTypes ==
    ASSUME NEW x \in ListItem
    PROVE  x.nonce \in Nonces /\ x.nonce \in Keys /\ x.value \in Nat /\ -x.value \in Int
<1>1. x.nonce \in Nonces /\ x.value \in Nat
  BY DEF ListItem
<1>2. \A v \in Nat : -v \in Int
  OBVIOUS
<1> QED
  BY <1>1, <1>2, ConstantTypes

\* An item that is not refused names what the sender has.
LEMMA NotRefused ==
    ASSUME NEW st \in StoreType, NEW a \in Accounts, NEW b, NEW x \in ListItem, ~ItemRefused(st, a, b, x)
    PROVE  /\ st.entry[a][x.nonce] # NoEntry /\ x.value <= st.entry[a][x.nonce].value
           /\ ~Refused(st, a, Token(st, a, x.nonce), FALSE)
<1>1. x.value \in Nat /\ st.entry[a][x.nonce].value \in Nat
  BY ListItemTypes, BalanceType
<1>2. ~(x.value > st.entry[a][x.nonce].value)
  BY DEF ItemRefused
<1>3. x.value <= st.entry[a][x.nonce].value
  BY <1>1, <1>2
<1> QED
  BY <1>3 DEF ItemRefused

\* The quantity leaves the sender.
LEMMA ItemSentWrites ==
    ASSUME NEW st \in StoreType, NEW a \in Accounts, NEW b \in Accounts, NEW x \in ListItem,
           ~ItemRefused(st, a, b, x),
           ~LiquidityRefused(ItemTaken(st, a, x), ShardOf[a], x.nonce, -x.value)
    PROVE  Changed(st, ItemSent(st, a, x), a, x.nonce, -x.value)
<1> DEFINE n == x.nonce
           q == x.value
           mid == Taken(st, a, n, q)
<1>1. n \in Nonces /\ q \in Nat /\ -q \in Int /\ ShardOf[a] \in Shards /\ n \in Keys
  BY ListItemTypes, ConstantTypes
<1>2. q <= st.entry[a][n].value
  BY NotRefused
<1>3. ~LiquidityRefused(mid, ShardOf[a], n, -q)
  BY DEF ItemTaken
<1>4. ItemSent(st, a, x) = AddToLiquidity(mid, ShardOf[a], n, -q)
  BY DEF ItemSent, ItemTaken
<1> HIDE DEF n, q
<1>5. /\ mid \in StoreType /\ OnlyWrites(st, mid, a, ShardOf[a], n)
      /\ mid.entry[a][n].value = st.entry[a][n].value - q
  BY <1>1, <1>2, TakenWrites
<1>6. st.entry[a][n].value - q = st.entry[a][n].value + (-q)
  BY <1>1, BalanceType
<1> HIDE DEF mid
<1>7. Changed(st, mid, a, n, -q)
  BY <1>5, <1>6 DEF Changed, OnlyWrites
<1>8. Changed(st, AddToLiquidity(mid, ShardOf[a], n, -q), a, n, -q)
  BY <1>1, <1>3, <1>5, <1>7, CountedChanges
<1> QED
  BY <1>4, <1>8 DEF n, q

\* In a shard it goes from one account to the other.
LEMMA ItemMovedIs ==
    ASSUME NEW st \in StoreType, NEW a \in Accounts, NEW b \in Accounts, NEW x \in ListItem,
           ~ItemRefused(st, a, b, x)
    PROVE  /\ x.nonce \in Nonces /\ x.value \in Nat /\ x.value <= st.entry[a][x.nonce].value
           /\ ItemToken(st, a, x) \in Entry /\ ItemToken(st, a, x).value = x.value
           /\ ItemMoved(st, a, b, x)
                = Added(Taken(st, a, x.nonce, x.value), a, b, x.nonce, ItemToken(st, a, x))
<1>1. x.nonce \in Nonces /\ x.value \in Nat
  BY ListItemTypes
<1>2. x.value <= st.entry[a][x.nonce].value
  BY NotRefused
<1>3. ItemToken(st, a, x) \in Entry /\ ItemToken(st, a, x).value = x.value
  BY <1>1, TokenWithValue DEF ItemToken
<1> QED
  BY <1>1, <1>2, <1>3 DEF ItemMoved, ItemTaken

LEMMA ItemMovedWrites ==
    ASSUME NEW st \in StoreType, NEW a \in Accounts, NEW b \in Accounts, NEW x \in ListItem,
           ~ItemRefused(st, a, b, x), NEW new, new = ItemMoved(st, a, b, x)
    PROVE  /\ new \in StoreType
           /\ \A c \in Accounts, k \in Keys : k # x.nonce => new.entry[c][k] = st.entry[c][k]
           /\ \A m \in Nonces : HeldAt(new, m, Accounts) = HeldAt(st, m, Accounts)
<1> DEFINE n == x.nonce
           q == x.value
           tok == ItemToken(st, a, x)
<1>1. /\ n \in Nonces /\ q \in Nat /\ q <= st.entry[a][n].value /\ tok \in Entry /\ tok.value = q
      /\ new = Added(Taken(st, a, n, q), a, b, n, tok)
  BY ItemMovedIs
<1> HIDE DEF n, q, tok
<1>2. new \in StoreType
  BY <1>1, MovedBetween
<1>3. \A c \in Accounts, k \in Keys : c \notin {a, b} \/ k # n => new.entry[c][k] = st.entry[c][k]
  BY <1>1, MovedBetween
<1>4. \A m \in Nonces, A \in SUBSET Accounts : (a \in A <=> b \in A) =>
         HeldAt(new, m, A) = HeldAt(st, m, A)
  BY <1>1, MovedBetween
<1> QED
  BY <1>2, <1>3, <1>4 DEF n

\* What the destination reads of an item is a token.
LEMMA DecodedType ==
    ASSUME NEW x \in ItemType
    PROVE  /\ x.nonce \in Nonces /\ Decoded(x) \in Entry
           /\ x.meta => Decoded(x).value = x.value /\ Decoded(x).meta
<1>1. x.value \in Nat /\ x.value + Excess \in Nat /\ x.meta \in BOOLEAN /\ (x.frozen /\ x.meta) \in BOOLEAN
      /\ x.nonce \in Nonces
  BY MultiAssumption DEF ItemType
<1>2. (IF x.whole /\ ~x.meta THEN x.value + Excess ELSE x.value) \in Nat
  BY <1>1
<1> QED
  BY <1>1, <1>2 DEF Decoded, Entry

\* It arrives at the destination.
LEMMA ItemCreditedWrites ==
    ASSUME NEW st \in StoreType, NEW m, m.from \in Accounts, m.to \in Accounts, NEW x \in ItemType,
           ~LiquidityRefused(ItemAdded(st, m, x), ShardOf[m.to], x.nonce, Decoded(x).value)
    PROVE  Changed(st, ItemCredited(st, m, x), m.to, x.nonce, Decoded(x).value)
<1> DEFINE n == x.nonce
           tok == Decoded(x)
           v == tok.value
           to == m.to
           from == m.from
           mid == Added(st, from, to, n, tok)
<1>1. n \in Nonces /\ tok \in Entry /\ v \in Nat /\ n \in Keys
  BY DecodedType, ConstantTypes DEF Entry
<1>2. ~LiquidityRefused(mid, ShardOf[to], n, v) /\ from \in Accounts /\ to \in Accounts
  BY DEF ItemAdded
<1>3. ItemCredited(st, m, x) = AddToLiquidity(mid, ShardOf[to], n, v)
  BY DEF ItemCredited, ItemAdded
<1>4. v = tok.value
  OBVIOUS
<1> HIDE DEF n, tok, v, to, from
<1>5. /\ mid \in StoreType /\ OnlyWrites(st, mid, to, ShardOf[to], n)
      /\ mid.entry[to][n].value = v + st.entry[to][n].value
  BY <1>1, <1>2, <1>4, AddedWrites
<1>6. v + st.entry[to][n].value = st.entry[to][n].value + v
  BY <1>1, <1>2, BalanceType
<1> HIDE DEF mid
<1>7. Changed(st, mid, to, n, v)
  BY <1>5, <1>6 DEF Changed, OnlyWrites
<1>8. v \in Int /\ ShardOf[to] \in Shards
  BY <1>1, <1>2, ConstantTypes
<1>9. Changed(st, AddToLiquidity(mid, ShardOf[to], n, v), to, n, v)
  BY <1>2, <1>5, <1>7, <1>8, CountedChanges
<1> QED
  BY <1>3, <1>9 DEF n, tok, v, to

\* When it fails its metadata is kept, and no entry changes.
LEMMA ItemKeptWrites ==
    ASSUME NEW st \in StoreType, NEW m, m.from \in Accounts, m.to \in Accounts, NEW x, x.nonce \in Nonces
    PROVE  ItemKept(st, m, x) \in StoreType /\ ItemKept(st, m, x).entry = st.entry
<1> DEFINE msg == [from |-> m.from, to |-> m.to, nonce |-> x.nonce, meta |-> x.meta]
           t == ShardOf[m.from]
           to == m.to
           n == x.nonce
           new == SaveMetaData(st, t, to, n, msg, TRUE)
<1>1. t \in Shards /\ to \in Accounts /\ n \in Nonces
  BY ConstantTypes
<1>2. ItemKept(st, m, x) = st \/ ItemKept(st, m, x) = new
  BY DEF ItemKept, SaveFailedMetaData
<1> HIDE DEF msg, t, to, n
<1>3. new \in StoreType
  BY <1>1, SaveMetaDataWrites
<1>4. new.entry = st.entry
  BY <1>1 DEF SaveMetaData, StoreType
<1> QED
  BY <1>2, <1>3, <1>4

-----------------------------------------------------------------------------
\* What a list does: the stores it goes through, and the guards at each.

LEMMA InShardSteps ==
    ASSUME TypeOK, NEW a \in Accounts, NEW b \in Accounts, NEW items \in Lists, NEW call \in BOOLEAN,
           MultiInShard(a, b, items, call), NEW after, after = MultiMoved(a, b, items)
    PROVE  /\ ShardOf[a] = ShardOf[b] /\ after[0] = store /\ store' = after[Len(items)]
           /\ \A i \in 0..Len(items) : after[i] \in StoreType
           /\ \A i \in 1..Len(items) : /\ after[i] = ItemMoved(after[i - 1], a, b, items[i])
                                       /\ ~ItemRefused(after[i - 1], a, b, items[i])
<1> DEFINE N == Len(items)
           T == {i \in 0..N : after[i] \in StoreType}
<1>1. N \in Nat /\ \A i \in 1..N : items[i] \in ListItem
  BY ListTypes
<1>2. ShardOf[a] = ShardOf[b] /\ store' = after[N] /\ \A i \in 1..N : ~ItemRefused(after[i - 1], a, b, items[i])
  BY DEF MultiInShard
<1>3. after[0] = store /\ \A i \in 1..N : after[i] = ItemMoved(after[i - 1], a, b, items[i])
  BY <1>1, MovedStores
<1>4. 0 \in T
  BY <1>1, <1>3 DEF TypeOK
<1>5. ASSUME NEW i \in 1..N, i - 1 \in T
      PROVE  i \in T
  <2>1. after[i - 1] \in StoreType /\ items[i] \in ListItem /\ ~ItemRefused(after[i - 1], a, b, items[i])
        /\ after[i] = ItemMoved(after[i - 1], a, b, items[i])
    BY <1>1, <1>2, <1>3, <1>5
  <2>2. after[i] \in StoreType
    BY <2>1, ItemMovedWrites
  <2> QED
    BY <2>2
<1>6. \A i \in 0..N : i \in T
  <2> HIDE DEF T, N
  <2> QED
    BY <1>1, <1>4, <1>5, ListInduction
<1> QED
  BY <1>2, <1>3, <1>6

LEMMA LeavesSteps ==
    ASSUME TypeOK, NEW k \in 1..MultiSlots, NEW a \in Accounts, NEW b \in Accounts,
           NEW items \in Lists, NEW call \in BOOLEAN,
           MultiLeaves(k, a, b, items, call), NEW sent, sent = MultiSent(a, items)
    PROVE  /\ sent[0] = store
           /\ \A i \in 0..Len(items) : sent[i] \in StoreType
           /\ \A i \in 1..Len(items) : /\ sent[i] = ItemSent(sent[i - 1], a, items[i])
                                       /\ ~ItemRefused(sent[i - 1], a, b, items[i])
                                       /\ ~LiquidityRefused(ItemTaken(sent[i - 1], a, items[i]), ShardOf[a],
                                                            items[i].nonce, -items[i].value)
                                       /\ Changed(sent[i - 1], sent[i], a, items[i].nonce, -items[i].value)
<1> DEFINE N == Len(items)
           Let(st, i) == /\ ~ItemRefused(st, a, b, items[i])
                         /\ ~LiquidityRefused(ItemTaken(st, a, items[i]), ShardOf[a], items[i].nonce,
                                              -items[i].value)
           T == {i \in 0..N : sent[i] \in StoreType}
<1>1. N \in Nat /\ \A i \in 1..N : items[i] \in ListItem
  BY ListTypes
<1>2. \A i \in 1..N : Let(sent[i - 1], i)
  BY DEF MultiLeaves
<1>3. sent[0] = store /\ \A i \in 1..N : sent[i] = ItemSent(sent[i - 1], a, items[i])
  BY <1>1, SentStores
<1>4. 0 \in T
  BY <1>1, <1>3 DEF TypeOK
<1>5. ASSUME NEW i \in 1..N, sent[i - 1] \in StoreType
      PROVE  Changed(sent[i - 1], sent[i], a, items[i].nonce, -items[i].value)
  <2>1. items[i] \in ListItem /\ Let(sent[i - 1], i) /\ sent[i] = ItemSent(sent[i - 1], a, items[i])
    BY <1>1, <1>2, <1>3
  <2> QED
    BY <1>5, <2>1, ItemSentWrites
<1>6. ASSUME NEW i \in 1..N, i - 1 \in T
      PROVE  i \in T
  BY <1>5, <1>6 DEF Changed
<1>7. \A i \in 0..N : i \in T
  <2> HIDE DEF T, N
  <2> QED
    BY <1>1, <1>4, <1>6, ListInduction
<1>8. \A i \in 1..N : sent[i - 1] \in StoreType
  <2> SUFFICES ASSUME NEW i \in 1..N PROVE sent[i - 1] \in StoreType
    OBVIOUS
  <2>1. i - 1 \in 0..N
    OBVIOUS
  <2> QED
    BY <1>7, <2>1
<1> QED
  BY <1>2, <1>3, <1>5, <1>7, <1>8

\* Recording what was sent changes no entry.
LEMMA RecordedSteps ==
    ASSUME NEW st \in StoreType, NEW a \in Accounts, NEW b \in Accounts, NEW items \in Lists,
           NEW after, after = MultiRecorded(st, a, b, items)
    PROVE  /\ \A i \in 0..Len(items) : after[i] \in StoreType /\ after[i].entry = st.entry
           /\ On(SendAlways) => after[Len(items)] = st
<1> DEFINE N == Len(items)
           Good(u) == /\ u \in StoreType /\ u.entry = st.entry
                      /\ On(SendAlways) => u = st
           T == {i \in 0..N : Good(after[i])}
<1>1. N \in Nat /\ \A i \in 1..N : items[i].nonce \in Nonces
  BY ListTypes, ListItemTypes
<1>2. after[0] = st /\ \A i \in 1..N : after[i] = RecordSent(after[i - 1], ShardOf[a], items[i].nonce, ShardOf[b])
  BY <1>1, RecordedStores
<1>3. 0 \in T
  BY <1>1, <1>2
<1>4. ASSUME NEW i \in 1..N, i - 1 \in T
      PROVE  i \in T
  <2> DEFINE u == after[i - 1]
             s == ShardOf[a]
             d == ShardOf[b]
             n == items[i].nonce
  <2>1. s \in Shards /\ d \in Shards /\ n \in Nonces /\ Good(u) /\ after[i] = RecordSent(u, s, n, d)
    BY <1>1, <1>2, <1>4, ConstantTypes
  <2>2. On(SendAlways) => RecordSent(u, s, n, d) = u
    BY DEF RecordSent
  <2> HIDE DEF u, s, d, n
  <2>3. RecordSent(u, s, n, d) \in StoreType
    BY <2>1, RecordSentWrites
  <2>4. RecordSent(u, s, n, d).entry = u.entry
    BY <2>1, RecordSentWrites
  <2> QED
    BY <2>1, <2>2, <2>3, <2>4
<1>5. \A i \in 0..N : i \in T
  <2> HIDE DEF T, N
  <2> QED
    BY <1>1, <1>3, <1>4, ListInduction
<1>6. N \in 0..N
  BY <1>1
<1> QED
  BY <1>5, <1>6

\* The lists in flight.
LEMMA MultiTypes ==
    ASSUME MultiTypeOK, NEW k \in 1..MultiSlots, multi[k] # Free
    PROVE  /\ multi[k] \in MultiType /\ multi[k].from \in Accounts /\ multi[k].to \in Accounts
           /\ multi[k].items \in Seq(ItemType) /\ Len(multi[k].items) \in Nat
           /\ \A i \in 1..Len(multi[k].items) : multi[k].items[i] \in ItemType
                                               /\ multi[k].items[i].nonce \in Nonces
<1>1. multi[k] \in MultiType
  BY DEF MultiTypeOK
<1>2. /\ multi[k].from \in Accounts /\ multi[k].to \in Accounts /\ multi[k].items \in Seq(ItemType)
  BY <1>1 DEF MultiType
<1>3. \A s \in Seq(ItemType) : Len(s) \in Nat /\ \A i \in 1..Len(s) : s[i] \in ItemType
  OBVIOUS
<1>4. \A x \in ItemType : x.nonce \in Nonces
  BY DEF ItemType
<1> QED
  BY <1>1, <1>2, <1>3, <1>4

LEMMA ArrivesSteps ==
    ASSUME MultiTypeOK, NEW k \in 1..MultiSlots, MultiArrives(k), NEW m, m = multi[k],
           NEW after, after = MultiCredited(m)
    PROVE  /\ after[0] = store /\ store' = after[Len(m.items)]
           /\ \A i \in 0..Len(m.items) : after[i] \in StoreType
           /\ \A i \in 1..Len(m.items) :
                 LET x == m.items[i]
                 IN  /\ after[i] = ItemCredited(after[i - 1], m, x)
                     /\ ~AddRefused(after[i - 1], m.to, x.nonce, Decoded(x), m.phase = "returning")
                     /\ ~LiquidityRefused(ItemAdded(after[i - 1], m, x), ShardOf[m.to], x.nonce, Decoded(x).value)
                     /\ Changed(after[i - 1], after[i], m.to, x.nonce, Decoded(x).value)
<1> DEFINE items == m.items
           N == Len(items)
           Let(st, i) ==
               /\ ~AddRefused(st, m.to, items[i].nonce, Decoded(items[i]), m.phase = "returning")
               /\ ~LiquidityRefused(ItemAdded(st, m, items[i]), ShardOf[m.to], items[i].nonce, Decoded(items[i]).value)
           T == {i \in 0..N : after[i] \in StoreType}
<1>1. /\ m # Free /\ store' = after[N] /\ \A i \in 1..N : Let(after[i - 1], i)
  BY DEF MultiArrives, MultiAccepted
<1>2. m.from \in Accounts /\ m.to \in Accounts /\ N \in Nat /\ \A i \in 1..N : items[i] \in ItemType
  BY <1>1, MultiTypes
<1>3. after[0] = store /\ \A i \in 1..N : after[i] = ItemCredited(after[i - 1], m, items[i])
  <2>1. items = m.items /\ Len(items) \in Nat
    BY <1>2
  <2> HIDE DEF items
  <2> QED
    BY <2>1, CreditedStores
<1>4. 0 \in T
  BY <1>2, <1>3 DEF MultiTypeOK, TypeOK
<1>5. ASSUME NEW i \in 1..N, after[i - 1] \in StoreType
      PROVE  Changed(after[i - 1], after[i], m.to, items[i].nonce, Decoded(items[i]).value)
  <2>1. items[i] \in ItemType /\ Let(after[i - 1], i) /\ after[i] = ItemCredited(after[i - 1], m, items[i])
    BY <1>1, <1>2, <1>3
  <2> QED
    BY <1>2, <1>5, <2>1, ItemCreditedWrites
<1>6. ASSUME NEW i \in 1..N, i - 1 \in T
      PROVE  i \in T
  BY <1>5, <1>6 DEF Changed
<1>7. \A i \in 0..N : i \in T
  <2> HIDE DEF T, N
  <2> QED
    BY <1>2, <1>4, <1>6, ListInduction
<1>8. \A i \in 1..N : after[i - 1] \in StoreType
  <2> SUFFICES ASSUME NEW i \in 1..N PROVE after[i - 1] \in StoreType
    OBVIOUS
  <2>1. i - 1 \in 0..N
    BY <1>2
  <2> QED
    BY <1>7, <2>1
<1> QED
  BY <1>1, <1>3, <1>5, <1>7, <1>8

LEMMA FailsSteps ==
    ASSUME MultiTypeOK, NEW k \in 1..MultiSlots, MultiFails(k)
    PROVE  /\ multi[k] # Free /\ store' \in StoreType /\ store'.entry = store.entry
           /\ On(SendAlways) => store' = store
<1> DEFINE m == multi[k]
           items == m.items
           N == Len(items)
           after == MultiKept(m)
           Good(u) == /\ u \in StoreType /\ u.entry = store.entry
                      /\ On(SendAlways) => u = store
           T == {i \in 0..N : Good(after[i])}
<1>1. m # Free /\ store' = after[N]
  BY DEF MultiFails
<1>2. m.from \in Accounts /\ m.to \in Accounts /\ N \in Nat /\ \A i \in 1..N : items[i].nonce \in Nonces
  BY <1>1, MultiTypes
<1> HIDE DEF m
<1>3. after[0] = store /\ \A i \in 1..N : after[i] = ItemKept(after[i - 1], m, items[i])
  BY <1>2, KeptStores
<1> HIDE DEF after
<1>4. 0 \in T
  BY <1>2, <1>3 DEF MultiTypeOK, TypeOK
<1>5. ASSUME NEW i \in 1..N, i - 1 \in T
      PROVE  i \in T
  <2> DEFINE u == after[i - 1]
             x == items[i]
  <2>1. x.nonce \in Nonces /\ Good(u) /\ after[i] = ItemKept(u, m, x)
    BY <1>2, <1>3, <1>5
  <2>2. On(SendAlways) => ItemKept(u, m, x) = u
    BY DEF ItemKept, SaveFailedMetaData
  <2> HIDE DEF u, x
  <2>3. ItemKept(u, m, x) \in StoreType /\ ItemKept(u, m, x).entry = u.entry
    BY <1>2, <2>1, ItemKeptWrites
  <2> QED
    BY <2>1, <2>2, <2>3
<1>6. \A i \in 0..N : i \in T
  <2> HIDE DEF T, N
  <2> QED
    BY <1>2, <1>4, <1>5, ListInduction
<1>7. Good(after[N])
  <2>1. N \in 0..N
    BY <1>2
  <2> QED
    BY <1>6, <2>1
<1> QED
  BY <1>1, <1>7 DEF m

-----------------------------------------------------------------------------
\* A step is one of the ledger, or of a list.
LEMMA MultiSteps ==
    ASSUME [MultiNext]_multiVars
    PROVE  \/ [Next]_vars /\ UNCHANGED multi
           \/ \E a, b \in Accounts, items \in Lists, call \in BOOLEAN :
                 \/ MultiInShard(a, b, items, call)
                 \/ \E k \in 1..MultiSlots : MultiLeaves(k, a, b, items, call)
           \/ \E k \in 1..MultiSlots : MultiArrives(k) \/ MultiFails(k)
<1>1. CASE \E a, b \in Accounts : MultiCalls(a, b)
  BY <1>1 DEF MultiCalls
<1>2. CASE \E k \in 1..MultiSlots : MultiSettle(k)
  BY <1>2 DEF MultiSettle
<1>3. CASE UNCHANGED multiVars
  BY <1>3 DEF multiVars
<1> QED
  BY <1>1, <1>2, <1>3 DEF MultiNext

\* What every list call leaves alone.
ListStep == UNCHANGED <<wire, supply>> /\ OnlyLedger

LEMMA ListSteps ==
    /\ \A a, b, items, call : MultiInShard(a, b, items, call) => ListStep /\ UNCHANGED multi
    /\ \A k, a, b, items, call : MultiLeaves(k, a, b, items, call) => ListStep
    /\ \A k : MultiArrives(k) \/ MultiFails(k) => ListStep
<1>1. \A a, b, items, call : MultiInShard(a, b, items, call) => ListStep /\ UNCHANGED multi
  BY DEF MultiInShard, ListStep
<1>2. \A k, a, b, items, call : MultiLeaves(k, a, b, items, call) => ListStep
  BY DEF MultiLeaves, ListStep
<1>3. \A k : MultiArrives(k) => ListStep
  BY DEF MultiArrives, ListStep
<1>4. \A k : MultiFails(k) => ListStep
  BY DEF MultiFails, ListStep
<1> QED
  BY <1>1, <1>2, <1>3, <1>4

LEMMA ListKeepsTypes ==
    ASSUME TypeOK, ListStep, store' \in StoreType
    PROVE  TypeOK'
<1>1. UNCHANGED <<flags, settings, transferAddresses>> /\ UNCHANGED roleVars /\ UNCHANGED wire /\ UNCHANGED supply
  BY DEF ListStep, OnlyLedger, roleVars
<1>2. FlagsTypeOK' /\ SettingsTypeOK'
  BY <1>1, OnlyLedgerTypes
<1>3. RolesTypeOK'
  BY <1>1, NextTypeOK DEF TypeOK
<1> QED
  BY <1>1, <1>2, <1>3 DEF TypeOK

\* The store at the end of a list is one of those it goes through.
LEMMA InShardStore ==
    ASSUME TypeOK, NEW a \in Accounts, NEW b \in Accounts, NEW items \in Lists, NEW call \in BOOLEAN,
           MultiInShard(a, b, items, call)
    PROVE  store' \in StoreType
<1> DEFINE after == MultiMoved(a, b, items)
<1>1. Len(items) \in 0..Len(items)
  BY ListTypes
<1> HIDE DEF after
<1>2. store' = after[Len(items)] /\ \A i \in 0..Len(items) : after[i] \in StoreType
  BY InShardSteps DEF after
<1> QED
  BY <1>1, <1>2

LEMMA LeavesStore ==
    ASSUME TypeOK, NEW k \in 1..MultiSlots, NEW a \in Accounts, NEW b \in Accounts,
           NEW items \in Lists, NEW call \in BOOLEAN,
           MultiLeaves(k, a, b, items, call), NEW sent, sent = MultiSent(a, items)
    PROVE  /\ store' \in StoreType /\ store'.entry = sent[Len(items)].entry
           /\ On(SendAlways) => store' = sent[Len(items)]
<1> DEFINE N == Len(items)
           after == MultiRecorded(sent[N], a, b, items)
<1>1. N \in 0..N
  BY ListTypes
<1>2. sent[N] \in StoreType
  <2>1. \A i \in 0..N : sent[i] \in StoreType
    BY LeavesSteps
  <2> QED
    BY <1>1, <2>1
<1>3. store' = after[N]
  BY DEF MultiLeaves
<1>4. /\ \A i \in 0..N : after[i] \in StoreType /\ after[i].entry = sent[N].entry
      /\ On(SendAlways) => after[N] = sent[N]
  <2> HIDE DEF after
  <2>1. after = MultiRecorded(sent[N], a, b, items)
    BY DEF after
  <2> QED
    BY <1>2, <2>1, RecordedSteps
<1> HIDE DEF after
<1> QED
  BY <1>1, <1>3, <1>4

LEMMA ArrivesStore ==
    ASSUME MultiTypeOK, NEW k \in 1..MultiSlots, MultiArrives(k)
    PROVE  store' \in StoreType
<1> DEFINE m == multi[k]
           after == MultiCredited(m)
           N == Len(m.items)
<1>1. N \in 0..N
  BY MultiTypes DEF MultiArrives
<1>2. /\ store' = after[N] /\ \A i \in 0..N : after[i] \in StoreType
  BY ArrivesSteps
<1> HIDE DEF after
<1> QED
  BY <1>1, <1>2

\* The message a list leaves with.
LEMMA LeavesMessage ==
    ASSUME TypeOK, NEW k \in 1..MultiSlots, NEW a \in Accounts, NEW b \in Accounts,
           NEW items \in Lists, NEW call \in BOOLEAN,
           MultiLeaves(k, a, b, items, call)
    PROVE  \E m \in MultiType : /\ multi' = [multi EXCEPT ![k] = m]
                                /\ m.from = a /\ m.to = b /\ m.phase = "sent" /\ m # Free
                                /\ Len(m.items) = Len(items)
                                /\ \A i \in 1..Len(items) : /\ m.items[i].nonce = items[i].nonce
                                                            /\ m.items[i].value = items[i].value
<1> DEFINE N == Len(items)
           sent == MultiSent(a, items)
           after == MultiRecorded(sent[N], a, b, items)
           carried == [i \in 1..N |-> ItemCarried(sent[i - 1], after[i - 1], a, b, items[i])]
           m == [phase |-> "sent", from |-> a, to |-> b, call |-> call, items |-> carried]
<1>1. multi' = [multi EXCEPT ![k] = m]
  BY DEF MultiLeaves
<1>2. N \in Nat /\ \A i \in 1..N : items[i] \in ListItem
  BY ListTypes
<1>3. ASSUME NEW i \in 1..N
      PROVE  /\ carried[i] \in ItemType
             /\ carried[i].nonce = items[i].nonce /\ carried[i].value = items[i].value
  <2> DEFINE st == sent[i - 1]
             x == items[i]
             tok == ItemToken(st, a, x)
             whole == ~AlreadySent(after[i - 1], ShardOf[a], x.nonce, ShardOf[b]) \/ x.value = 1
  <2>1. \A j \in 0..N : sent[j] \in StoreType
    BY LeavesSteps
  <2>2. st \in StoreType
    <3>1. i - 1 \in 0..N
      BY <1>2
    <3> QED
      BY <2>1, <3>1
  <2>3. x \in ListItem
    BY <1>2
  <2>4. carried[i] = [nonce |-> x.nonce, value |-> x.value, whole |-> whole,
                      frozen |-> whole /\ tok.frozen, meta |-> whole /\ tok.meta]
    BY DEF ItemCarried
  <2> HIDE DEF carried, st, x, tok
  <2>5. x.nonce \in Nonces /\ x.value \in Nat
    BY <2>3, ListItemTypes
  <2>6. whole \in BOOLEAN /\ (whole /\ tok.frozen) \in BOOLEAN /\ (whole /\ tok.meta) \in BOOLEAN
    OBVIOUS
  <2> HIDE DEF whole
  <2> QED
    BY <2>4, <2>5, <2>6 DEF ItemType, x
<1>4. carried \in Seq(ItemType) /\ Len(carried) = N
  <2>1. carried = [i \in 1..N |-> carried[i]]
    OBVIOUS
  <2>2. \A i \in 1..N : carried[i] \in ItemType
    BY <1>3
  <2> HIDE DEF carried
  <2>3. carried \in [1..N -> ItemType]
    BY <2>1, <2>2
  <2> QED
    BY <1>2, <2>3
<1> HIDE DEF carried
<1>5. m \in MultiType /\ m # Free
  BY <1>4 DEF MultiType, Free
<1>6. m.items = carried /\ m.from = a /\ m.to = b /\ m.phase = "sent"
  OBVIOUS
<1> HIDE DEF m
<1>7. /\ Len(m.items) = N
      /\ \A i \in 1..N : m.items[i].nonce = items[i].nonce /\ m.items[i].value = items[i].value
  BY <1>3, <1>4, <1>6
<1> QED
  BY <1>1, <1>5, <1>6, <1>7

LEMMA FailsMessage ==
    ASSUME MultiTypeOK, NEW k \in 1..MultiSlots, MultiFails(k)
    PROVE  \E m \in MultiType : /\ multi' = [multi EXCEPT ![k] = m] /\ m # Free
                                /\ m.items = multi[k].items
<1> DEFINE x == multi[k]
           m == [x EXCEPT !.phase = "returning", !.from = x.to, !.to = x.from, !.call = FALSE]
<1>1. x \in MultiType
  BY MultiTypes DEF MultiFails
<1>2. multi' = [multi EXCEPT ![k] = m]
  BY DEF MultiFails
<1> HIDE DEF x
<1>3. m \in MultiType /\ m.items = x.items /\ m.phase = "returning"
  BY <1>1 DEF MultiType
<1>4. Free.phase = "free"
  BY DEF Free
<1> HIDE DEF m
<1>5. m # Free
  BY <1>3, <1>4
<1> QED
  BY <1>2, <1>3, <1>5 DEF x

LEMMA NextMultiTypeOK == MultiTypeOK /\ [MultiNext]_multiVars => MultiTypeOK'
<1> SUFFICES ASSUME MultiTypeOK, [MultiNext]_multiVars PROVE MultiTypeOK'
  OBVIOUS
<1>0. TypeOK /\ multi \in [1..MultiSlots -> MultiType \union {Free}]
  BY DEF MultiTypeOK
<1>1. CASE [Next]_vars /\ UNCHANGED multi
  BY <1>0, <1>1, NextLedgerTypeOK DEF MultiTypeOK
<1>2. ASSUME NEW a \in Accounts, NEW b \in Accounts, NEW items \in Lists, NEW call \in BOOLEAN,
             MultiInShard(a, b, items, call)
      PROVE  MultiTypeOK'
  <2>1. TypeOK' /\ UNCHANGED multi
    BY <1>0, <1>2, InShardStore, ListSteps, ListKeepsTypes
  <2> QED
    BY <1>0, <2>1 DEF MultiTypeOK
<1>3. ASSUME NEW k \in 1..MultiSlots, NEW a \in Accounts, NEW b \in Accounts, NEW items \in Lists,
             NEW call \in BOOLEAN, MultiLeaves(k, a, b, items, call)
      PROVE  MultiTypeOK'
  <2>1. TypeOK'
    <3>1. store' \in StoreType
      BY <1>0, <1>3, LeavesStore
    <3> QED
      BY <1>0, <1>3, <3>1, ListSteps, ListKeepsTypes
  <2>2. PICK m \in MultiType : multi' = [multi EXCEPT ![k] = m]
    BY <1>0, <1>3, LeavesMessage
  <2> QED
    BY <1>0, <2>1, <2>2 DEF MultiTypeOK
<1>4. ASSUME NEW k \in 1..MultiSlots, MultiArrives(k)
      PROVE  MultiTypeOK'
  <2>1. TypeOK'
    BY <1>0, <1>4, ArrivesStore, ListSteps, ListKeepsTypes
  <2> QED
    BY <1>0, <1>4, <2>1 DEF MultiTypeOK, MultiArrives
<1>5. ASSUME NEW k \in 1..MultiSlots, MultiFails(k)
      PROVE  MultiTypeOK'
  <2>1. TypeOK'
    <3>1. store' \in StoreType
      BY <1>5, FailsSteps
    <3> QED
      BY <1>0, <1>5, <3>1, ListSteps, ListKeepsTypes
  <2>2. PICK m \in MultiType : multi' = [multi EXCEPT ![k] = m]
    BY <1>5, FailsMessage
  <2> QED
    BY <1>0, <2>1, <2>2 DEF MultiTypeOK
<1> QED
  BY <1>1, <1>2, <1>3, <1>4, <1>5, MultiSteps

\* With lists in flight too everything has a value the code gives it; no
\* quantity in a list is negative.
THEOREM MultiTypeCorrect == MultiSpec => []MultiTypeOK
<1>1. MultiInit => MultiTypeOK
  BY InitLedgerTypeOK DEF MultiInit, MultiTypeOK
<1>2. MultiTypeOK /\ [MultiNext]_multiVars => MultiTypeOK'
  BY NextMultiTypeOK
<1> QED
  BY <1>1, <1>2, PTL DEF MultiSpec

LEMMA MultiStepIsRolesStep == [MultiNext]_multiVars => [RolesNext]_roleVars
<1> SUFFICES ASSUME [MultiNext]_multiVars PROVE [RolesNext]_roleVars
  OBVIOUS
<1>1. CASE [Next]_vars
  BY <1>1, StepIsRolesStep
<1>2. CASE ListStep
  BY <1>2 DEF ListStep, OnlyLedger, roleVars
<1> QED
  BY <1>1, <1>2, MultiSteps, ListSteps

\* Lists do not disturb the protocol of the roles, so that nonces are unique
\* and one account creates beside them as well.
THEOREM MultiNoncesAreUnique ==
    ASSUME ~MultiShard, SerialHandover
    PROVE  MultiSpec => [](NonceNeverReused /\ UniqueCreator)
<1>1. RolesInv => NonceNeverReused /\ UniqueCreator
  BY RoleIsSomewhere DEF RolesInv
<1>2. MultiInit => RolesInit
  BY DEF MultiInit, Init
<1>3. [MultiNext]_multiVars => [RolesNext]_roleVars
  BY MultiStepIsRolesStep
<1>4. MultiSpec => RolesSpec
  BY <1>2, <1>3, PTL DEF MultiSpec, RolesSpec
<1> QED
  BY <1>1, <1>4, RolesInvariant, PTL

-----------------------------------------------------------------------------
\* Before it is created a nonce is in no list in flight, and a list that names
\* it is refused.
NotInLists(n) ==
    \A k \in 1..MultiSlots : multi[k] # Free =>
        \A i \in 1..Len(multi[k].items) : multi[k].items[i].nonce # n

MultiBlankBefore == BlankBeforeCreation /\ \A n \in Nonces : minted[n] = 0 => NotInLists(n)

\* Entries that no item names stay as they are.
LEMMA EntriesStay ==
    ASSUME NEW N \in Nat, NEW after, NEW n \in Nonces,
           \A i \in 1..N, c \in Accounts : after[i].entry[c][n] = after[i - 1].entry[c][n]
    PROVE  \A i \in 0..N, c \in Accounts : after[i].entry[c][n] = after[0].entry[c][n]
<1> DEFINE Same(u) == \A c \in Accounts : u.entry[c][n] = after[0].entry[c][n]
           T == {i \in 0..N : Same(after[i])}
<1>1. 0 \in T
  OBVIOUS
<1>2. ASSUME NEW i \in 1..N, i - 1 \in T
      PROVE  i \in T
  BY <1>2
<1>3. \A i \in 0..N : i \in T
  <2> HIDE DEF T
  <2> QED
    BY <1>1, <1>2, ListInduction
<1> QED
  BY <1>3

\* What may be sent is there and not frozen.
LEMMA SentIsThere ==
    ASSUME NEW st \in StoreType, NEW a \in Accounts, NEW b, NEW x \in ListItem, ~ItemRefused(st, a, b, x)
    PROVE  st.entry[a][x.nonce] # NoEntry /\ ~st.entry[a][x.nonce].frozen
<1>1. st.entry[a][x.nonce] # NoEntry /\ ~Refused(st, a, Token(st, a, x.nonce), FALSE)
  BY NotRefused
<1>2. Token(st, a, x.nonce).frozen = st.entry[a][x.nonce].frozen
  BY ListItemTypes, TokenRead
<1> QED
  BY <1>1, <1>2 DEF Refused, FrozenOrPaused

\* The list goes through these stores without being refused, and none of its
\* items changes the entries of another nonce n.
SentThrough(after, N, items, a, b, n) ==
    /\ \A i \in 0..N : after[i] \in StoreType
    /\ \A i \in 1..N : items[i] \in ListItem /\ ~ItemRefused(after[i - 1], a, b, items[i])
    /\ \A i \in 1..N, c \in Accounts : items[i].nonce # n =>
          after[i].entry[c][n] = after[i - 1].entry[c][n]

\* A list that is not refused names no blank nonce, and leaves its entries.
LEMMA BlankIsNotSent ==
    ASSUME NEW n \in Nonces, Blank(n), NEW a \in Accounts, NEW b, NEW N \in Nat, NEW items, NEW after,
           after[0] = store, SentThrough(after, N, items, a, b, n)
    PROVE  /\ \A i \in 1..N : items[i].nonce # n
           /\ \A c \in Accounts : after[N].entry[c][n] = store.entry[c][n]
<1> DEFINE Same(u) == \A c \in Accounts : u.entry[c][n] = store.entry[c][n]
           T == {i \in 0..N : Same(after[i])}
<1>1. 0 \in T
  OBVIOUS
<1>2. ASSUME NEW i \in 1..N, Same(after[i - 1])
      PROVE  items[i].nonce # n
  <2>1. after[i - 1] \in StoreType /\ items[i] \in ListItem /\ ~ItemRefused(after[i - 1], a, b, items[i])
    <3>1. i - 1 \in 0..N
      OBVIOUS
    <3> QED
      BY <3>1 DEF SentThrough
  <2>2. /\ after[i - 1].entry[a][items[i].nonce] # NoEntry
        /\ ~after[i - 1].entry[a][items[i].nonce].frozen
    BY <2>1, SentIsThere
  <2> QED
    BY <1>2, <2>2 DEF Blank
<1>3. ASSUME NEW i \in 1..N, i - 1 \in T
      PROVE  i \in T
  BY <1>2, <1>3 DEF SentThrough
<1>4. \A i \in 0..N : i \in T
  <2> HIDE DEF T
  <2> QED
    BY <1>1, <1>3, ListInduction
<1>5. \A i \in 1..N : i - 1 \in 0..N
  OBVIOUS
<1>6. \A i \in 1..N : items[i].nonce # n
  BY <1>2, <1>4, <1>5
<1>7. N \in 0..N
  OBVIOUS
<1> QED
  BY <1>4, <1>6, <1>7

\* Only entries of other nonces change, so that n stays blank.
SameEntries(n) == \A c \in Accounts : store'.entry[c][n] = store.entry[c][n]

LEMMA StaysBlank ==
    ASSUME NEW n \in Nonces, Blank(n), UNCHANGED wire, SameEntries(n)
    PROVE  Blank(n)'
BY DEF Blank, InFlight, SameEntries

LEMMA InShardLeavesBlank ==
    ASSUME TypeOK, NEW n \in Nonces, Blank(n),
           NEW a \in Accounts, NEW b \in Accounts, NEW items \in Lists, NEW call \in BOOLEAN,
           MultiInShard(a, b, items, call)
    PROVE  SameEntries(n)
<1> DEFINE after == MultiMoved(a, b, items)
           N == Len(items)
<1>1. N \in Nat /\ \A i \in 1..N : items[i] \in ListItem
  BY ListTypes
<1>2. after = MultiMoved(a, b, items)
  OBVIOUS
<1> HIDE DEF after
<1>3. /\ after[0] = store /\ store' = after[N]
      /\ \A i \in 0..N : after[i] \in StoreType
      /\ \A i \in 1..N : after[i] = ItemMoved(after[i - 1], a, b, items[i])
                         /\ ~ItemRefused(after[i - 1], a, b, items[i])
  BY <1>2, InShardSteps
<1>4. ASSUME NEW i \in 1..N, NEW c \in Accounts, items[i].nonce # n
      PROVE  after[i].entry[c][n] = after[i - 1].entry[c][n]
  <2>1. after[i - 1] \in StoreType /\ items[i] \in ListItem /\ n \in Keys
    BY <1>1, <1>3, ConstantTypes
  <2>2. \A k \in Keys : k # items[i].nonce => after[i].entry[c][k] = after[i - 1].entry[c][k]
    BY <1>3, <2>1, ItemMovedWrites
  <2> QED
    BY <1>4, <2>1, <2>2
<1>5. SentThrough(after, N, items, a, b, n)
  BY <1>1, <1>3, <1>4 DEF SentThrough
<1>6. \A c \in Accounts : after[N].entry[c][n] = store.entry[c][n]
  <2> HIDE DEF N
  <2> QED
    BY <1>1, <1>3, <1>5, BlankIsNotSent
<1> QED
  BY <1>3, <1>6 DEF SameEntries

LEMMA LeavesBlank ==
    ASSUME TypeOK, NEW n \in Nonces, Blank(n), NEW k \in 1..MultiSlots,
           NEW a \in Accounts, NEW b \in Accounts, NEW items \in Lists, NEW call \in BOOLEAN,
           MultiLeaves(k, a, b, items, call)
    PROVE  /\ SameEntries(n)
           /\ \A i \in 1..Len(items) : items[i].nonce # n
<1> DEFINE sent == MultiSent(a, items)
           N == Len(items)
<1>1. N \in Nat /\ \A i \in 1..N : items[i] \in ListItem
  BY ListTypes
<1>2. sent = MultiSent(a, items)
  OBVIOUS
<1> HIDE DEF sent
<1>3. /\ sent[0] = store
      /\ \A i \in 0..N : sent[i] \in StoreType
      /\ \A i \in 1..N : ~ItemRefused(sent[i - 1], a, b, items[i])
                         /\ Changed(sent[i - 1], sent[i], a, items[i].nonce, -items[i].value)
  BY <1>2, LeavesSteps
<1>4. ASSUME NEW i \in 1..N, NEW c \in Accounts, items[i].nonce # n
      PROVE  sent[i].entry[c][n] = sent[i - 1].entry[c][n]
  <2>1. n \in Keys
    BY ConstantTypes
  <2> QED
    BY <1>3, <1>4, <2>1 DEF Changed
<1>5. SentThrough(sent, N, items, a, b, n)
  BY <1>1, <1>3, <1>4 DEF SentThrough
<1>6. /\ \A i \in 1..N : items[i].nonce # n
      /\ \A c \in Accounts : sent[N].entry[c][n] = store.entry[c][n]
  <2>1. N \in Nat /\ sent[0] = store
    BY <1>1, <1>3
  <2> HIDE DEF N
  <2> QED
    BY <1>5, <2>1, BlankIsNotSent
<1>7. store'.entry = sent[N].entry
  BY <1>2, LeavesStore
<1> QED
  BY <1>6, <1>7 DEF SameEntries

LEMMA ArrivesLeavesBlank ==
    ASSUME MultiTypeOK, NEW n \in Nonces, NotInLists(n), NEW k \in 1..MultiSlots, MultiArrives(k)
    PROVE  SameEntries(n)
<1> DEFINE m == multi[k]
           after == MultiCredited(m)
           N == Len(m.items)
<1>1. m # Free /\ N \in Nat
  BY MultiTypes DEF MultiArrives
<1>2. \A i \in 1..N : m.items[i].nonce # n
  BY <1>1 DEF NotInLists
<1>3. m = multi[k] /\ after = MultiCredited(m)
  OBVIOUS
<1> HIDE DEF m, after
<1>4. /\ after[0] = store /\ store' = after[N]
      /\ \A i \in 1..N : Changed(after[i - 1], after[i], m.to, m.items[i].nonce, Decoded(m.items[i]).value)
  BY <1>3, ArrivesSteps
<1>5. \A i \in 1..N, c \in Accounts : after[i].entry[c][n] = after[i - 1].entry[c][n]
  <2>1. n \in Keys
    BY ConstantTypes
  <2> QED
    BY <1>2, <1>4, <2>1 DEF Changed
<1>6. \A i \in 0..N, c \in Accounts : after[i].entry[c][n] = after[0].entry[c][n]
  <2> HIDE DEF N
  <2> QED
    BY <1>1, <1>5, EntriesStay
<1>7. N \in 0..N
  BY <1>1
<1> QED
  BY <1>4, <1>6, <1>7 DEF SameEntries

LEMMA MultiStepKeepsBlank ==
    ASSUME MultiTypeOK, MultiBlankBefore, [MultiNext]_multiVars, NEW n \in Nonces, minted'[n] = 0
    PROVE  Blank(n)' /\ NotInLists(n)'
<1>0. TypeOK /\ multi \in [1..MultiSlots -> MultiType \union {Free}]
  BY DEF MultiTypeOK
<1>1. minted[n] = 0
  <2>1. minted[n] \in Nat /\ RolesTypeOK
    BY <1>0, MintedIsNat DEF TypeOK
  <2> QED
    BY <2>1, MultiStepIsRolesStep, MintedGrows
<1>2. Blank(n) /\ NotInLists(n)
  BY <1>1 DEF MultiBlankBefore, BlankBeforeCreation
<1>3. CASE [Next]_vars /\ UNCHANGED multi
  <2>1. Blank(n)'
    BY <1>0, <1>2, <1>3, StepKeepsBlank
  <2> QED
    BY <1>2, <1>3, <2>1 DEF NotInLists
<1>4. ASSUME NEW a \in Accounts, NEW b \in Accounts, NEW items \in Lists, NEW call \in BOOLEAN,
             MultiInShard(a, b, items, call)
      PROVE  Blank(n)' /\ NotInLists(n)'
  <2>1. UNCHANGED wire /\ UNCHANGED multi
    BY <1>4, ListSteps DEF ListStep
  <2>2. SameEntries(n)
    BY <1>0, <1>2, <1>4, InShardLeavesBlank
  <2> QED
    BY <1>2, <2>1, <2>2, StaysBlank DEF NotInLists
<1>5. ASSUME NEW k \in 1..MultiSlots, NEW a \in Accounts, NEW b \in Accounts, NEW items \in Lists,
             NEW call \in BOOLEAN, MultiLeaves(k, a, b, items, call)
      PROVE  Blank(n)' /\ NotInLists(n)'
  <2>1. UNCHANGED wire
    BY <1>5, ListSteps DEF ListStep
  <2>2. /\ SameEntries(n)
        /\ \A i \in 1..Len(items) : items[i].nonce # n
    BY <1>0, <1>2, <1>5, LeavesBlank
  <2>3. PICK m \in MultiType : /\ multi' = [multi EXCEPT ![k] = m]
                               /\ Len(m.items) = Len(items)
                               /\ \A i \in 1..Len(items) : m.items[i].nonce = items[i].nonce
    BY <1>0, <1>5, LeavesMessage
  <2>4. NotInLists(n)'
    BY <1>0, <1>2, <2>2, <2>3 DEF NotInLists
  <2> QED
    BY <1>2, <2>1, <2>2, <2>4, StaysBlank
<1>6. ASSUME NEW k \in 1..MultiSlots, MultiArrives(k)
      PROVE  Blank(n)' /\ NotInLists(n)'
  <2>1. UNCHANGED wire /\ multi' = [multi EXCEPT ![k] = Free]
    BY <1>6 DEF MultiArrives
  <2>2. SameEntries(n)
    BY <1>2, <1>6, ArrivesLeavesBlank
  <2>3. NotInLists(n)'
    BY <1>0, <1>2, <2>1 DEF NotInLists
  <2> QED
    BY <1>2, <2>1, <2>2, <2>3, StaysBlank
<1>7. ASSUME NEW k \in 1..MultiSlots, MultiFails(k)
      PROVE  Blank(n)' /\ NotInLists(n)'
  <2>1. UNCHANGED wire
    BY <1>7, ListSteps DEF ListStep
  <2>2. store'.entry = store.entry /\ multi[k] # Free
    BY <1>7, FailsSteps
  <2>3. PICK m \in MultiType : multi' = [multi EXCEPT ![k] = m] /\ m.items = multi[k].items
    BY <1>7, FailsMessage
  <2>4. NotInLists(n)'
    BY <1>0, <1>2, <2>2, <2>3 DEF NotInLists
  <2> QED
    BY <1>2, <2>1, <2>2, <2>4, StaysBlank DEF SameEntries
<1> QED
  BY <1>3, <1>4, <1>5, <1>6, <1>7, MultiSteps

LEMMA MultiBlankAtFirst == MultiInit => MultiBlankBefore
<1> SUFFICES ASSUME MultiInit PROVE MultiBlankBefore
  OBVIOUS
<1>1. store = EmptyStore /\ (\A i \in 1..Slots : wire[i] = Free) /\ \A k \in 1..MultiSlots : multi[k] = Free
  BY DEF MultiInit, Init
<1>2. \A a \in Accounts, n \in Nonces : store.entry[a][n] = NoEntry
  BY <1>1, ConstantTypes DEF EmptyStore
<1> QED
  BY <1>1, <1>2 DEF MultiBlankBefore, BlankBeforeCreation, Blank, InFlight, NoEntry, NotInLists

LEMMA MultiBlank == MultiSpec => []MultiBlankBefore
<1>1. MultiInit => MultiBlankBefore
  BY MultiBlankAtFirst
<1>2. MultiTypeOK /\ MultiBlankBefore /\ [MultiNext]_multiVars => MultiBlankBefore'
  BY MultiStepKeepsBlank DEF MultiBlankBefore, BlankBeforeCreation
<1> QED
  BY <1>1, <1>2, MultiTypeCorrect, PTL DEF MultiSpec

-----------------------------------------------------------------------------
\* The lists in flight are as long as those that are sent.
ListsAreShort == \A k \in 1..MultiSlots : multi[k] # Free => Len(multi[k].items) <= MaxItems

LEMMA ShortLists == MultiSpec => []ListsAreShort
<1>1. MultiInit => ListsAreShort
  BY DEF MultiInit, ListsAreShort
<1>2. MultiTypeOK /\ ListsAreShort /\ [MultiNext]_multiVars => ListsAreShort'
  <2> SUFFICES ASSUME MultiTypeOK, ListsAreShort, [MultiNext]_multiVars PROVE ListsAreShort'
    OBVIOUS
  <2>0. TypeOK /\ multi \in [1..MultiSlots -> MultiType \union {Free}]
    BY DEF MultiTypeOK
  <2>1. CASE UNCHANGED multi
    BY <2>1 DEF ListsAreShort
  <2>2. ASSUME NEW k \in 1..MultiSlots, NEW a \in Accounts, NEW b \in Accounts, NEW items \in Lists,
               NEW call \in BOOLEAN, MultiLeaves(k, a, b, items, call)
        PROVE  ListsAreShort'
    <3>1. PICK m \in MultiType : multi' = [multi EXCEPT ![k] = m] /\ Len(m.items) = Len(items)
      BY <2>0, <2>2, LeavesMessage
    <3>2. Len(items) <= MaxItems
      BY ListTypes
    <3> QED
      BY <2>0, <3>1, <3>2 DEF ListsAreShort
  <2>3. ASSUME NEW k \in 1..MultiSlots, MultiArrives(k)
        PROVE  ListsAreShort'
    <3>1. multi' = [multi EXCEPT ![k] = Free]
      BY <2>3 DEF MultiArrives
    <3> QED
      BY <2>0, <3>1 DEF ListsAreShort
  <2>4. ASSUME NEW k \in 1..MultiSlots, MultiFails(k)
        PROVE  ListsAreShort'
    <3>1. PICK m \in MultiType : multi' = [multi EXCEPT ![k] = m] /\ m.items = multi[k].items
      BY <2>4, FailsMessage
    <3>2. multi[k] # Free
      BY <2>4, FailsSteps
    <3> QED
      BY <2>0, <3>1, <3>2 DEF ListsAreShort
  <2>5. ASSUME NEW a \in Accounts, NEW b \in Accounts, NEW items \in Lists, NEW call \in BOOLEAN,
               MultiInShard(a, b, items, call)
        PROVE  ListsAreShort'
    BY <2>1, <2>5, ListSteps
  <2> QED
    BY <2>1, <2>2, <2>3, <2>4, <2>5, MultiSteps
<1> QED
  BY <1>1, <1>2, MultiTypeCorrect, PTL DEF MultiSpec

-----------------------------------------------------------------------------
LEMMA MultiFlagsStay ==
    ASSUME NEW F, F \subseteq InitFlags
    PROVE  (MultiInit => FlagsOn(F)) /\ (FlagsOn(F) /\ [MultiNext]_multiVars => FlagsOn(F)')
<1>1. MultiInit => FlagsOn(F)
  BY FlagsStayOn DEF MultiInit
<1>2. ASSUME FlagsOn(F), [MultiNext]_multiVars
      PROVE  FlagsOn(F)'
  <2>1. CASE [Next]_vars
    BY <1>2, <2>1, FlagsStayOn
  <2>2. CASE ListStep
    BY <1>2, <2>2 DEF ListStep, OnlyLedger, FlagsOn, On
  <2> QED
    BY <1>2, <2>1, <2>2, MultiSteps, ListSteps
<1> QED
  BY <1>1, <1>2

\* Every item in flight carries the metadata of its token, as every message
\* does: an item that had none would have been refused by the liquidity.
ListsCarryMetaData ==
    \A k \in 1..MultiSlots : multi[k] # Free =>
        \A i \in 1..Len(multi[k].items) : multi[k].items[i].meta

LEMMA CarriedWithMetaData ==
    ASSUME FlagsOn(ReturnFlags), NEW st \in StoreType, NEW st2, NEW a \in Accounts, NEW b,
           NEW x \in ListItem, ~ItemRefused(st, a, b, x),
           ~LiquidityRefused(ItemTaken(st, a, x), ShardOf[a], x.nonce, -x.value)
    PROVE  ItemCarried(st, st2, a, b, x).meta
<1> DEFINE n == x.nonce
           q == x.value
           tok == ItemToken(st, a, x)
           whole == ~AlreadySent(st2, ShardOf[a], n, ShardOf[b]) \/ q = 1
<1>1. On(SaveToSystemAccount) /\ On(SendAlways)
  BY DEF FlagsOn, ReturnFlags
<1>2. n \in Nonces /\ q \in Nat /\ st.entry[a][n] # NoEntry
  BY ListItemTypes, NotRefused
<1>3. ~LiquidityRefused(Taken(st, a, n, q), ShardOf[a], n, -q)
  BY DEF ItemTaken
<1>4. Token(st, a, n).meta /\ Token(st, a, n) \in Entry
  <2> HIDE DEF n, q
  <2> QED
    BY <1>1, <1>2, <1>3, TakenHasMetaData, TokenRead
<1>5. tok.meta
  <2>1. tok = [Token(st, a, n) EXCEPT !.value = q]
    BY DEF ItemToken
  <2> HIDE DEF tok, n, q
  <2> QED
    BY <1>4, <2>1 DEF Entry
<1>6. whole
  BY <1>1 DEF AlreadySent
<1> HIDE DEF tok
<1>7. ItemCarried(st, st2, a, b, x).meta = (whole /\ tok.meta)
  BY DEF ItemCarried, tok
<1> QED
  BY <1>5, <1>6, <1>7

LEMMA LeavesWithMetaData ==
    ASSUME MultiTypeOK, FlagsOn(ReturnFlags), NEW k \in 1..MultiSlots, NEW a \in Accounts, NEW b \in Accounts,
           NEW items \in Lists, NEW call \in BOOLEAN, MultiLeaves(k, a, b, items, call)
    PROVE  /\ Len(multi'[k].items) = Len(items)
           /\ \A i \in 1..Len(items) : multi'[k].items[i].meta
<1> DEFINE N == Len(items)
           sent == MultiSent(a, items)
           after == MultiRecorded(sent[N], a, b, items)
           carried == [i \in 1..N |-> ItemCarried(sent[i - 1], after[i - 1], a, b, items[i])]
<1>0. TypeOK /\ multi \in [1..MultiSlots -> MultiType \union {Free}]
  BY DEF MultiTypeOK
<1>1. N \in Nat /\ \A i \in 1..N : items[i] \in ListItem
  BY ListTypes
<1>2. multi' = [multi EXCEPT ![k] = [phase |-> "sent", from |-> a, to |-> b, call |-> call, items |-> carried]]
  BY DEF MultiLeaves
<1>3. Len(multi'[k].items) = N
  BY <1>0, <1>2, LeavesMessage
<1>4. multi'[k].items = carried
  <2> HIDE DEF carried
  <2> QED
    BY <1>0, <1>2
<1>5. ASSUME NEW i \in 1..N
      PROVE  carried[i].meta
  <2>1. /\ \A j \in 0..N : sent[j] \in StoreType
        /\ \A j \in 1..N : ~ItemRefused(sent[j - 1], a, b, items[j])
                           /\ ~LiquidityRefused(ItemTaken(sent[j - 1], a, items[j]), ShardOf[a],
                                                items[j].nonce, -items[j].value)
    <3>1. sent = MultiSent(a, items)
      OBVIOUS
    <3> HIDE DEF sent
    <3> QED
      BY <1>0, <3>1, LeavesSteps
  <2>2. sent[i - 1] \in StoreType
    <3>1. i - 1 \in 0..N
      BY <1>1
    <3> QED
      BY <2>1, <3>1
  <2>3. carried[i] = ItemCarried(sent[i - 1], after[i - 1], a, b, items[i])
    OBVIOUS
  <2> HIDE DEF carried, sent, after
  <2> QED
    BY <1>1, <2>1, <2>2, <2>3, CarriedWithMetaData
<1> HIDE DEF carried
<1> QED
  BY <1>3, <1>4, <1>5

LEMMA MultiStepCarries ==
    ASSUME MultiTypeOK, FlagsOn(ReturnFlags), AllCarryMetaData, ListsCarryMetaData, [MultiNext]_multiVars
    PROVE  AllCarryMetaData' /\ ListsCarryMetaData'
<1>0. TypeOK /\ multi \in [1..MultiSlots -> MultiType \union {Free}]
  BY DEF MultiTypeOK
<1>1. CASE [Next]_vars /\ UNCHANGED multi
  BY <1>0, <1>1, StepCarriesMetaData DEF ListsCarryMetaData
<1>2. ASSUME ListStep PROVE AllCarryMetaData'
  BY <1>2 DEF ListStep, AllCarryMetaData
<1>3. ASSUME NEW k \in 1..MultiSlots, NEW a \in Accounts, NEW b \in Accounts, NEW items \in Lists,
             NEW call \in BOOLEAN, MultiLeaves(k, a, b, items, call)
      PROVE  ListsCarryMetaData'
  <2>1. Len(multi'[k].items) = Len(items) /\ \A i \in 1..Len(items) : multi'[k].items[i].meta
    BY <1>3, LeavesWithMetaData
  <2>2. \A j \in 1..MultiSlots : j # k => multi'[j] = multi[j]
    BY <1>0, <1>3 DEF MultiLeaves
  <2> QED
    BY <2>1, <2>2 DEF ListsCarryMetaData
<1>4. ASSUME NEW k \in 1..MultiSlots, MultiArrives(k)
      PROVE  ListsCarryMetaData'
  <2>1. multi' = [multi EXCEPT ![k] = Free]
    BY <1>4 DEF MultiArrives
  <2> QED
    BY <1>0, <2>1 DEF ListsCarryMetaData
<1>5. ASSUME NEW k \in 1..MultiSlots, MultiFails(k)
      PROVE  ListsCarryMetaData'
  <2>1. PICK m \in MultiType : multi' = [multi EXCEPT ![k] = m] /\ m.items = multi[k].items
    BY <1>5, FailsMessage
  <2>2. multi[k] # Free
    BY <1>5, FailsSteps
  <2> QED
    BY <1>0, <2>1, <2>2 DEF ListsCarryMetaData
<1>6. ASSUME UNCHANGED multi PROVE ListsCarryMetaData'
  BY <1>6 DEF ListsCarryMetaData
<1> QED
  BY <1>1, <1>2, <1>3, <1>4, <1>5, <1>6, MultiSteps, ListSteps

LEMMA MultiCarriesMetaData ==
    ASSUME ReturnFlags \subseteq InitFlags
    PROVE  MultiSpec => [](FlagsOn(ReturnFlags) /\ AllCarryMetaData /\ ListsCarryMetaData)
<1>1. MultiInit => AllCarryMetaData /\ ListsCarryMetaData
  BY DEF MultiInit, Init, AllCarryMetaData, ListsCarryMetaData
<1>2. MultiTypeOK /\ FlagsOn(ReturnFlags) /\ AllCarryMetaData /\ ListsCarryMetaData /\ [MultiNext]_multiVars
        => AllCarryMetaData' /\ ListsCarryMetaData'
  BY MultiStepCarries
<1>3. /\ MultiInit => FlagsOn(ReturnFlags)
      /\ FlagsOn(ReturnFlags) /\ [MultiNext]_multiVars => FlagsOn(ReturnFlags)'
  BY MultiFlagsStay
<1> QED
  BY <1>1, <1>2, <1>3, MultiTypeCorrect, PTL DEF MultiSpec

-----------------------------------------------------------------------------
\* An item with metadata is counted wherever it arrives.
LEMMA ItemIsCounted ==
    ASSUME FlagsOn(ReturnFlags), NEW st \in StoreType, NEW m, m.from \in Accounts, m.to \in Accounts,
           NEW x \in ItemType, x.meta
    PROVE  ~LiquidityRefused(ItemAdded(st, m, x), ShardOf[m.to], x.nonce, Decoded(x).value)
<1> DEFINE n == x.nonce
           tok == Decoded(x)
           v == tok.value
           to == m.to
           from == m.from
<1>1. n \in Nonces /\ tok \in Entry /\ tok.meta /\ v \in Nat
  BY DecodedType DEF Entry
<1>2. ItemAdded(st, m, x) = Added(st, from, to, n, tok)
  BY DEF ItemAdded
<1> HIDE DEF n, tok, v, to, from
<1>3. ~LiquidityRefused(Added(st, from, to, n, tok), ShardOf[to], n, v)
  <2>1. from \in Accounts /\ to \in Accounts
    BY DEF from, to
  <2> QED
    BY <1>1, <2>1, AddedIsCounted
<1> QED
  BY <1>2, <1>3 DEF n, v, to, tok

LEMMA ListIsAccepted ==
    ASSUME MultiTypeOK, FlagsOn(ReturnFlags), ListsCarryMetaData, NEW k \in 1..MultiSlots,
           multi[k] # Free, multi[k].phase = "returning"
    PROVE  MultiAccepted(multi[k])
<1> DEFINE m == multi[k]
           items == m.items
           N == Len(items)
           after == MultiCredited(m)
           T == {i \in 0..N : after[i] \in StoreType}
           Counts(st, x) ==
               ~LiquidityRefused(ItemAdded(st, m, x), ShardOf[m.to], x.nonce, Decoded(x).value)
<1>1. m.from \in Accounts /\ m.to \in Accounts /\ N \in Nat /\ \A i \in 1..N : items[i] \in ItemType
  BY MultiTypes
<1>2. \A i \in 1..N : items[i].meta
  BY DEF ListsCarryMetaData
<1>3. after[0] = store /\ \A i \in 1..N : after[i] = ItemCredited(after[i - 1], m, items[i])
  <2>1. items = m.items /\ Len(items) \in Nat
    BY <1>1
  <2> HIDE DEF items, m
  <2> QED
    BY <2>1, CreditedStores
<1>4. ASSUME NEW st \in StoreType, NEW i \in 1..N
      PROVE  Counts(st, items[i])
  BY <1>1, <1>2, ItemIsCounted
<1>5. 0 \in T
  BY <1>1, <1>3 DEF MultiTypeOK, TypeOK
<1>6. ASSUME NEW i \in 1..N, i - 1 \in T
      PROVE  i \in T
  <2>1. after[i - 1] \in StoreType /\ items[i] \in ItemType
    BY <1>1, <1>6
  <2>2. Changed(after[i - 1], ItemCredited(after[i - 1], m, items[i]), m.to, items[i].nonce,
                Decoded(items[i]).value)
    <3>1. Counts(after[i - 1], items[i])
      <4> HIDE DEF Counts, items, after, m
      <4> QED
        BY <1>4, <2>1
    <3> HIDE DEF items, after, m
    <3> QED
      BY <1>1, <2>1, <3>1, ItemCreditedWrites
  <2>3. ItemCredited(after[i - 1], m, items[i]) \in StoreType
    BY <2>2, Zenon DEF Changed
  <2>4. after[i] = ItemCredited(after[i - 1], m, items[i])
    BY <1>3
  <2> QED
    BY <2>3, <2>4
<1>7. \A i \in 0..N : i \in T
  <2> HIDE DEF T, N
  <2> QED
    BY <1>1, <1>5, <1>6, ListInduction
<1>8. \A i \in 1..N : after[i - 1] \in StoreType
  <2> SUFFICES ASSUME NEW i \in 1..N PROVE after[i - 1] \in StoreType
    OBVIOUS
  <2>1. i - 1 \in 0..N
    BY <1>1
  <2> QED
    BY <1>7, <2>1
<1>9. \A i \in 1..N : Counts(after[i - 1], items[i])
  <2> HIDE DEF Counts, items, after, m
  <2> QED
    BY <1>4, <1>8
<1>10. Payable(m.to, m.call, TRUE)
  BY DEF Payable, FlagsOn, ReturnFlags
<1>11. \A st, x : ~AddRefused(st, m.to, x.nonce, Decoded(x), TRUE)
  BY DEF AddRefused, Refused
<1> QED
  BY <1>9, <1>10, <1>11 DEF MultiAccepted

\* A list on its way back is accepted as a whole, whatever was frozen, paused
\* or deleted since it left and however often it names a nonce (the destination
\* half of MultiDCTNFTTransfer), and single transfers are as well.
THEOREM MultiReturnsAccepted ==
    ASSUME ReturnFlags \subseteq InitFlags
    PROVE  MultiSpec => [](ReturnsAreAccepted /\ MultiReturnsAreAccepted)
<1>1. MultiTypeOK /\ FlagsOn(ReturnFlags) /\ AllCarryMetaData => ReturnsAreAccepted
  BY CarriedIsAccepted DEF MultiTypeOK
<1>2. MultiTypeOK /\ FlagsOn(ReturnFlags) /\ ListsCarryMetaData => MultiReturnsAreAccepted
  BY ListIsAccepted DEF MultiReturnsAreAccepted
<1> QED
  BY <1>1, <1>2, MultiTypeCorrect, MultiCarriesMetaData, PTL

-----------------------------------------------------------------------------
\* What is in flight in lists, as a sum over all the places a list can fill.
ListWires == [1..MultiSlots -> MultiType \union {Free}]
Places == (1..MultiSlots) \X (1..MaxItems)

ItemValue(w, n, p) ==
    IF w[p[1]] # Free /\ p[2] <= Len(w[p[1]].items) /\ w[p[1]].items[p[2]].nonce = n
    THEN w[p[1]].items[p[2]].value ELSE 0

ListsTravel(w, n) == SumFunctionOnSet([p \in Places |-> ItemValue(w, n, p)], Places)

\* The same with the first i items of the list in slot k only.
UpTo(w, n, k, i) ==
    SumFunctionOnSet([p \in Places |-> IF p[1] = k /\ p[2] > i THEN 0 ELSE ItemValue(w, n, p)], Places)

LEMMA PlacesAre ==
    /\ IsFiniteSet(Places) /\ MaxItems \in Nat
    /\ \A p \in Places : p[1] \in 1..MultiSlots /\ p[2] \in 1..MaxItems /\ p[2] \in Nat /\ p = <<p[1], p[2]>>
    /\ \A k \in 1..MultiSlots, i \in 1..MaxItems : <<k, i>> \in Places
<1>1. MultiSlots \in Nat /\ MaxItems \in Nat
  BY MultiAssumption
<1>2. IsFiniteSet(1..MultiSlots) /\ IsFiniteSet(1..MaxItems)
  BY <1>1, FS_Interval
<1>3. IsFiniteSet(Places)
  BY <1>2, FS_Product DEF Places
<1> QED
  BY <1>1, <1>3 DEF Places

LEMMA ListWireTypes ==
    ASSUME NEW w \in ListWires, NEW k \in 1..MultiSlots, w[k] # Free
    PROVE  /\ Len(w[k].items) \in Nat
           /\ \A i \in 1..Len(w[k].items) : w[k].items[i].nonce \in Nonces /\ w[k].items[i].value \in Nat
<1>1. w[k] \in MultiType
  BY DEF ListWires
<1>2. w[k].items \in Seq(ItemType)
  BY <1>1 DEF MultiType
<1>3. \A s \in Seq(ItemType) : Len(s) \in Nat /\ \A i \in 1..Len(s) : s[i] \in ItemType
  OBVIOUS
<1>4. \A x \in ItemType : x.nonce \in Nonces /\ x.value \in Nat
  BY DEF ItemType
<1> QED
  BY <1>2, <1>3, <1>4

LEMMA ItemValueType ==
    ASSUME NEW w \in ListWires, NEW n, NEW p \in Places
    PROVE  ItemValue(w, n, p) \in Int
<1> DEFINE k == p[1]
           i == p[2]
<1>1. k \in 1..MultiSlots /\ i \in 1..MaxItems /\ i \in Nat
  BY PlacesAre
<1>2. CASE w[k] # Free /\ i <= Len(w[k].items)
  <2>1. i \in 1..Len(w[k].items)
    BY <1>1, <1>2, ListWireTypes
  <2>2. w[k].items[i].value \in Nat
    BY <1>1, <1>2, <2>1, ListWireTypes
  <2> QED
    BY <2>2 DEF ItemValue
<1>3. CASE ~(w[k] # Free /\ i <= Len(w[k].items))
  BY <1>3 DEF ItemValue
<1> QED
  BY <1>2, <1>3

\* Each item adds its value.
LEMMA UpToGrows ==
    ASSUME NEW w \in ListWires, NEW n \in Nonces, NEW k \in 1..MultiSlots, NEW i \in 1..MaxItems
    PROVE  /\ UpTo(w, n, k, i - 1) \in Int
           /\ UpTo(w, n, k, i) = UpTo(w, n, k, i - 1) + ItemValue(w, n, <<k, i>>)
<1> DEFINE f == [p \in Places |-> IF p[1] = k /\ p[2] > i - 1 THEN 0 ELSE ItemValue(w, n, p)]
           g == [p \in Places |-> IF p[1] = k /\ p[2] > i THEN 0 ELSE ItemValue(w, n, p)]
           q == <<k, i>>
<1>1. q \in Places /\ IsFiniteSet(Places)
  BY PlacesAre
<1>2. (\A p \in Places : f[p] \in Int) /\ (\A p \in Places : g[p] \in Int)
  BY ItemValueType
<1>3. f[q] = 0 /\ g[q] = ItemValue(w, n, q)
  BY <1>1
<1>4. ASSUME NEW p \in Places \ {q}
      PROVE  f[p] = g[p]
  <2>1. p[2] \in Nat /\ i \in Nat /\ ~(p[1] = k /\ p[2] = i)
    BY PlacesAre
  <2>2. p[1] = k => (p[2] > i - 1 <=> p[2] > i)
    BY <2>1
  <2> QED
    BY <2>2
<1>5. UpTo(w, n, k, i - 1) = SumFunctionOnSet(f, Places) /\ UpTo(w, n, k, i) = SumFunctionOnSet(g, Places)
  BY DEF UpTo
<1>6. ItemValue(w, n, q) \in Int
  BY <1>1, ItemValueType
<1> HIDE DEF f, g, q
<1>7. /\ SumFunctionOnSet(f, Places) \in Int
      /\ SumFunctionOnSet(g, Places) = SumFunctionOnSet(f, Places) - f[q] + g[q]
  BY <1>1, <1>2, <1>4, SumChanges
<1> QED
  BY <1>3, <1>5, <1>6, <1>7 DEF q

\* With all items of the list it is the whole sum, with none the one without
\* the list.
LEMMA UpToEnds ==
    ASSUME NEW w \in ListWires, NEW n \in Nonces, NEW k \in 1..MultiSlots, w[k] # Free
    PROVE  /\ UpTo(w, n, k, Len(w[k].items)) = ListsTravel(w, n)
           /\ UpTo(w, n, k, 0) = ListsTravel([w EXCEPT ![k] = Free], n)
<1> DEFINE N == Len(w[k].items)
           v == [w EXCEPT ![k] = Free]
           all == [p \in Places |-> ItemValue(w, n, p)]
           allBut == [p \in Places |-> ItemValue(v, n, p)]
           full == [p \in Places |-> IF p[1] = k /\ p[2] > N THEN 0 ELSE ItemValue(w, n, p)]
           none == [p \in Places |-> IF p[1] = k /\ p[2] > 0 THEN 0 ELSE ItemValue(w, n, p)]
<1>1. IsFiniteSet(Places)
  BY PlacesAre
<1>2. ASSUME NEW p \in Places
      PROVE  full[p] = all[p]
  <2>1. CASE p[1] = k /\ p[2] > N
    <3>1. ~(p[2] <= N)
      BY <2>1, ListWireTypes, PlacesAre
    <3>2. ItemValue(w, n, p) = 0
      BY <2>1, <3>1 DEF ItemValue
    <3> QED
      BY <2>1, <3>2
  <2>2. CASE ~(p[1] = k /\ p[2] > N)
    BY <2>2
  <2> QED
    BY <2>1, <2>2
<1>3. ASSUME NEW p \in Places
      PROVE  none[p] = allBut[p]
  <2>1. p[1] \in 1..MultiSlots /\ p[2] > 0
    BY PlacesAre
  <2>2. CASE p[1] = k
    <3>1. v[p[1]] = Free
      BY <2>1, <2>2 DEF ListWires
    <3> HIDE DEF v
    <3>2. ItemValue(v, n, p) = 0
      BY <3>1 DEF ItemValue
    <3> QED
      BY <2>1, <2>2, <3>2
  <2>3. CASE p[1] # k
    <3>1. v[p[1]] = w[p[1]]
      BY <2>1, <2>3 DEF ListWires
    <3> HIDE DEF v
    <3>2. ItemValue(v, n, p) = ItemValue(w, n, p)
      BY <3>1 DEF ItemValue
    <3> QED
      BY <2>3, <3>2
  <2> QED
    BY <2>2, <2>3
<1>4. /\ UpTo(w, n, k, N) = SumFunctionOnSet(full, Places)
      /\ UpTo(w, n, k, 0) = SumFunctionOnSet(none, Places)
  BY DEF UpTo
<1>5. ListsTravel(w, n) = SumFunctionOnSet(all, Places) /\ ListsTravel(v, n) = SumFunctionOnSet(allBut, Places)
  BY DEF ListsTravel
<1> HIDE DEF all, allBut, full, none, v
<1>6. /\ SumFunctionOnSet(full, Places) = SumFunctionOnSet(all, Places)
      /\ SumFunctionOnSet(none, Places) = SumFunctionOnSet(allBut, Places)
  BY <1>1, <1>2, <1>3, SumSame
<1> QED
  BY <1>4, <1>5, <1>6 DEF v

LEMMA ListsTravelType == ASSUME NEW w \in ListWires, NEW n \in Nonces PROVE ListsTravel(w, n) \in Int
<1> DEFINE f == [p \in Places |-> ItemValue(w, n, p)]
<1>1. IsFiniteSet(Places) /\ \A p \in Places : f[p] \in Int
  BY PlacesAre, ItemValueType
<1>2. ListsTravel(w, n) = SumFunctionOnSet(f, Places)
  BY DEF ListsTravel
<1> HIDE DEF f
<1> QED
  BY <1>1, <1>2, SumAdds

LEMMA MultiTravellingIs ==
    ASSUME MultiTypeOK, NEW n \in Nonces
    PROVE  MultiTravelling(n) = ListsTravel(multi, n)
<1> DEFINE T == ItemsInFlight(n)
           f == [p \in Places |-> ItemValue(multi, n, p)]
           g == [p \in T |-> multi[p[1]].items[p[2]].value]
<1>1. multi \in ListWires /\ IsFiniteSet(Places)
  BY PlacesAre DEF MultiTypeOK, ListWires
<1>2. T \in SUBSET Places
  BY DEF ItemsInFlight, Places
<1>3. ASSUME NEW p \in Places
      PROVE  p \in T <=> /\ multi[p[1]] # Free /\ p[2] <= Len(multi[p[1]].items)
                         /\ multi[p[1]].items[p[2]].nonce = n
  <2>1. p[1] \in 1..MultiSlots /\ p[2] \in Nat /\ p[2] >= 1
    BY PlacesAre
  <2>2. multi[p[1]] # Free => Len(multi[p[1]].items) \in Nat
    BY <1>1, <2>1, ListWireTypes
  <2>3. multi[p[1]] # Free => (p[2] <= Len(multi[p[1]].items) <=> p[2] \in 1..Len(multi[p[1]].items))
    BY <2>1, <2>2
  <2> QED
    BY <2>3 DEF ItemsInFlight, Places
<1>4. \A p \in Places \ T : f[p] = 0
  BY <1>3 DEF ItemValue
<1>5. \A p \in T : f[p] = g[p]
  BY <1>2, <1>3 DEF ItemValue
<1>6. \A p \in Places : f[p] \in Int
  BY <1>1, ItemValueType
<1>7. MultiTravelling(n) = SumFunctionOnSet(g, T) /\ ListsTravel(multi, n) = SumFunctionOnSet(f, Places)
  BY DEF MultiTravelling, ListsTravel
<1> HIDE DEF f, g, T
<1>8. IsFiniteSet(T)
  BY <1>1, <1>2, FS_Subset
<1>9. SumFunctionOnSet(f, T) = SumFunctionOnSet(g, T)
  BY <1>5, <1>8, SumSame
<1>10. SumFunctionOnSet(f, T) = SumFunctionOnSet(f, Places)
  BY <1>1, <1>2, <1>4, <1>6, SumRestricts
<1> QED
  BY <1>7, <1>9, <1>10

-----------------------------------------------------------------------------
\* The list in slot k of w goes through these stores: each of its items is
\* taken from account a (way "out") or added to it (way "in").
Runs(after, w, k, a, way) ==
    /\ w[k] # Free /\ Len(w[k].items) <= MaxItems
    /\ \A i \in 0..Len(w[k].items) : after[i] \in StoreType
    /\ \A i \in 1..Len(w[k].items) :
          Changed(after[i - 1], after[i], a, w[k].items[i].nonce,
                  IF way = "out" THEN -w[k].items[i].value ELSE w[k].items[i].value)

\* What the accounts hold and the items of the list so far, which go the other
\* way.
Both(way, held, listed) == IF way = "out" THEN held + listed ELSE held - listed

LEMMA RunStep ==
    ASSUME NEW w \in ListWires, NEW k \in 1..MultiSlots, NEW a \in Accounts, NEW way \in {"out", "in"}, NEW after,
           Runs(after, w, k, a, way), NEW n \in Nonces, NEW i \in 1..Len(w[k].items)
    PROVE  Both(way, HeldAt(after[i], n, Accounts), UpTo(w, n, k, i))
             = Both(way, HeldAt(after[i - 1], n, Accounts), UpTo(w, n, k, i - 1))
<1> DEFINE x == w[k].items[i]
           N == Len(w[k].items)
           d == IF way = "out" THEN -x.value ELSE x.value
           st == after[i - 1]
           st2 == after[i]
           v == x.value
           nx == x.nonce
<1>1. N \in Nat /\ nx \in Nonces /\ v \in Nat /\ d \in Int /\ N <= MaxItems /\ w[k] # Free
  BY ListWireTypes DEF Runs
<1>2. i - 1 \in 0..N /\ i \in 0..N /\ i \in 1..MaxItems /\ i <= N
  BY <1>1, PlacesAre
<1>3. st \in StoreType /\ st2 \in StoreType /\ Changed(st, st2, a, nx, d)
  BY <1>2 DEF Runs
<1>4. d = IF way = "out" THEN -v ELSE v
  OBVIOUS
<1>5. ItemValue(w, n, <<k, i>>) = IF nx = n THEN v ELSE 0
  BY <1>1, <1>2 DEF ItemValue
<1>6. /\ UpTo(w, n, k, i - 1) \in Int
      /\ UpTo(w, n, k, i) = UpTo(w, n, k, i - 1) + ItemValue(w, n, <<k, i>>)
  BY <1>2, UpToGrows
<1> HIDE DEF x, N, d, st, st2, v, nx
<1>7. Accounts \in SUBSET Accounts
  OBVIOUS
<1>8. HeldAt(st2, n, Accounts) = IF n = nx /\ a \in Accounts THEN HeldAt(st, n, Accounts) + d
                                 ELSE HeldAt(st, n, Accounts)
  <2>1. st2.entry[a][nx].value = st.entry[a][nx].value + d
    BY <1>3 DEF Changed
  <2>2. \A c \in Accounts, j \in Keys : c # a \/ j # nx => st2.entry[c][j] = st.entry[c][j]
    BY <1>3 DEF Changed
  <2> QED
    BY <1>1, <1>3, <1>7, <2>1, <2>2, OneEntryChanges
<1>9. HeldAt(st, n, Accounts) \in Int
  BY <1>3, <1>7, HeldIsNat
<1>10. Both(way, HeldAt(st2, n, Accounts), UpTo(w, n, k, i)) = Both(way, HeldAt(st, n, Accounts), UpTo(w, n, k, i - 1))
  <2> DEFINE h == HeldAt(st, n, Accounts)
             u == UpTo(w, n, k, i - 1)
  <2>1. h \in Int /\ u \in Int /\ v \in Int
    BY <1>1, <1>6, <1>9
  <2>2. /\ HeldAt(st2, n, Accounts) = IF nx = n THEN h + (IF way = "out" THEN -v ELSE v) ELSE h
        /\ UpTo(w, n, k, i) = u + (IF nx = n THEN v ELSE 0)
    BY <1>4, <1>5, <1>6, <1>8
  <2> HIDE DEF h, u
  <2>3. Both(way, HeldAt(st2, n, Accounts), UpTo(w, n, k, i)) = Both(way, h, u)
    BY <2>1, <2>2 DEF Both
  <2> QED
    BY <2>3 DEF h, u
<1> QED
  BY <1>10 DEF st, st2

LEMMA RunConserves ==
    ASSUME NEW w \in ListWires, NEW k \in 1..MultiSlots, NEW a \in Accounts, NEW way \in {"out", "in"}, NEW after,
           Runs(after, w, k, a, way), NEW n \in Nonces
    PROVE  Both(way, HeldAt(after[Len(w[k].items)], n, Accounts), ListsTravel(w, n))
             = Both(way, HeldAt(after[0], n, Accounts), ListsTravel([w EXCEPT ![k] = Free], n))
<1> DEFINE N == Len(w[k].items)
           At(i) == Both(way, HeldAt(after[i], n, Accounts), UpTo(w, n, k, i))
           T == {i \in 0..N : At(i) = At(0)}
<1>1. N \in Nat /\ w[k] # Free
  BY ListWireTypes DEF Runs
<1>2. 0 \in T
  BY <1>1
<1>3. ASSUME NEW i \in 1..N, i - 1 \in T
      PROVE  i \in T
  <2>1. At(i) = At(i - 1)
    BY RunStep
  <2> HIDE DEF At
  <2> QED
    BY <1>1, <1>3, <2>1
<1>4. \A i \in 0..N : i \in T
  <2> HIDE DEF T, N
  <2> QED
    BY <1>1, <1>2, <1>3, ListInduction
<1>5. At(N) = At(0)
  <2>1. N \in 0..N
    BY <1>1
  <2> HIDE DEF At
  <2> QED
    BY <1>4, <2>1
<1>6. UpTo(w, n, k, N) = ListsTravel(w, n) /\ UpTo(w, n, k, 0) = ListsTravel([w EXCEPT ![k] = Free], n)
  BY <1>1, UpToEnds
<1> QED
  BY <1>5, <1>6

\* Lists move tokens between what the accounts hold and what is in flight.
ListSumsKept ==
    \A n \in Nonces : HeldAt(store', n, Accounts) + ListsTravel(multi', n)
                        = HeldAt(store, n, Accounts) + ListsTravel(multi, n)

LEMMA ListHoldings ==
    ASSUME MultiTypeOK, NEW n \in Nonces
    PROVE  HeldAt(store, n, Accounts) \in Int /\ ListsTravel(multi, n) \in Int
<1>1. store \in StoreType /\ multi \in ListWires /\ Accounts \in SUBSET Accounts
  BY DEF MultiTypeOK, TypeOK, ListWires
<1> QED
  BY <1>1, HeldIsNat, ListsTravelType

LEMMA InShardConserves ==
    ASSUME MultiTypeOK, NEW a \in Accounts, NEW b \in Accounts, NEW items \in Lists, NEW call \in BOOLEAN,
           MultiInShard(a, b, items, call)
    PROVE  ListSumsKept
<1> DEFINE after == MultiMoved(a, b, items)
           N == Len(items)
           Same(u) == \A n \in Nonces : HeldAt(u, n, Accounts) = HeldAt(store, n, Accounts)
           T == {i \in 0..N : Same(after[i])}
<1>0. TypeOK
  BY DEF MultiTypeOK
<1>1. N \in Nat /\ \A i \in 1..N : items[i] \in ListItem
  BY ListTypes
<1>2. after = MultiMoved(a, b, items)
  OBVIOUS
<1> HIDE DEF after
<1>3. /\ after[0] = store /\ store' = after[N]
      /\ \A i \in 0..N : after[i] \in StoreType
      /\ \A i \in 1..N : after[i] = ItemMoved(after[i - 1], a, b, items[i])
                         /\ ~ItemRefused(after[i - 1], a, b, items[i])
  BY <1>0, <1>2, InShardSteps
<1>4. 0 \in T
  BY <1>1, <1>3
<1>5. ASSUME NEW i \in 1..N, i - 1 \in T
      PROVE  i \in T
  <2>1. after[i - 1] \in StoreType /\ items[i] \in ListItem /\ ~ItemRefused(after[i - 1], a, b, items[i])
        /\ after[i] = ItemMoved(after[i - 1], a, b, items[i])
    BY <1>1, <1>3, <1>5
  <2>2. \A n \in Nonces : HeldAt(after[i], n, Accounts) = HeldAt(after[i - 1], n, Accounts)
    BY <2>1, ItemMovedWrites
  <2>3. Same(after[i])
    BY <1>5, <2>2
  <2> HIDE DEF Same
  <2> QED
    BY <1>1, <2>3
<1>6. \A i \in 0..N : i \in T
  <2> HIDE DEF T, N
  <2> QED
    BY <1>1, <1>4, <1>5, ListInduction
<1>7. Same(after[N])
  <2>1. N \in 0..N
    BY <1>1
  <2> HIDE DEF Same
  <2> QED
    BY <1>6, <2>1
<1>8. UNCHANGED multi
  BY ListSteps
<1> QED
  BY <1>3, <1>7, <1>8 DEF ListSumsKept

LEMMA LeavesConserves ==
    ASSUME MultiTypeOK, NEW k \in 1..MultiSlots, NEW a \in Accounts, NEW b \in Accounts, NEW items \in Lists,
           NEW call \in BOOLEAN, MultiLeaves(k, a, b, items, call)
    PROVE  ListSumsKept
<1> DEFINE sent == MultiSent(a, items)
           N == Len(items)
           w == multi'
<1>0. TypeOK /\ multi \in ListWires /\ multi[k] = Free
  BY DEF MultiTypeOK, ListWires, MultiLeaves
<1>1. PICK m \in MultiType : /\ multi' = [multi EXCEPT ![k] = m] /\ m # Free /\ Len(m.items) = N
                             /\ \A i \in 1..N : m.items[i].nonce = items[i].nonce
                                               /\ m.items[i].value = items[i].value
  BY <1>0, LeavesMessage
<1>2. sent = MultiSent(a, items)
  OBVIOUS
<1> HIDE DEF sent
<1>3. /\ sent[0] = store
      /\ \A i \in 0..N : sent[i] \in StoreType
      /\ \A i \in 1..N : Changed(sent[i - 1], sent[i], a, items[i].nonce, -items[i].value)
  BY <1>0, <1>2, LeavesSteps
<1>4. store' \in StoreType /\ store'.entry = sent[N].entry
  BY <1>0, <1>2, LeavesStore
<1>5. N \in Nat /\ N <= MaxItems
  BY ListTypes
<1>6. w \in ListWires /\ w[k] = m /\ [w EXCEPT ![k] = Free] = multi
  BY <1>0, <1>1 DEF ListWires
<1> HIDE DEF w, N
<1>7. Runs(sent, w, k, a, "out")
  BY <1>1, <1>3, <1>5, <1>6 DEF Runs
<1>8. ASSUME NEW n \in Nonces
      PROVE  HeldAt(store', n, Accounts) + ListsTravel(w, n) = HeldAt(store, n, Accounts) + ListsTravel(multi, n)
  <2>1. Both("out", HeldAt(sent[N], n, Accounts), ListsTravel(w, n))
          = Both("out", HeldAt(sent[0], n, Accounts), ListsTravel([w EXCEPT ![k] = Free], n))
    <3>1. Len(w[k].items) = N /\ w \in ListWires
      BY <1>1, <1>6
    <3>2. Both("out", HeldAt(sent[Len(w[k].items)], n, Accounts), ListsTravel(w, n))
            = Both("out", HeldAt(sent[0], n, Accounts), ListsTravel([w EXCEPT ![k] = Free], n))
      BY <1>7, <3>1, RunConserves
    <3> QED
      BY <3>1, <3>2
  <2>2. HeldAt(sent[N], n, Accounts) = HeldAt(store', n, Accounts)
    BY <1>4 DEF HeldAt
  <2> QED
    BY <1>3, <1>6, <2>1, <2>2 DEF Both
<1> QED
  BY <1>8 DEF ListSumsKept, w

LEMMA ArrivesConserves ==
    ASSUME MultiTypeOK, ListsAreShort, ListsCarryMetaData, NEW k \in 1..MultiSlots, MultiArrives(k)
    PROVE  ListSumsKept
<1> DEFINE m == multi[k]
           after == MultiCredited(m)
           N == Len(m.items)
<1>0. multi \in ListWires /\ m # Free /\ multi' = [multi EXCEPT ![k] = Free]
  BY DEF MultiTypeOK, ListWires, MultiArrives
<1>1. m.to \in Accounts /\ N \in Nat /\ N <= MaxItems /\ \A i \in 1..N : m.items[i] \in ItemType
  BY <1>0, MultiTypes DEF ListsAreShort
<1>2. \A i \in 1..N : m.items[i].meta
  BY <1>0 DEF ListsCarryMetaData
<1>3. \A i \in 1..N : Decoded(m.items[i]).value = m.items[i].value
  BY <1>1, <1>2, DecodedType
<1>4. m = multi[k] /\ after = MultiCredited(m)
  OBVIOUS
<1> HIDE DEF m, after
<1>5. /\ after[0] = store /\ store' = after[N]
      /\ \A i \in 0..N : after[i] \in StoreType
      /\ \A i \in 1..N : Changed(after[i - 1], after[i], m.to, m.items[i].nonce, Decoded(m.items[i]).value)
  BY <1>4, ArrivesSteps
<1>6. Runs(after, multi, k, m.to, "in")
  BY <1>0, <1>1, <1>3, <1>4, <1>5 DEF Runs
<1>7. ASSUME NEW n \in Nonces
      PROVE  HeldAt(store', n, Accounts) + ListsTravel(multi', n)
               = HeldAt(store, n, Accounts) + ListsTravel(multi, n)
  <2>1. Both("in", HeldAt(store', n, Accounts), ListsTravel(multi, n))
          = Both("in", HeldAt(store, n, Accounts), ListsTravel(multi', n))
    <3>1. multi \in ListWires /\ m.to \in Accounts
      BY <1>0, <1>1
    <3>2. Both("in", HeldAt(after[Len(multi[k].items)], n, Accounts), ListsTravel(multi, n))
            = Both("in", HeldAt(after[0], n, Accounts), ListsTravel([multi EXCEPT ![k] = Free], n))
      BY <1>6, <3>1, RunConserves
    <3> QED
      BY <1>0, <1>4, <1>5, <3>2
  <2>2. HeldAt(store', n, Accounts) - ListsTravel(multi, n) = HeldAt(store, n, Accounts) - ListsTravel(multi', n)
    BY <2>1 DEF Both
  <2>3. HeldAt(store, n, Accounts) \in Int /\ ListsTravel(multi, n) \in Int
    BY ListHoldings
  <2>4. HeldAt(store', n, Accounts) \in Int
    <3>1. store' \in StoreType /\ Accounts \in SUBSET Accounts
      BY ArrivesStore
    <3> QED
      BY <3>1, HeldIsNat
  <2>5. ListsTravel(multi', n) \in Int
    <3>1. multi' \in ListWires
      BY <1>0 DEF ListWires
    <3> QED
      BY <3>1, ListsTravelType
  <2> QED
    BY <2>2, <2>3, <2>4, <2>5
<1> QED
  BY <1>7 DEF ListSumsKept

LEMMA FailsConserves ==
    ASSUME MultiTypeOK, NEW k \in 1..MultiSlots, MultiFails(k)
    PROVE  ListSumsKept
<1>0. multi \in ListWires /\ multi[k] # Free /\ store'.entry = store.entry
  BY FailsSteps DEF MultiTypeOK, ListWires
<1>1. PICK m \in MultiType : multi' = [multi EXCEPT ![k] = m] /\ m # Free /\ m.items = multi[k].items
  BY FailsMessage
<1>2. ASSUME NEW n \in Nonces
      PROVE  ListsTravel(multi', n) = ListsTravel(multi, n)
  <2> DEFINE f == [p \in Places |-> ItemValue(multi', n, p)]
             g == [p \in Places |-> ItemValue(multi, n, p)]
  <2>1. ASSUME NEW p \in Places
        PROVE  f[p] = g[p]
    <3>1. p[1] \in 1..MultiSlots
      BY PlacesAre
    <3>2. multi'[p[1]] # Free <=> multi[p[1]] # Free
      BY <1>0, <1>1, <3>1 DEF ListWires
    <3>3. multi[p[1]] # Free => multi'[p[1]].items = multi[p[1]].items
      BY <1>0, <1>1, <3>1 DEF ListWires
    <3>4. ItemValue(multi', n, p) = ItemValue(multi, n, p)
      BY <3>2, <3>3 DEF ItemValue
    <3> QED
      BY <3>4
  <2>2. ListsTravel(multi', n) = SumFunctionOnSet(f, Places) /\ ListsTravel(multi, n) = SumFunctionOnSet(g, Places)
    BY DEF ListsTravel
  <2> HIDE DEF f, g
  <2> QED
    BY <2>1, <2>2, PlacesAre, SumSame
<1>3. \A n : HeldAt(store', n, Accounts) = HeldAt(store, n, Accounts)
  BY <1>0 DEF HeldAt
<1> QED
  BY <1>2, <1>3 DEF ListSumsKept

\* What the accounts hold and what is in flight, alone or in lists, is what was
\* created and added, less what was burnt and wiped.
MultiConserved ==
    \A n \in Nonces : HeldAt(store, n, Accounts) + TravelsOn(wire, n) + ListsTravel(multi, n) = supply[n]

LEMMA MultiConservedIsSupply == MultiTypeOK /\ MultiConserved => MultiSupplyConserved
<1> SUFFICES ASSUME MultiTypeOK, MultiConserved, NEW n \in Nonces
             PROVE  Held(n, Accounts) + Travelling(n) + MultiTravelling(n) = supply[n]
  BY DEF MultiSupplyConserved
<1>1. Held(n, Accounts) = HeldAt(store, n, Accounts)
  BY DEF Held, HeldAt, Balance
<1>2. Travelling(n) = TravelsOn(wire, n)
  BY TravellingIs DEF MultiTypeOK
<1>3. MultiTravelling(n) = ListsTravel(multi, n)
  BY MultiTravellingIs
<1> QED
  BY <1>1, <1>2, <1>3 DEF MultiConserved

LEMMA MultiConservedAtFirst == MultiInit => MultiConserved
<1> SUFFICES ASSUME MultiInit, NEW n \in Nonces
             PROVE  HeldAt(store, n, Accounts) + TravelsOn(wire, n) + ListsTravel(multi, n) = supply[n]
  BY DEF MultiConserved
<1>1. Init /\ TypeOK
  BY InitLedgerTypeOK DEF MultiInit
<1>2. HeldAt(store, n, Accounts) + TravelsOn(wire, n) = supply[n]
  BY <1>1, NothingHeldAtFirst DEF Conserved
<1>3. ListsTravel(multi, n) = 0
  <2> DEFINE f == [p \in Places |-> ItemValue(multi, n, p)]
  <2>1. \A p \in Places : f[p] = 0
    <3> SUFFICES ASSUME NEW p \in Places PROVE f[p] = 0
      OBVIOUS
    <3>1. multi[p[1]] = Free
      BY PlacesAre DEF MultiInit
    <3>2. ItemValue(multi, n, p) = 0
      BY <3>1 DEF ItemValue
    <3> QED
      BY <3>2
  <2>2. ListsTravel(multi, n) = SumFunctionOnSet(f, Places)
    BY DEF ListsTravel
  <2> HIDE DEF f
  <2>3. {} \in SUBSET Places /\ \A p \in Places : f[p] \in Int
    BY <2>1
  <2>4. SumFunctionOnSet(f, {}) = SumFunctionOnSet(f, Places)
    BY <2>1, <2>3, PlacesAre, SumRestricts
  <2>5. SumFunctionOnSet(f, {}) = 0
    <3>1. IsFiniteSet({})
      BY FS_EmptySet
    <3> QED
      BY <3>1, SumUnfolds
  <2> QED
    BY <2>2, <2>4, <2>5
<1>4. HeldAt(store, n, Accounts) \in Int /\ TravelsOn(wire, n) \in Int
  BY <1>1, SumTypes
<1> QED
  BY <1>2, <1>3, <1>4

LEMMA MultiStepConserves ==
    ASSUME MultiTypeOK, MultiBlankBefore, ListsAreShort, NonceNeverReused', FlagsOn(ReturnFlags),
           AllCarryMetaData, ListsCarryMetaData, MultiConserved, [MultiNext]_multiVars
    PROVE  MultiConserved'
<1>0. TypeOK /\ MultiTypeOK' /\ TypeOK'
  BY NextMultiTypeOK DEF MultiTypeOK
<1>1. CASE [Next]_vars /\ UNCHANGED multi
  <2>1. BlankBeforeCreation /\ ReturnsAreAccepted
    BY <1>0, CarriedIsAccepted DEF MultiBlankBefore
  <2>2. SumsKept
    BY <1>0, <1>1, <2>1, StepKeepsSums
  <2> SUFFICES ASSUME NEW n \in Nonces
               PROVE  HeldAt(store', n, Accounts) + TravelsOn(wire', n) + ListsTravel(multi', n) = supply'[n]
    BY DEF MultiConserved, HeldAt, TravelsOn, ListsTravel, ItemValue, ValueOf
  <2> DEFINE h == HeldAt(store, n, Accounts)
             h2 == HeldAt(store', n, Accounts)
             t == TravelsOn(wire, n)
             t2 == TravelsOn(wire', n)
             l == ListsTravel(multi, n)
  <2>3. h2 + t2 - supply'[n] = h + t - supply[n] /\ h + t + l = supply[n]
    BY <2>2 DEF SumsKept, MultiConserved
  <2>4. h \in Int /\ t \in Int /\ l \in Int /\ supply[n] \in Int
    BY <1>0, SumTypes, ListHoldings
  <2>5. h2 \in Int /\ t2 \in Int /\ supply'[n] \in Int
    <3>1. store' \in StoreType /\ wire' \in Wires /\ supply' \in [Nonces -> Int]
      BY <1>0 DEF TypeOK, Wires
    <3> QED
      BY <3>1, HeldIsNat, WireSums
  <2>6. ListsTravel(multi', n) = l
    BY <1>1
  <2> HIDE DEF h, h2, t, t2, l
  <2>7. h2 + t2 + l = supply'[n]
    BY <2>3, <2>4, <2>5
  <2> QED
    BY <2>6, <2>7 DEF h2, t2, l
<1>2. ASSUME ListStep, ListSumsKept
      PROVE  MultiConserved'
  <2> SUFFICES ASSUME NEW n \in Nonces
               PROVE  HeldAt(store', n, Accounts) + TravelsOn(wire', n) + ListsTravel(multi', n) = supply'[n]
    BY DEF MultiConserved, HeldAt, TravelsOn, ListsTravel, ItemValue, ValueOf
  <2> DEFINE h == HeldAt(store, n, Accounts)
             h2 == HeldAt(store', n, Accounts)
             t == TravelsOn(wire, n)
             l == ListsTravel(multi, n)
             l2 == ListsTravel(multi', n)
  <2>1. h2 + l2 = h + l /\ h + t + l = supply[n]
    BY <1>2 DEF ListSumsKept, MultiConserved
  <2>2. h \in Int /\ t \in Int /\ l \in Int /\ supply[n] \in Int
    BY <1>0, SumTypes, ListHoldings
  <2>3. h2 \in Int /\ l2 \in Int
    <3>1. store' \in StoreType /\ multi' \in ListWires
      BY <1>0 DEF MultiTypeOK, TypeOK, ListWires
    <3> QED
      BY <3>1, HeldIsNat, ListsTravelType
  <2>4. TravelsOn(wire', n) = t /\ supply' = supply
    BY <1>2 DEF ListStep
  <2> HIDE DEF h, h2, t, l, l2
  <2>5. h2 + t + l2 = supply[n]
    BY <2>1, <2>2, <2>3
  <2> QED
    BY <2>4, <2>5 DEF h2, l2
<1>3. ASSUME NEW a \in Accounts, NEW b \in Accounts, NEW items \in Lists, NEW call \in BOOLEAN,
             MultiInShard(a, b, items, call)
      PROVE  MultiConserved'
  BY <1>2, <1>3, ListSteps, InShardConserves
<1>4. ASSUME NEW k \in 1..MultiSlots, NEW a \in Accounts, NEW b \in Accounts, NEW items \in Lists,
             NEW call \in BOOLEAN, MultiLeaves(k, a, b, items, call)
      PROVE  MultiConserved'
  BY <1>2, <1>4, ListSteps, LeavesConserves
<1>5. ASSUME NEW k \in 1..MultiSlots, MultiArrives(k) \/ MultiFails(k)
      PROVE  MultiConserved'
  <2>1. ListStep
    BY <1>5, ListSteps
  <2>2. ListSumsKept
    BY <1>5, ArrivesConserves, FailsConserves
  <2> QED
    BY <1>2, <2>1, <2>2
<1> QED
  BY <1>1, <1>3, <1>4, <1>5, MultiSteps

\* No list makes or loses a token, whatever nonces it names how often, whether
\* it stays in its shard, arrives, fails in the middle or comes back, with all
\* the other functions running beside it.
THEOREM MultiSupply ==
    ASSUME ~MultiShard, SerialHandover, ReturnFlags \subseteq InitFlags
    PROVE  MultiSpec => []MultiSupplyConserved
<1>1. MultiInit => MultiConserved
  BY MultiConservedAtFirst
<1>2. MultiTypeOK /\ MultiBlankBefore /\ ListsAreShort /\ FlagsOn(ReturnFlags) /\ AllCarryMetaData
        /\ ListsCarryMetaData /\ MultiConserved /\ NonceNeverReused' /\ [MultiNext]_multiVars
        => MultiConserved'
  BY MultiStepConserves
<1>3. MultiTypeOK /\ MultiConserved => MultiSupplyConserved
  BY MultiConservedIsSupply
<1> QED
  BY <1>1, <1>2, <1>3, MultiTypeCorrect, MultiBlank, ShortLists, MultiCarriesMetaData, MultiNoncesAreUnique,
     PTL DEF MultiSpec

-----------------------------------------------------------------------------
\* What an item does to the liquidity of its shards.
LEMMA ItemMovedMatches ==
    ASSUME NEW st \in StoreType, Matches(st, st), NEW a \in Accounts, NEW b \in Accounts,
           ShardOf[a] = ShardOf[b], NEW x \in ListItem, ~ItemRefused(st, a, b, x),
           NEW new, new = ItemMoved(st, a, b, x)
    PROVE  Matches(new, new)
<1> DEFINE n == x.nonce
           q == x.value
           tok == ItemToken(st, a, x)
<1>1. /\ n \in Nonces /\ q \in Nat /\ q <= st.entry[a][n].value /\ tok \in Entry /\ tok.value = q
      /\ new = Added(Taken(st, a, n, q), a, b, n, tok)
  BY ItemMovedIs
<1> HIDE DEF n, q, tok
<1> QED
  BY <1>1, MovedMatches

LEMMA ItemSentMatches ==
    ASSUME TracksLiquidity, NEW st \in StoreType, Matches(st, st), NEW a \in Accounts, NEW b \in Accounts,
           NEW x \in ListItem, ~ItemRefused(st, a, b, x),
           ~LiquidityRefused(ItemTaken(st, a, x), ShardOf[a], x.nonce, -x.value),
           NEW new, new = ItemSent(st, a, x)
    PROVE  Matches(new, new)
<1> DEFINE n == x.nonce
           q == x.value
           s == ShardOf[a]
           tok == [Token(st, a, n) EXCEPT !.value = Token(st, a, n).value - q]
           mid == SaveToken(st, a, a, n, tok, FALSE)
<1>1. n \in Nonces /\ n \in Keys /\ q \in Nat /\ -q \in Int
  BY ListItemTypes
<1>2. q <= st.entry[a][n].value
  BY NotRefused
<1>3. ItemTaken(st, a, x) = mid
  BY DEF ItemTaken, Taken
<1>4. ~LiquidityRefused(mid, s, n, -q) /\ new = AddToLiquidity(mid, s, n, -q)
  BY <1>3 DEF ItemSent
<1> HIDE DEF n, q
<1>5. Token(st, a, n).value - q \in Nat /\ Token(st, a, n).value = st.entry[a][n].value
  BY <1>1, <1>2, TokenRead, BalanceType
<1>6. tok \in Entry /\ tok.value = st.entry[a][n].value + (-q)
  <2> DEFINE w == Token(st, a, n).value - q
  <2>1. w \in Nat /\ w = st.entry[a][n].value + (-q)
    BY <1>1, <1>2, <1>5, BalanceType
  <2> HIDE DEF w
  <2>2. [Token(st, a, n) EXCEPT !.value = w] \in Entry /\ [Token(st, a, n) EXCEPT !.value = w].value = w
    BY <1>1, <2>1, TokenWithValue
  <2> QED
    BY <2>1, <2>2 DEF w
<1> HIDE DEF tok
<1> QED
  BY <1>1, <1>4, <1>6, SavedAndCounted

LEMMA ItemCreditedMatches ==
    ASSUME TracksLiquidity, NEW st \in StoreType, Matches(st, st), NEW m, m.from \in Accounts, m.to \in Accounts,
           NEW x \in ItemType,
           ~LiquidityRefused(ItemAdded(st, m, x), ShardOf[m.to], x.nonce, Decoded(x).value),
           NEW new, new = ItemCredited(st, m, x)
    PROVE  Matches(new, new)
<1> DEFINE n == x.nonce
           tok == Decoded(x)
           v == tok.value
           to == m.to
           from == m.from
           s == ShardOf[to]
           sum == [tok EXCEPT !.value = tok.value + st.entry[to][n].value]
           mid == SaveToken(st, from, to, n, sum, FALSE)
<1>1. n \in Nonces /\ tok \in Entry /\ v \in Nat /\ n \in Keys
  BY DecodedType, ConstantTypes DEF Entry
<1>2. from \in Accounts /\ to \in Accounts
  OBVIOUS
<1>3. ItemAdded(st, m, x) = mid
  BY DEF ItemAdded, Added
<1>4. ~LiquidityRefused(mid, s, n, v) /\ new = AddToLiquidity(mid, s, n, v)
  BY <1>3 DEF ItemCredited
<1>5. v = tok.value
  OBVIOUS
<1> HIDE DEF n, tok, v, to, from
<1>6. st.entry[to][n].value \in Nat
  BY <1>1, <1>2, BalanceType
<1>7. sum \in Entry /\ sum.value = st.entry[to][n].value + v
  BY <1>1, <1>5, <1>6 DEF Entry
<1>8. v \in Int
  BY <1>1
<1> HIDE DEF sum
<1> QED
  BY <1>1, <1>2, <1>4, <1>7, <1>8, SavedAndCounted

\* What a list does, from one store to the next.
LEMMA MatchesAlong ==
    ASSUME NEW N \in Nat, NEW after, Matches(after[0], after[0]),
           \A i \in 1..N : Matches(after[i - 1], after[i - 1]) => Matches(after[i], after[i])
    PROVE  Matches(after[N], after[N])
<1> DEFINE T == {i \in 0..N : Matches(after[i], after[i])}
<1>1. 0 \in T
  OBVIOUS
<1>2. ASSUME NEW i \in 1..N, i - 1 \in T
      PROVE  i \in T
  BY <1>2
<1>3. \A i \in 0..N : i \in T
  <2> HIDE DEF T
  <2> QED
    BY <1>1, <1>2, ListInduction
<1>4. N \in 0..N
  OBVIOUS
<1> QED
  BY <1>3, <1>4

LEMMA InShardListMatches ==
    ASSUME TypeOK, Matches(store, store), NEW a \in Accounts, NEW b \in Accounts, NEW items \in Lists,
           NEW call \in BOOLEAN, MultiInShard(a, b, items, call)
    PROVE  Matches(store', store')
<1> DEFINE after == MultiMoved(a, b, items)
           N == Len(items)
<1>1. N \in Nat /\ \A i \in 1..N : items[i] \in ListItem
  BY ListTypes
<1>2. after = MultiMoved(a, b, items)
  OBVIOUS
<1> HIDE DEF after
<1>3. /\ ShardOf[a] = ShardOf[b] /\ after[0] = store /\ store' = after[N]
      /\ \A i \in 0..N : after[i] \in StoreType
      /\ \A i \in 1..N : after[i] = ItemMoved(after[i - 1], a, b, items[i])
                         /\ ~ItemRefused(after[i - 1], a, b, items[i])
  BY <1>2, InShardSteps
<1>4. ASSUME NEW i \in 1..N, Matches(after[i - 1], after[i - 1])
      PROVE  Matches(after[i], after[i])
  <2>1. i - 1 \in 0..N
    BY <1>1
  <2>2. after[i - 1] \in StoreType /\ items[i] \in ListItem
    BY <1>1, <1>3, <2>1
  <2> QED
    BY <1>3, <1>4, <2>2, ItemMovedMatches
<1>5. Matches(after[N], after[N])
  <2>1. Matches(after[0], after[0])
    BY <1>3
  <2> HIDE DEF N
  <2> QED
    BY <1>1, <1>4, <2>1, MatchesAlong
<1> QED
  BY <1>3, <1>5

LEMMA LeavesListMatches ==
    ASSUME TypeOK, TracksLiquidity, Matches(store, store), NEW k \in 1..MultiSlots,
           NEW a \in Accounts, NEW b \in Accounts, NEW items \in Lists, NEW call \in BOOLEAN,
           MultiLeaves(k, a, b, items, call)
    PROVE  Matches(store', store')
<1> DEFINE sent == MultiSent(a, items)
           N == Len(items)
<1>1. N \in Nat /\ \A i \in 1..N : items[i] \in ListItem
  BY ListTypes
<1>2. sent = MultiSent(a, items)
  OBVIOUS
<1> HIDE DEF sent
<1>3. /\ sent[0] = store
      /\ \A i \in 0..N : sent[i] \in StoreType
      /\ \A i \in 1..N : /\ sent[i] = ItemSent(sent[i - 1], a, items[i])
                         /\ ~ItemRefused(sent[i - 1], a, b, items[i])
                         /\ ~LiquidityRefused(ItemTaken(sent[i - 1], a, items[i]), ShardOf[a],
                                              items[i].nonce, -items[i].value)
  BY <1>2, LeavesSteps
<1>4. store' = sent[N]
  BY <1>2, LeavesStore DEF TracksLiquidity
<1>5. ASSUME NEW i \in 1..N, Matches(sent[i - 1], sent[i - 1])
      PROVE  Matches(sent[i], sent[i])
  <2>1. i - 1 \in 0..N
    BY <1>1
  <2>2. sent[i - 1] \in StoreType /\ items[i] \in ListItem
    BY <1>1, <1>3, <2>1
  <2> QED
    BY <1>3, <1>5, <2>2, ItemSentMatches
<1>6. Matches(sent[N], sent[N])
  <2>1. Matches(sent[0], sent[0])
    BY <1>3
  <2> HIDE DEF N
  <2> QED
    BY <1>1, <1>5, <2>1, MatchesAlong
<1> QED
  BY <1>4, <1>6

LEMMA ArrivesListMatches ==
    ASSUME MultiTypeOK, TracksLiquidity, Matches(store, store), NEW k \in 1..MultiSlots, MultiArrives(k)
    PROVE  Matches(store', store')
<1> DEFINE m == multi[k]
           after == MultiCredited(m)
           N == Len(m.items)
<1>1. m.from \in Accounts /\ m.to \in Accounts /\ N \in Nat /\ \A i \in 1..N : m.items[i] \in ItemType
  BY MultiTypes DEF MultiArrives
<1>2. m = multi[k] /\ after = MultiCredited(m)
  OBVIOUS
<1> HIDE DEF m, after
<1>3. /\ after[0] = store /\ store' = after[N]
      /\ \A i \in 0..N : after[i] \in StoreType
      /\ \A i \in 1..N :
            /\ after[i] = ItemCredited(after[i - 1], m, m.items[i])
            /\ ~LiquidityRefused(ItemAdded(after[i - 1], m, m.items[i]), ShardOf[m.to], m.items[i].nonce,
                                 Decoded(m.items[i]).value)
  BY <1>2, ArrivesSteps
<1>4. ASSUME NEW i \in 1..N, Matches(after[i - 1], after[i - 1])
      PROVE  Matches(after[i], after[i])
  <2>1. i - 1 \in 0..N
    BY <1>1
  <2>2. after[i - 1] \in StoreType /\ m.items[i] \in ItemType
    BY <1>1, <1>3, <2>1
  <2> QED
    BY <1>1, <1>3, <1>4, <2>2, ItemCreditedMatches
<1>5. Matches(after[N], after[N])
  <2>1. Matches(after[0], after[0])
    BY <1>3
  <2> HIDE DEF N
  <2> QED
    BY <1>1, <1>4, <2>1, MatchesAlong
<1> QED
  BY <1>3, <1>5

LEMMA MultiStepMatches ==
    ASSUME LiquidityFlags \subseteq InitFlags, "metadata" \notin Operations,
           MultiTypeOK, FlagsOn(LiquidityFlags), Matches(store, store), [MultiNext]_multiVars,
           [OnlyWholeKeysWiped]_vars
    PROVE  Matches(store', store')
<1>0. TypeOK /\ TracksLiquidity
  BY DEF MultiTypeOK, FlagsOn, LiquidityFlags, TracksLiquidity
<1>1. CASE [Next]_vars
  BY <1>0, <1>1, StepMatches
<1>2. ASSUME NEW a \in Accounts, NEW b \in Accounts, NEW items \in Lists, NEW call \in BOOLEAN,
             MultiInShard(a, b, items, call)
      PROVE  Matches(store', store')
  BY <1>0, <1>2, InShardListMatches
<1>3. ASSUME NEW k \in 1..MultiSlots, NEW a \in Accounts, NEW b \in Accounts, NEW items \in Lists,
             NEW call \in BOOLEAN, MultiLeaves(k, a, b, items, call)
      PROVE  Matches(store', store')
  BY <1>0, <1>3, LeavesListMatches
<1>4. ASSUME NEW k \in 1..MultiSlots, MultiArrives(k)
      PROVE  Matches(store', store')
  BY <1>0, <1>4, ArrivesListMatches
<1>5. ASSUME NEW k \in 1..MultiSlots, MultiFails(k)
      PROVE  Matches(store', store')
  <2>1. store' = store
    BY <1>0, <1>5, FailsSteps DEF TracksLiquidity
  <2> QED
    BY <2>1
<1> QED
  BY <1>1, <1>2, <1>3, <1>4, <1>5, MultiSteps

\* With lists as well the liquidity tracked on a shard is what its accounts
\* hold, under the conditions of LiquidityIsHeld: each item is counted with the
\* quantity that was added to the balance, even one the destination misreads.
THEOREM MultiLiquidityIsHeld ==
    ASSUME LiquidityFlags \subseteq InitFlags, "metadata" \notin Operations
    PROVE  MultiSpec /\ [][OnlyWholeKeysWiped]_vars => []LiquidityMatchesHoldings
<1>1. MultiInit => Matches(store, store)
  BY NothingTrackedAtFirst DEF MultiInit
<1>2. MultiTypeOK /\ FlagsOn(LiquidityFlags) /\ Matches(store, store) /\ [MultiNext]_multiVars
        /\ [OnlyWholeKeysWiped]_vars => Matches(store', store')
  BY MultiStepMatches
<1>3. Matches(store, store) => LiquidityMatchesHoldings
  BY MatchingIsLiquidity
<1>4. (MultiInit => FlagsOn(LiquidityFlags))
        /\ (FlagsOn(LiquidityFlags) /\ [MultiNext]_multiVars => FlagsOn(LiquidityFlags)')
  BY MultiFlagsStay
<1>5. Matches(store, store)' <=> Matches(store', store')
  BY DEF Matches, Agrees, HeldAt
<1> QED
  BY <1>1, <1>2, <1>3, <1>4, <1>5, MultiTypeCorrect, PTL DEF MultiSpec

\* Under the same conditions every holder can read the metadata of what it
\* holds, whether a transfer or a list has brought it.
THEOREM MultiHoldersReadMetaData ==
    ASSUME LiquidityFlags \subseteq InitFlags, "metadata" \notin Operations
    PROVE  MultiSpec /\ [][OnlyWholeKeysWiped]_vars => []MultiMetaDataReachesHolders
<1>1. MultiTypeOK /\ FlagsOn(LiquidityFlags) /\ LiquidityMatchesHoldings => MultiMetaDataReachesHolders
  BY HeldIsRead DEF MultiMetaDataReachesHolders, MultiTypeOK
<1>2. (MultiInit => FlagsOn(LiquidityFlags))
        /\ (FlagsOn(LiquidityFlags) /\ [MultiNext]_multiVars => FlagsOn(LiquidityFlags)')
  BY MultiFlagsStay
<1> QED
  BY <1>1, <1>2, MultiLiquidityIsHeld, MultiTypeCorrect, PTL DEF MultiSpec
-----------------------------------------------------------------------------
\* Frozen and paused holdings beside lists.

\* What is asked of a holding of n before it is changed is still so in st.
SameHolding(st, c, n) == st.entry[c][n] = store.entry[c][n] /\ st.entry[c][0] = store.entry[c][0]

\* An item that takes from a holding held still is refused ...
LEMMA HeldIsNotTaken ==
    ASSUME NEW st \in StoreType, NEW a \in Accounts, NEW b, NEW x \in ListItem, ~ItemRefused(st, a, b, x),
           NEW n \in Nonces, HeldStill(a, n), SameHolding(st, a, n)
    PROVE  x.nonce # n
<1> SUFFICES ASSUME x.nonce = n PROVE FALSE
  OBVIOUS
<1>1. ~Refused(st, a, Token(st, a, n), FALSE)
  BY NotRefused
<1>2. Token(st, a, n).frozen = store.entry[a][n].frozen
  BY TokenRead DEF SameHolding
<1> QED
  BY <1>1, <1>2, HeldStillIsRefused DEF SameHolding

\* ... and so is one that adds to it, unless it comes back.
LEMMA HeldIsNotAdded ==
    ASSUME NEW st, NEW b \in Accounts, NEW n \in Nonces, NEW tok, HeldStill(b, n), SameHolding(st, b, n)
    PROVE  AddRefused(st, b, n, tok, FALSE)
BY HeldStillIsRefused DEF SameHolding

\* An entry that no store of the list differs in from the one before is, after
\* the list, what it was.
LEMMA HoldingStays ==
    ASSUME NEW N \in Nat, NEW after, NEW c \in Accounts, NEW n \in Nonces, after[0] = store,
           \A i \in 1..N : SameHolding(after[i - 1], c, n) => SameHolding(after[i], c, n)
    PROVE  SameHolding(after[N], c, n)
<1> DEFINE T == {i \in 0..N : SameHolding(after[i], c, n)}
<1>1. 0 \in T
  BY DEF SameHolding
<1>2. ASSUME NEW i \in 1..N, i - 1 \in T
      PROVE  i \in T
  BY <1>2
<1>3. \A i \in 0..N : i \in T
  <2> HIDE DEF T
  <2> QED
    BY <1>1, <1>2, ListInduction
<1> QED
  BY <1>3

\* An item that moves within a shard writes the two entries of its nonce.
LEMMA ItemMovedTouches ==
    ASSUME NEW st \in StoreType, NEW a \in Accounts, NEW b \in Accounts, NEW x \in ListItem,
           ~ItemRefused(st, a, b, x)
    PROVE  /\ \A c \in Accounts, k \in Keys : c \notin {a, b} \/ k # x.nonce =>
                  ItemMoved(st, a, b, x).entry[c][k] = st.entry[c][k]
           /\ \A c \in Accounts, k \in Keys : c # a \/ k # x.nonce =>
                  ItemTaken(st, a, x).entry[c][k] = st.entry[c][k]
<1> DEFINE n == x.nonce
           q == x.value
           tok == ItemToken(st, a, x)
           mid == Taken(st, a, n, q)
<1>1. /\ n \in Nonces /\ q \in Nat /\ q <= st.entry[a][n].value /\ tok \in Entry /\ tok.value = q
      /\ ItemMoved(st, a, b, x) = Added(mid, a, b, n, tok)
  BY ItemMovedIs
<1>2. ItemTaken(st, a, x) = mid
  BY DEF ItemTaken
<1> HIDE DEF n, q, tok
<1>3. mid \in StoreType /\ OnlyWrites(st, mid, a, ShardOf[a], n)
  BY <1>1, TakenWrites
<1> HIDE DEF mid
<1>4. OnlyWrites(mid, Added(mid, a, b, n, tok), b, ShardOf[b], n)
  BY <1>1, <1>3, AddedWrites
<1> QED
  BY <1>1, <1>2, <1>3, <1>4 DEF OnlyWrites, n

LEMMA InShardHoldingsStand ==
    ASSUME TypeOK, NEW c \in Accounts, NEW n \in Nonces, HeldStill(c, n),
           NEW a \in Accounts, NEW b \in Accounts, NEW items \in Lists, NEW call \in BOOLEAN,
           MultiInShard(a, b, items, call)
    PROVE  SameHolding(store', c, n)
<1> DEFINE after == MultiMoved(a, b, items)
           N == Len(items)
           Adds(st, x) == ~AddRefused(ItemTaken(st, a, x), b, x.nonce, ItemToken(st, a, x), FALSE)
<1>1. N \in Nat /\ \A i \in 1..N : items[i] \in ListItem
  BY ListTypes
<1>2. a # b /\ \A i \in 1..N : Adds(after[i - 1], items[i])
  BY DEF MultiInShard
<1>3. after = MultiMoved(a, b, items)
  OBVIOUS
<1> HIDE DEF after
<1>4. /\ after[0] = store /\ store' = after[N]
      /\ \A i \in 0..N : after[i] \in StoreType
      /\ \A i \in 1..N : after[i] = ItemMoved(after[i - 1], a, b, items[i])
                         /\ ~ItemRefused(after[i - 1], a, b, items[i])
  BY <1>3, InShardSteps
<1>5. ASSUME NEW i \in 1..N, SameHolding(after[i - 1], c, n)
      PROVE  SameHolding(after[i], c, n)
  <2> DEFINE st == after[i - 1]
             x == items[i]
  <2>1. i - 1 \in 0..N
    BY <1>1
  <2>2. /\ st \in StoreType /\ x \in ListItem /\ ~ItemRefused(st, a, b, x) /\ Adds(st, x)
        /\ after[i] = ItemMoved(st, a, b, x)
    BY <1>1, <1>2, <1>4, <2>1
  <2>3. SameHolding(st, c, n)
    BY <1>5
  <2> HIDE DEF st, x
  <2>4. x.nonce \in Nonces /\ x.nonce # 0 /\ n \in Keys /\ 0 \in Keys
    BY <2>2, ListItemTypes, KeysAreNonces
  <2>5. CASE c \notin {a, b} \/ x.nonce # n
    BY <2>2, <2>3, <2>4, <2>5, ItemMovedTouches DEF SameHolding
  <2>6. CASE c = a
    BY <2>2, <2>3, <2>5, <2>6, HeldIsNotTaken
  <2>7. CASE c = b /\ x.nonce = n
    <3>1. SameHolding(ItemTaken(st, a, x), b, n)
      BY <1>2, <2>2, <2>3, <2>4, <2>7, ItemMovedTouches DEF SameHolding
    <3> QED
      BY <2>2, <2>7, <3>1, HeldIsNotAdded
  <2> QED
    BY <2>5, <2>6, <2>7
<1> QED
  <2> HIDE DEF N
  <2> QED
    BY <1>1, <1>4, <1>5, HoldingStays

\* A list that changes one account's entries of its nonces, none of them n,
\* leaves the holding of n.
LEMMA ChangedHolding ==
    ASSUME NEW st, NEW st2, NEW a, NEW k \in Nonces, NEW delta, Changed(st, st2, a, k, delta),
           NEW c \in Accounts, NEW n \in Nonces, c # a \/ n # k, SameHolding(st, c, n)
    PROVE  SameHolding(st2, c, n)
BY KeysAreNonces DEF Changed, SameHolding

LEMMA LeavingHoldingsStand ==
    ASSUME TypeOK, NEW c \in Accounts, NEW n \in Nonces, HeldStill(c, n), NEW k \in 1..MultiSlots,
           NEW a \in Accounts, NEW b \in Accounts, NEW items \in Lists, NEW call \in BOOLEAN,
           MultiLeaves(k, a, b, items, call)
    PROVE  SameHolding(store', c, n)
<1> DEFINE sent == MultiSent(a, items)
           N == Len(items)
<1>1. N \in Nat /\ \A i \in 1..N : items[i] \in ListItem
  BY ListTypes
<1>2. sent = MultiSent(a, items)
  OBVIOUS
<1> HIDE DEF sent
<1>3. /\ sent[0] = store
      /\ \A i \in 0..N : sent[i] \in StoreType
      /\ \A i \in 1..N : ~ItemRefused(sent[i - 1], a, b, items[i])
                         /\ Changed(sent[i - 1], sent[i], a, items[i].nonce, -items[i].value)
  BY <1>2, LeavesSteps
<1>4. store'.entry = sent[N].entry
  BY <1>2, LeavesStore
<1>5. ASSUME NEW i \in 1..N, SameHolding(sent[i - 1], c, n)
      PROVE  SameHolding(sent[i], c, n)
  <2> DEFINE st == sent[i - 1]
             st2 == sent[i]
             x == items[i]
             v == -x.value
  <2>1. i - 1 \in 0..N
    BY <1>1
  <2>2. st \in StoreType /\ x \in ListItem /\ ~ItemRefused(st, a, b, x) /\ Changed(st, st2, a, x.nonce, v)
    BY <1>1, <1>3, <2>1
  <2>3. SameHolding(st, c, n)
    BY <1>5
  <2> HIDE DEF st, st2, x, v
  <2>4. c # a \/ n # x.nonce
    BY <2>2, <2>3, HeldIsNotTaken
  <2>5. x.nonce \in Nonces
    BY <2>2, ListItemTypes
  <2>6. SameHolding(st2, c, n)
    BY <2>2, <2>3, <2>4, <2>5, ChangedHolding
  <2> QED
    BY <2>6 DEF st2
<1>6. SameHolding(sent[N], c, n)
  <2> HIDE DEF N
  <2> QED
    BY <1>1, <1>3, <1>5, HoldingStays
<1> QED
  BY <1>4, <1>6 DEF SameHolding

\* A list that arrives for the first time is refused by a holding it would
\* change; one that comes back adds to it.
LEMMA ArrivingHoldingsStand ==
    ASSUME MultiTypeOK, NEW c \in Accounts, NEW n \in Nonces, HeldStill(c, n),
           NEW k \in 1..MultiSlots, MultiArrives(k), Balance(c, n)' # Balance(c, n)
    PROVE  MultiReturnedNow(c, n)
<1> DEFINE m == multi[k]
           items == m.items
           N == Len(items)
           after == MultiCredited(m)
           Adds(i) == ~AddRefused(after[i - 1], m.to, items[i].nonce, Decoded(items[i]), m.phase = "returning")
           Goes(i) == Changed(after[i - 1], after[i], m.to, items[i].nonce, Decoded(items[i]).value)
<1>1. /\ m # Free /\ m \in MultiType /\ m.to \in Accounts /\ N \in Nat
      /\ \A i \in 1..N : items[i] \in ItemType /\ items[i].nonce \in Nonces
  BY MultiTypes DEF MultiArrives
<1>2. multi' = [multi EXCEPT ![k] = Free] /\ multi \in [1..MultiSlots -> MultiType \union {Free}]
  BY DEF MultiArrives, MultiTypeOK
<1>3. m = multi[k] /\ after = MultiCredited(m)
  OBVIOUS
<1> HIDE DEF m, after
<1>4. /\ after[0] = store /\ store' = after[N]
      /\ \A i \in 0..N : after[i] \in StoreType
      /\ \A i \in 1..N : Adds(i) /\ Goes(i)
  BY <1>3, ArrivesSteps
<1> HIDE DEF Adds, Goes, items, N
<1>5. ~SameHolding(store', c, n)
  BY DEF SameHolding, Balance
<1>6. \E i \in 1..N : SameHolding(after[i - 1], c, n) /\ ~SameHolding(after[i], c, n)
  BY <1>1, <1>4, <1>5, HoldingStays
<1>7. PICK i \in 1..N : SameHolding(after[i - 1], c, n) /\ ~SameHolding(after[i], c, n)
  BY <1>6
<1>8. c = m.to /\ items[i].nonce = n
  <2> DEFINE v == Decoded(items[i]).value
  <2>1. Changed(after[i - 1], after[i], m.to, items[i].nonce, v) /\ items[i].nonce \in Nonces
    BY <1>1, <1>4 DEF Goes
  <2> HIDE DEF v
  <2> QED
    BY <1>7, <2>1, ChangedHolding
<1>9. m.phase = "returning"
  <2>1. ~AddRefused(after[i - 1], c, n, Decoded(items[i]), m.phase = "returning")
    BY <1>4, <1>8 DEF Adds
  <2>2. AddRefused(after[i - 1], c, n, Decoded(items[i]), FALSE)
    BY <1>7, HeldIsNotAdded
  <2>3. m.phase # "returning" => (m.phase = "returning") = FALSE
    OBVIOUS
  <2> QED
    BY <2>1, <2>2, <2>3
<1>10. Balance(c, n)' > Balance(c, n)
  <2> DEFINE Grown(u) == u.entry[c][n].value >= store.entry[c][n].value
             T == {j \in 0..N : Grown(after[j])}
  <2>1. n \in Keys /\ store \in StoreType
    BY <1>1, ConstantTypes DEF MultiTypeOK, TypeOK
  <2>2. 0 \in T
    BY <1>1, <1>4, <2>1, BalanceType
  <2>3. ASSUME NEW j \in 1..N, j - 1 \in T
        PROVE  j \in T
    <3> DEFINE st == after[j - 1]
               st2 == after[j]
               v == Decoded(items[j]).value
               key == items[j].nonce
    <3>1. j - 1 \in 0..N /\ j \in 0..N
      BY <1>1
    <3>2. v \in Nat
      BY <1>1, DecodedType DEF Entry
    <3>3. Changed(st, st2, m.to, key, v) /\ Grown(st) /\ st \in StoreType
      BY <1>4, <2>3, <3>1 DEF Goes
    <3> HIDE DEF st, st2, v, key
    <3>4. /\ st2.entry[m.to][key].value = st.entry[m.to][key].value + v
          /\ c # m.to \/ n # key => st2.entry[c][n] = st.entry[c][n]
      BY <2>1, <3>3 DEF Changed
    <3>5. st.entry[c][n].value \in Nat /\ store.entry[c][n].value \in Nat
      BY <2>1, <3>3, BalanceType
    <3>6. Grown(st2)
      BY <3>2, <3>3, <3>4, <3>5
    <3> QED
      BY <3>1, <3>6 DEF st2
  <2>4. \A j \in 0..N : j \in T
    <3> HIDE DEF T
    <3> QED
      BY <1>1, <2>2, <2>3, ListInduction
  <2>5. N \in 0..N
    BY <1>1
  <2>6. Grown(store') /\ store' \in StoreType
    BY <1>4, <2>4, <2>5
  <2>7. store'.entry[c][n].value \in Nat /\ store.entry[c][n].value \in Nat
    BY <2>1, <2>6, BalanceType
  <2> QED
    BY <2>6, <2>7 DEF Balance
<1> QED
  BY <1>1, <1>2, <1>3, <1>8, <1>9, <1>10 DEF MultiReturnedNow, items, N

LEMMA MultiStepStandsStill ==
    ASSUME MultiTypeOK, [MultiNext]_multiVars, NEW c \in Accounts, NEW n \in Nonces, HeldStill(c, n),
           Balance(c, n)' # Balance(c, n)
    PROVE  \/ WipedNow(c, n) \/ ReturnedNow(c, n) \/ minted'[n] # minted[n]
           \/ MultiReturnedNow(c, n)
<1>0. TypeOK
  BY DEF MultiTypeOK
<1>1. CASE [Next]_vars
  <2>1. /\ store'.entry[c][n] # store.entry[c][n]
        /\ store'.entry[c][n].value # store.entry[c][n].value
    BY DEF Balance
  <2>2. \/ WipedNow(c, n) \/ ReturnedNow(c, n) \/ minted'[n] # minted[n]
        \/ \E v \in BOOLEAN : Freeze(c, n, v)
    BY <1>0, <1>1, <2>1, StepStandsStill DEF StandsStill
  <2>3. ~\E v \in BOOLEAN : Freeze(c, n, v)
    BY <1>0, <2>1, KeysAreNonces, FreezeTouches
  <2> QED
    BY <2>2, <2>3
<1>2. ~SameHolding(store', c, n)
  BY DEF SameHolding, Balance
<1>3. ASSUME NEW a \in Accounts, NEW b \in Accounts, NEW items \in Lists, NEW call \in BOOLEAN,
             MultiInShard(a, b, items, call)
      PROVE  FALSE
  BY <1>0, <1>2, <1>3, InShardHoldingsStand
<1>4. ASSUME NEW k \in 1..MultiSlots, NEW a \in Accounts, NEW b \in Accounts, NEW items \in Lists,
             NEW call \in BOOLEAN, MultiLeaves(k, a, b, items, call)
      PROVE  FALSE
  BY <1>0, <1>2, <1>4, LeavingHoldingsStand
<1>5. ASSUME NEW k \in 1..MultiSlots, MultiFails(k)
      PROVE  FALSE
  <2>1. store'.entry = store.entry
    BY <1>5, FailsSteps
  <2> QED
    BY <1>2, <2>1 DEF SameHolding
<1>6. ASSUME NEW k \in 1..MultiSlots, MultiArrives(k)
      PROVE  MultiReturnedNow(c, n)
  BY <1>6, ArrivingHoldingsStand
<1> QED
  BY <1>1, <1>3, <1>4, <1>5, <1>6, MultiSteps

\* A frozen or paused holding changes only when it is wiped, when its nonce is
\* created, or when a transfer or a list that failed comes back to it, which
\* adds to it: neither half of MultiDCTNFTTransfer reaches it otherwise.
THEOREM MultiHeldHoldingsStand == MultiSpec => MultiHeldStillStands
<1>1. MultiTypeOK /\ [MultiNext]_multiVars =>
        [\A a \in Accounts, n \in Nonces :
            HeldStill(a, n) /\ Balance(a, n)' # Balance(a, n) =>
                \/ WipedNow(a, n) \/ ReturnedNow(a, n) \/ minted'[n] # minted[n]
                \/ MultiReturnedNow(a, n)]_multiVars
  BY MultiStepStandsStill
<1> QED
  BY <1>1, MultiTypeCorrect, PTL DEF MultiSpec, MultiHeldStillStands
-----------------------------------------------------------------------------
\* A list of one item beside the transfer of it.

\* Both senders ask the same of one item that moves something.
LEMMA OneIsAsked ==
    ASSUME NEW a, NEW b, a # b, NEW n, NEW q \in Nat, q # 0, NEW x, x = [nonce |-> n, value |-> q],
           store.entry[a][n].value \in Nat
    PROVE  ~ItemRefused(store, a, b, x) <=> CanSend(a, b, n, q)
<1>1. x.nonce = n /\ x.value = q /\ q > 0
  OBVIOUS
<1>2. ~(q > store.entry[a][n].value) <=> q <= store.entry[a][n].value
  OBVIOUS
<1> QED
  BY <1>1, <1>2 DEF ItemRefused, CanSend

\* Within a shard MultiDCTNFTTransfer of one item does what DCTNFTTransfer of
\* it does, and refuses what that refuses (multiDCTNFTTransfer.go:322 and
\* dctNFTTransfer.go:196 are written apart).
THEOREM OneItemInShard ==
    ASSUME MultiTypeOK, NEW a \in Accounts, NEW b \in Accounts, NEW n \in Nonces, NEW q \in Nat, q # 0,
           NEW call \in BOOLEAN, {"transfer", "multi"} \subseteq Operations
    PROVE  MultiInShard(a, b, <<[nonce |-> n, value |-> q]>>, call)
             <=> TransferInShard(a, b, n, q, call) /\ UNCHANGED multi
<1> DEFINE x == [nonce |-> n, value |-> q]
           items == <<x>>
           after == MultiMoved(a, b, items)
           tok == [Token(store, a, n) EXCEPT !.value = q]
           mid == Taken(store, a, n, q)
           Adds(st, y) == ~AddRefused(ItemTaken(st, a, y), b, y.nonce, ItemToken(st, a, y), FALSE)
<1>1. Len(items) = 1 /\ items[1] = x /\ x.nonce = n /\ x.value = q
  OBVIOUS
<1>2. after[0] = store /\ after[1] = ItemMoved(store, a, b, x)
  <2>1. Len(items) \in Nat /\ 1 \in 1..Len(items) /\ items[1] = x
    BY <1>1
  <2>2. after = MultiMoved(a, b, items)
    OBVIOUS
  <2> HIDE DEF after, items, x
  <2>3. after[0] = store /\ \A i \in 1..Len(items) : after[i] = ItemMoved(after[i - 1], a, b, items[i])
    BY <2>1, <2>2, MovedStores
  <2>4. after[1] = ItemMoved(after[1 - 1], a, b, items[1])
    BY <2>1, <2>3
  <2>5. 1 - 1 = 0
    OBVIOUS
  <2> QED
    BY <2>1, <2>3, <2>4, <2>5
<1>3. ItemTaken(store, a, x) = mid /\ ItemToken(store, a, x) = tok
  BY <1>1 DEF ItemTaken, ItemToken
<1>4. ItemMoved(store, a, b, x) = Added(mid, a, b, n, tok)
  BY <1>1, <1>3 DEF ItemMoved
<1>5. store.entry[a][n].value \in Nat
  BY BalanceType, ConstantTypes DEF MultiTypeOK, TypeOK
<1>6. a # b => (~ItemRefused(store, a, b, x) <=> CanSend(a, b, n, q))
  BY <1>5, OneIsAsked
<1>7. MultiInShard(a, b, items, call) <=>
         /\ a # b /\ ShardOf[a] = ShardOf[b] /\ Payable(b, call, FALSE)
         /\ \A i \in 1..Len(items) : ~ItemRefused(after[i - 1], a, b, items[i]) /\ Adds(after[i - 1], items[i])
         /\ store' = after[Len(items)] /\ UNCHANGED <<wire, supply, multi>> /\ OnlyLedger
  BY DEF MultiInShard, Called
<1> HIDE DEF after, Adds
<1>8. (\A i \in 1..Len(items) : ~ItemRefused(after[i - 1], a, b, items[i]) /\ Adds(after[i - 1], items[i]))
        <=> ~ItemRefused(store, a, b, x) /\ Adds(store, x)
  <2>1. \A i \in 1..Len(items) : i = 1 /\ i - 1 = 0
    BY <1>1
  <2>2. 1 \in 1..Len(items) /\ 1 - 1 = 0
    BY <1>1
  <2> HIDE DEF items, x
  <2> QED
    BY <1>1, <1>2, <2>1, <2>2
<1>9. Adds(store, x) <=> ~AddRefused(mid, b, n, tok, FALSE)
  BY <1>1, <1>3 DEF Adds
<1>10. store' = after[Len(items)] <=> store' = Added(mid, a, b, n, tok)
  BY <1>1, <1>2, <1>4
<1>11. TransferInShard(a, b, n, q, call) <=>
          /\ ShardOf[a] = ShardOf[b] /\ CanSend(a, b, n, q) /\ Payable(b, call, FALSE)
          /\ ~AddRefused(mid, b, n, tok, FALSE) /\ store' = Added(mid, a, b, n, tok)
          /\ UNCHANGED <<wire, supply>> /\ OnlyLedger
  BY DEF TransferInShard, Called
<1>12. CanSend(a, b, n, q) => a # b
  BY DEF CanSend
<1> HIDE DEF items, x, tok, mid
<1>13. MultiInShard(a, b, items, call) <=> TransferInShard(a, b, n, q, call) /\ UNCHANGED multi
  BY <1>6, <1>7, <1>8, <1>9, <1>10, <1>11, <1>12
<1> QED
  BY <1>13 DEF items, x

\* At the destination, and on the way back, a list of one item is accepted
\* when the transfer of it is, and leaves the same, if the metadata of the item
\* comes with it or only its quantity does (multiDCTNFTTransfer.go:165 and
\* dctNFTTransfer.go:147).
THEOREM OneItemArrives ==
    ASSUME NEW m \in MultiType, Len(m.items) = 1, NEW x, x = m.items[1],
           x.meta \/ ~x.whole, x.frozen => x.meta,
           NEW w, w = [phase |-> m.phase, from |-> m.from, to |-> m.to, nonce |-> x.nonce,
                       value |-> x.value, frozen |-> x.frozen, meta |-> x.meta, call |-> m.call]
    PROVE  /\ MultiAccepted(m) <=> Accepted(w)
           /\ MultiCredited(m)[1] = AddToLiquidity(Credited(w), ShardOf[w.to], w.nonce, w.value)
<1> DEFINE items == m.items
           after == MultiCredited(m)
           returning == m.phase = "returning"
           Adds(st, y) == /\ ~AddRefused(st, m.to, y.nonce, Decoded(y), returning)
                          /\ ~LiquidityRefused(ItemAdded(st, m, y), ShardOf[m.to], y.nonce, Decoded(y).value)
<1>1. Len(items) \in Nat /\ 1 \in 1..Len(items) /\ (\A i \in 1..Len(items) : i = 1 /\ i - 1 = 0) /\ items[1] = x
  OBVIOUS
<1>2. x \in ItemType
  <2>1. \A s \in Seq(ItemType) : Len(s) = 1 => s[1] \in ItemType
    OBVIOUS
  <2> QED
    BY <2>1 DEF MultiType
<1>3. Carried(w) = Decoded(x)
  <2>1. Decoded(x).value = x.value /\ Decoded(x).frozen = x.frozen /\ Decoded(x).meta = x.meta
    BY <1>2 DEF Decoded, ItemType
  <2>2. Decoded(x) = [value |-> Decoded(x).value, frozen |-> Decoded(x).frozen, meta |-> Decoded(x).meta]
    BY DEF Decoded
  <2>3. Carried(w) = [value |-> x.value, frozen |-> x.frozen, meta |-> x.meta]
    BY DEF Carried
  <2> QED
    BY <2>1, <2>2, <2>3
<1>4. w.from = m.from /\ w.to = m.to /\ w.nonce = x.nonce /\ w.call = m.call /\ w.phase = m.phase
      /\ w.value = Decoded(x).value
  <2>1. w.value = x.value /\ Decoded(x).value = x.value
    BY <1>2 DEF Decoded, ItemType
  <2> QED
    BY <2>1
<1>5. ItemAdded(store, m, x) = Credited(w)
  BY <1>3, <1>4 DEF ItemAdded, Credited
<1>6. after[0] = store /\ after[1] = ItemCredited(store, m, x)
  <2>1. items = m.items /\ after = MultiCredited(m)
    OBVIOUS
  <2> HIDE DEF items, after
  <2>2. after[0] = store /\ \A i \in 1..Len(items) : after[i] = ItemCredited(after[i - 1], m, items[i])
    BY <1>1, <2>1, CreditedStores
  <2>3. after[1] = ItemCredited(after[1 - 1], m, items[1]) /\ 1 - 1 = 0
    BY <1>1, <2>2
  <2> QED
    BY <1>1, <2>2, <2>3
<1>7. MultiAccepted(m) <=> Payable(m.to, m.call, returning) /\ \A i \in 1..Len(items) : Adds(after[i - 1], items[i])
  BY DEF MultiAccepted
<1>8. Accepted(w) <=> Payable(m.to, m.call, returning) /\ Adds(store, x)
  BY <1>3, <1>4, <1>5 DEF Accepted
<1> HIDE DEF Adds, items, after, returning
<1>9. (\A i \in 1..Len(items) : Adds(after[i - 1], items[i])) <=> Adds(store, x)
  BY <1>1, <1>6
<1>10. MultiAccepted(m) <=> Accepted(w)
  BY <1>7, <1>8, <1>9
<1>11. after[1] = AddToLiquidity(Credited(w), ShardOf[w.to], w.nonce, w.value)
  BY <1>4, <1>5, <1>6 DEF ItemCredited
<1> QED
  BY <1>10, <1>11 DEF after
=============================================================================
