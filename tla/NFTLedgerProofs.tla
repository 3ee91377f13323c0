---------------------------- MODULE NFTLedgerProofs ----------------------------
(***************************************************************************)
(* Proofs about NFTLedger: its type, that it follows the protocol of the   *)
(* roles (so what NFTRolesProofs shows holds in the whole ledger), that a  *)
(* holding that is frozen or paused stands still, that a nonce is created  *)
(* where nothing of it is, that no token is made or lost, that the         *)
(* liquidity tracked on a shard is what its accounts hold, and that        *)
(* holders can read the metadata of what they hold.                        *)
(*                                                                         *)
(* First comes what the methods of the storage handler write: a store      *)
(* again, and nothing but the entry of the account and the system entry of *)
(* its shard.  Then each action has a lemma on what it touches; the        *)
(* invariants only use those lemmas and the guards of the actions.  For    *)
(* the sums the lemmas say which entry an action writes and with which     *)
(* value, and those of SumTheorems what that does to a sum.                *)
(***************************************************************************)
EXTENDS NFTLedger, NFTRolesProofs, SumTheorems

\* st2 differs from st at most in the entry of a for n, and in the system
\* entry of n on shard s.
OnlyWrites(st, st2, a, s, n) ==
    /\ \A b \in Accounts, k \in Keys : b # a \/ k # n => st2.entry[b][k] = st.entry[b][k]
    /\ \A t \in Shards, m \in Nonces : t # s \/ m # n => st2.system[t][m] = st.system[t][m]

LEMMA KeysAreNonces == Keys \subseteq Nat /\ Nonces \subseteq Keys /\ 0 \in Keys /\ 0 \notin Nonces
BY CoordinatorAssumption DEF Keys, Nonces

LEMMA EntryTypes ==
    /\ NoEntry \in Entry /\ NoSystemEntry \in SystemEntry
    /\ EmptyStore \in StoreType
<1>1. NoEntry \in Entry
  BY DEF NoEntry, Entry
<1>2. NoSystemEntry \in SystemEntry
  BY DEF NoSystemEntry, SystemEntry
<1> QED
  BY <1>1, <1>2 DEF EmptyStore, StoreType

\* The token that is read has the value and the frozen flag of the entry.
LEMMA TokenRead ==
    ASSUME NEW st \in StoreType, NEW a \in Accounts, NEW n \in Nonces
    PROVE  /\ Token(st, a, n) \in Entry
           /\ Token(st, a, n).value = st.entry[a][n].value
           /\ Token(st, a, n).frozen = st.entry[a][n].frozen
<1>1. st.entry[a][n] \in Entry
  BY KeysAreNonces DEF StoreType
<1>2. CASE st.entry[a][n] = NoEntry
  BY <1>1, <1>2 DEF Token
<1>3. CASE st.entry[a][n] # NoEntry
  <2> DEFINE m == st.entry[a][n].meta \/ (On(SaveToSystemAccount) /\ st.system[ShardOf[a]][n].exists)
  <2>1. Token(st, a, n) = [st.entry[a][n] EXCEPT !.meta = m]
    BY <1>3 DEF Token
  <2>2. m \in BOOLEAN
    OBVIOUS
  <2> QED
    BY <1>1, <2>1, <2>2 DEF Entry
<1> QED
  BY <1>2, <1>3

LEMMA SaveMetaDataWrites ==
    ASSUME NEW st \in StoreType, NEW t \in Shards, NEW a \in Accounts, NEW n \in Nonces,
           NEW tok, NEW mustUpdate
    PROVE  /\ SaveMetaData(st, t, a, n, tok, mustUpdate) \in StoreType
           /\ SaveMetaData(st, t, a, n, tok, mustUpdate).entry = st.entry
           /\ OnlyWrites(st, SaveMetaData(st, t, a, n, tok, mustUpdate), a, ShardOf[a], n)
<1> DEFINE s == ShardOf[a]
           old == On(FixOldTokenLiquidity) /\ st.entry[a][n].meta
           res == On(SendAlways) /\ ~st.system[s][n].exists /\ ~old
           x == [exists |-> TRUE, value |-> 0, reserved |-> res,
                 sentTo |-> IF On(SendAlways) THEN {} ELSE {s, t}]
           new == SaveMetaData(st, t, a, n, tok, mustUpdate)
<1>1. s \in Shards
  BY CoordinatorAssumption
<1>2. x \in SystemEntry
  <2>1. res \in BOOLEAN
    OBVIOUS
  <2> QED
    BY <1>1, <2>1 DEF SystemEntry
<1>3. new = st \/ new = [st EXCEPT !.system[s][n] = x]
  BY DEF SaveMetaData
<1>4. CASE new = st
  BY <1>4 DEF OnlyWrites
<1>5. CASE new = [st EXCEPT !.system[s][n] = x]
  <2> HIDE DEF x, new, s
  <2>1. new \in StoreType /\ new.entry = st.entry
    BY <1>1, <1>2, <1>5 DEF StoreType
  <2>2. \A u \in Shards, m \in Nonces : u # s \/ m # n => new.system[u][m] = st.system[u][m]
    BY <1>1, <1>2, <1>5 DEF StoreType
  <2> QED
    BY <2>1, <2>2 DEF OnlyWrites, s, new
<1> QED
  BY <1>3, <1>4, <1>5

\* SaveDCTNFTToken leaves the value of the token it is given.
LEMMA SaveTokenWrites ==
    ASSUME NEW st \in StoreType, NEW sender \in Accounts, NEW a \in Accounts, NEW n \in Nonces,
           NEW tok \in Entry, NEW mustUpdate \in BOOLEAN
    PROVE  /\ SaveToken(st, sender, a, n, tok, mustUpdate) \in StoreType
           /\ SaveToken(st, sender, a, n, tok, mustUpdate).entry[a][n].value = tok.value
           /\ SaveToken(st, sender, a, n, tok, mustUpdate).system
                = SaveMetaData(st, ShardOf[sender], a, n, tok, mustUpdate).system
           /\ OnlyWrites(st, SaveToken(st, sender, a, n, tok, mustUpdate), a, ShardOf[a], n)
<1> DEFINE mid == SaveMetaData(st, ShardOf[sender], a, n, tok, mustUpdate)
           e == IF tok.value = 0 THEN NoEntry
                ELSE [tok EXCEPT !.meta = tok.meta /\ ~On(SaveToSystemAccount)]
           new == SaveToken(st, sender, a, n, tok, mustUpdate)
<1>1. n \in Keys /\ ShardOf[sender] \in Shards
  BY KeysAreNonces, CoordinatorAssumption
<1>2. mid \in StoreType /\ mid.entry = st.entry /\ OnlyWrites(st, mid, a, ShardOf[a], n)
  BY <1>1, SaveMetaDataWrites
<1>3. e \in Entry /\ e.value = tok.value
  <2>1. (tok.meta /\ ~On(SaveToSystemAccount)) \in BOOLEAN
    OBVIOUS
  <2> QED
    BY <2>1, EntryTypes DEF Entry, NoEntry
<1>4. new = [mid EXCEPT !.entry[a][n] = e]
  BY DEF SaveToken
<1> HIDE DEF mid, e, new
<1>5. new \in StoreType /\ new.entry[a][n] = e /\ new.system = mid.system
  BY <1>1, <1>2, <1>3, <1>4 DEF StoreType
<1>6. \A b \in Accounts, k \in Keys : b # a \/ k # n => new.entry[b][k] = st.entry[b][k]
  BY <1>1, <1>2, <1>3, <1>4 DEF StoreType
<1>7. OnlyWrites(st, new, a, ShardOf[a], n)
  BY <1>2, <1>5, <1>6 DEF OnlyWrites
<1> QED
  BY <1>3, <1>5, <1>7 DEF mid, new

\* AddToLiquiditySystemAcc, when it returns no error: no balance changes, and
\* a system entry that does not exist is not made.
LEMMA AddToLiquidityWrites ==
    ASSUME NEW st \in StoreType, NEW s \in Shards, NEW n, NEW delta \in Int,
           ~LiquidityRefused(st, s, n, delta)
    PROVE  /\ AddToLiquidity(st, s, n, delta) \in StoreType
           /\ AddToLiquidity(st, s, n, delta).entry = st.entry
           /\ \A t \in Shards, m \in Nonces : t # s \/ m # n \/ ~st.system[t][m].exists =>
                 AddToLiquidity(st, s, n, delta).system[t][m] = st.system[t][m]
<1> DEFINE x == st.system[s][n]
           y == IF OldTokenMoved(x, delta) THEN [x EXCEPT !.reserved = FALSE]
                ELSE IF x.value + delta = 0 THEN NoSystemEntry
                ELSE [x EXCEPT !.value = x.value + delta]
           new == AddToLiquidity(st, s, n, delta)
<1>1. CASE ~TracksLiquidity \/ ~x.reserved
  BY <1>1 DEF AddToLiquidity
<1>2. CASE TracksLiquidity /\ x.reserved
  <2>1. x.exists
    BY <1>2 DEF LiquidityRefused
  <2>2. new = [st EXCEPT !.system[s][n] = y]
    BY <1>2 DEF AddToLiquidity
  <2>3. CASE n \in Nonces
    <3>1. x \in SystemEntry
      BY <2>3 DEF StoreType
    <3>2. ~OldTokenMoved(x, delta) => x.value + delta \in Nat
      BY <1>2, <3>1 DEF LiquidityRefused, SystemEntry
    <3>3. y \in SystemEntry
      BY <3>1, <3>2, EntryTypes DEF SystemEntry
    <3> HIDE DEF y, new
    <3>4. new \in StoreType /\ new.entry = st.entry
      BY <2>2, <2>3, <3>3 DEF StoreType
    <3>5. \A t \in Shards, m \in Nonces : t # s \/ m # n => new.system[t][m] = st.system[t][m]
      BY <2>2, <3>3 DEF StoreType
    <3> QED
      BY <2>1, <3>4, <3>5 DEF new
  <2>4. CASE n \notin Nonces
    <3> HIDE DEF y, new
    <3>1. new.entry = st.entry /\ new.system = [st.system EXCEPT ![s] = [st.system[s] EXCEPT ![n] = y]]
      BY <2>2 DEF StoreType
    <3>2. [st.system[s] EXCEPT ![n] = y] = st.system[s]
      BY <2>4 DEF StoreType
    <3>3. new.system = st.system
      BY <3>1, <3>2 DEF StoreType
    <3>4. new = st
      BY <2>2, <3>1, <3>3 DEF StoreType
    <3> QED
      BY <3>4 DEF new
  <2> QED
    BY <2>3, <2>4
<1> QED
  BY <1>1, <1>2

-----------------------------------------------------------------------------
\* The step writes at most the entries of the accounts in A for n, and the
\* system entries of n.
Touches(A, n) ==
    /\ store' \in StoreType
    /\ \A c \in Accounts, k \in Keys : c \notin A \/ k # n => store'.entry[c][k] = store.entry[c][k]
    /\ \A t \in Shards, m \in Nonces : m # n => store'.system[t][m] = store.system[t][m]

LEMMA ConstantTypes ==
    /\ MaxNonce \in Nat /\ Nonces \subseteq Keys /\ Nonces \subseteq Nat
    /\ Quantities \subseteq Nat
    /\ \A a \in Accounts : ShardOf[a] \in Shards
BY CoordinatorAssumption, LedgerAssumption, KeysAreNonces DEF Nonces

\* The token a call read, with another value.
LEMMA TokenWithValue ==
    ASSUME NEW st \in StoreType, NEW a \in Accounts, NEW n \in Nonces, NEW v \in Nat
    PROVE  /\ [Token(st, a, n) EXCEPT !.value = v] \in Entry
           /\ [Token(st, a, n) EXCEPT !.value = v].value = v
           /\ [Token(st, a, n) EXCEPT !.value = v].frozen = st.entry[a][n].frozen
<1>1. Token(st, a, n) \in Entry /\ Token(st, a, n).frozen = st.entry[a][n].frozen
  BY TokenRead
<1> HIDE DEF Token
<1> QED
  BY <1>1 DEF Entry

LEMMA BalanceType ==
    ASSUME NEW st \in StoreType, NEW a \in Accounts, NEW k \in Keys
    PROVE  /\ st.entry[a][k] \in Entry
           /\ st.entry[a][k].value \in Nat /\ st.entry[a][k].frozen \in BOOLEAN
BY DEF StoreType, Entry

LEMMA CreateTouches ==
    ASSUME TypeOK, NEW a \in Accounts, NEW q \in Quantities, NFTCreate(a, q)
    PROVE  /\ latestNonce[a] + 1 \in Nonces /\ Touches({a}, latestNonce[a] + 1)
           /\ store'.entry[a][latestNonce[a] + 1].value = q
<1> DEFINE n == latestNonce[a] + 1
           tok == [value |-> q, frozen |-> FALSE, meta |-> TRUE]
           saved == SaveToken(store, a, a, n, tok, TRUE)
<1>1. store \in StoreType /\ latestNonce[a] \in 0..MaxNonce /\ q \in Nat
  BY ConstantTypes DEF TypeOK, RolesTypeOK
<1>2. n \in Nonces
  BY <1>1, ConstantTypes DEF NFTCreate, AllocateNonce, Nonces
<1>3. tok \in Entry /\ tok.value = q
  BY <1>1 DEF Entry
<1>4. /\ ~LiquidityRefused(saved, ShardOf[a], n, q)
      /\ store' = AddToLiquidity(saved, ShardOf[a], n, q)
  BY DEF NFTCreate
<1> HIDE DEF n, tok
<1>5. /\ saved \in StoreType /\ OnlyWrites(store, saved, a, ShardOf[a], n)
      /\ saved.entry[a][n].value = q
  BY <1>1, <1>2, <1>3, SaveTokenWrites
<1> HIDE DEF saved
<1>6. /\ store' \in StoreType /\ store'.entry = saved.entry
      /\ \A t \in Shards, m \in Nonces : m # n => store'.system[t][m] = saved.system[t][m]
  <2>1. ShardOf[a] \in Shards /\ q \in Int
    BY <1>1, ConstantTypes
  <2> QED
    BY <1>4, <1>5, <2>1, AddToLiquidityWrites
<1>7. Touches({a}, n)
  BY <1>5, <1>6 DEF Touches, OnlyWrites
<1> QED
  BY <1>2, <1>5, <1>6, <1>7 DEF n

LEMMA ChangeQuantityTouches ==
    ASSUME TypeOK, NEW a \in Accounts, NEW n \in Nonces, NEW delta \in Int,
           Balance(a, n) + delta \in Nat, ChangeQuantity(a, n, delta)
    PROVE  Touches({a}, n) /\ store'.entry[a][n].value = Balance(a, n) + delta
<1> DEFINE tok == [Token(store, a, n) EXCEPT !.value = Token(store, a, n).value + delta]
           saved == SaveToken(store, a, a, n, tok, FALSE)
<1>1. store \in StoreType
  BY DEF TypeOK
<1>2. tok \in Entry /\ tok.value = Balance(a, n) + delta
  <2>1. Token(store, a, n).value = Balance(a, n)
    BY <1>1, TokenRead DEF Balance
  <2> QED
    BY <1>1, <2>1, TokenWithValue
<1>3. /\ ~LiquidityRefused(saved, ShardOf[a], n, delta)
      /\ store' = AddToLiquidity(saved, ShardOf[a], n, delta)
  BY DEF ChangeQuantity
<1> HIDE DEF tok
<1>4. /\ saved \in StoreType /\ OnlyWrites(store, saved, a, ShardOf[a], n)
      /\ saved.entry[a][n].value = Balance(a, n) + delta
  BY <1>1, <1>2, SaveTokenWrites
<1> HIDE DEF saved
<1>5. /\ store' \in StoreType /\ store'.entry = saved.entry
      /\ \A t \in Shards, m \in Nonces : m # n => store'.system[t][m] = saved.system[t][m]
  BY <1>3, <1>4, ConstantTypes, AddToLiquidityWrites
<1> QED
  BY <1>4, <1>5 DEF Touches, OnlyWrites

\* Taking the quantity from the sender and adding it at the destination.
LEMMA TakenWrites ==
    ASSUME NEW st \in StoreType, NEW a \in Accounts, NEW n \in Nonces, NEW q \in Nat,
           q <= st.entry[a][n].value
    PROVE  /\ Taken(st, a, n, q) \in StoreType /\ OnlyWrites(st, Taken(st, a, n, q), a, ShardOf[a], n)
           /\ Taken(st, a, n, q).entry[a][n].value = st.entry[a][n].value - q
<1>1. n \in Keys
  BY ConstantTypes
<1> DEFINE tok == [Token(st, a, n) EXCEPT !.value = Token(st, a, n).value - q]
           v == st.entry[a][n].value
<1>2. Token(st, a, n).value - q \in Nat /\ Token(st, a, n).value = v
  BY <1>1, TokenRead, BalanceType
<1>3. tok \in Entry /\ tok.value = v - q
  BY <1>2, TokenWithValue
<1>4. Taken(st, a, n, q) = SaveToken(st, a, a, n, tok, FALSE)
  BY DEF Taken
<1> HIDE DEF tok, v
<1>5. SaveToken(st, a, a, n, tok, FALSE) \in StoreType
  BY <1>3, SaveTokenWrites
<1>6. SaveToken(st, a, a, n, tok, FALSE).entry[a][n].value = tok.value
  BY <1>3, SaveTokenWrites
<1>7. OnlyWrites(st, SaveToken(st, a, a, n, tok, FALSE), a, ShardOf[a], n)
  BY <1>3, SaveTokenWrites
<1> QED
  BY <1>3, <1>4, <1>5, <1>6, <1>7 DEF v

LEMMA AddedWrites ==
    ASSUME NEW st \in StoreType, NEW from \in Accounts, NEW to \in Accounts, NEW n \in Nonces,
           NEW tok \in Entry
    PROVE  /\ Added(st, from, to, n, tok) \in StoreType
           /\ Added(st, from, to, n, tok).entry[to][n].value = tok.value + st.entry[to][n].value
           /\ OnlyWrites(st, Added(st, from, to, n, tok), to, ShardOf[to], n)
<1> DEFINE sum == [tok EXCEPT !.value = tok.value + st.entry[to][n].value]
<1>1. tok.value \in Nat /\ st.entry[to][n].value \in Nat
  BY ConstantTypes, BalanceType DEF Entry
<1>2. sum \in Entry /\ sum.value = tok.value + st.entry[to][n].value
  BY <1>1 DEF Entry
<1>3. Added(st, from, to, n, tok) = SaveToken(st, from, to, n, sum, FALSE)
  BY DEF Added
<1> HIDE DEF sum
<1>4. /\ SaveToken(st, from, to, n, sum, FALSE) \in StoreType
      /\ SaveToken(st, from, to, n, sum, FALSE).entry[to][n].value = sum.value
      /\ OnlyWrites(st, SaveToken(st, from, to, n, sum, FALSE), to, ShardOf[to], n)
  BY <1>2, SaveTokenWrites
<1> QED
  BY <1>2, <1>3, <1>4

LEMMA TransferInShardTouches ==
    ASSUME TypeOK, NEW a \in Accounts, NEW b \in Accounts, NEW n \in Nonces, NEW q \in Quantities,
           NEW call \in BOOLEAN, TransferInShard(a, b, n, q, call)
    PROVE  Touches({a, b}, n)
<1> DEFINE tok == [Token(store, a, n) EXCEPT !.value = q]
           mid == Taken(store, a, n, q)
<1>1. q <= store.entry[a][n].value /\ store' = Added(mid, a, b, n, tok)
  BY DEF TransferInShard, CanSend
<1>2. mid \in StoreType /\ OnlyWrites(store, mid, a, ShardOf[a], n)
  <2>1. store \in StoreType /\ q \in Nat
    BY ConstantTypes DEF TypeOK
  <2> QED
    BY <1>1, <2>1, TakenWrites
<1>3. tok \in Entry
  BY ConstantTypes, TokenWithValue DEF TypeOK
<1> HIDE DEF mid, tok
<1>4. store' \in StoreType /\ OnlyWrites(mid, store', b, ShardOf[b], n)
  BY <1>1, <1>2, <1>3, AddedWrites
<1> QED
  BY <1>2, <1>4 DEF Touches, OnlyWrites

LEMMA RecordSentWrites ==
    ASSUME NEW st \in StoreType, NEW s \in Shards, NEW n \in Nonces, NEW d \in Shards
    PROVE  /\ RecordSent(st, s, n, d) \in StoreType
           /\ RecordSent(st, s, n, d).entry = st.entry
           /\ \A t \in Shards, m \in Nonces : m # n => RecordSent(st, s, n, d).system[t][m] = st.system[t][m]
<1> DEFINE x == [st.system[s][n] EXCEPT !.sentTo = st.system[s][n].sentTo \union {d}]
           new == RecordSent(st, s, n, d)
<1>1. x \in SystemEntry
  <2>1. st.system[s][n] \in SystemEntry
    BY DEF StoreType
  <2>2. st.system[s][n].sentTo \union {d} \in SUBSET Shards
    BY <2>1 DEF SystemEntry
  <2> QED
    BY <2>1, <2>2 DEF SystemEntry
<1>2. new = st \/ new = [st EXCEPT !.system[s][n] = x]
  BY DEF RecordSent, StoreType
<1> HIDE DEF x, new
<1>3. CASE new = [st EXCEPT !.system[s][n] = x]
  <2>1. new \in StoreType /\ new.entry = st.entry
    BY <1>1, <1>3 DEF StoreType
  <2>2. \A t \in Shards, m \in Nonces : m # n => new.system[t][m] = st.system[t][m]
    BY <1>1, <1>3 DEF StoreType
  <2> QED
    BY <2>1, <2>2 DEF new
<1> QED
  BY <1>2, <1>3 DEF new

LEMMA TransferLeavesTouches ==
    ASSUME TypeOK, NEW i \in 1..Slots, NEW a \in Accounts, NEW b \in Accounts, NEW n \in Nonces,
           NEW q \in Quantities, NEW call \in BOOLEAN, TransferLeaves(i, a, b, n, q, call)
    PROVE  Touches({a}, n) /\ store'.entry[a][n].value = Balance(a, n) - q
<1> DEFINE mid == Taken(store, a, n, q)
           counted == AddToLiquidity(mid, ShardOf[a], n, -q)
<1>1. /\ q <= store.entry[a][n].value
      /\ ~LiquidityRefused(mid, ShardOf[a], n, -q)
      /\ store' = RecordSent(counted, ShardOf[a], n, ShardOf[b])
  BY DEF TransferLeaves, CanSend
<1>2. /\ mid \in StoreType /\ OnlyWrites(store, mid, a, ShardOf[a], n)
      /\ mid.entry[a][n].value = Balance(a, n) - q
  <2>1. store \in StoreType /\ q \in Nat
    BY ConstantTypes DEF TypeOK
  <2> QED
    BY <1>1, <2>1, TakenWrites DEF Balance
<1>3. -q \in Int /\ ShardOf[a] \in Shards /\ ShardOf[b] \in Shards
  BY ConstantTypes
<1> HIDE DEF mid
<1>4. /\ counted \in StoreType /\ counted.entry = mid.entry
      /\ \A t \in Shards, m \in Nonces : m # n => counted.system[t][m] = mid.system[t][m]
  BY <1>1, <1>2, <1>3, AddToLiquidityWrites
<1> HIDE DEF counted
<1>5. /\ store' \in StoreType /\ store'.entry = counted.entry
      /\ \A t \in Shards, m \in Nonces : m # n => store'.system[t][m] = counted.system[t][m]
  <2> DEFINE s == ShardOf[a]
             d == ShardOf[b]
  <2>1. s \in Shards /\ d \in Shards /\ store' = RecordSent(counted, s, n, d)
    BY <1>1, <1>3
  <2> HIDE DEF s, d
  <2> DEFINE sent == RecordSent(counted, s, n, d)
  <2>2. /\ sent \in StoreType /\ sent.entry = counted.entry
        /\ \A t \in Shards, m \in Nonces : m # n => sent.system[t][m] = counted.system[t][m]
    <3>1. counted \in StoreType
      BY <1>4
    <3>2. sent \in StoreType
      BY <3>1, <2>1, RecordSentWrites
    <3>3. sent.entry = counted.entry
      BY <3>1, <2>1, RecordSentWrites
    <3>4. \A t \in Shards, m \in Nonces : m # n => sent.system[t][m] = counted.system[t][m]
      BY <3>1, <2>1, RecordSentWrites, ZenonT(40)
    <3> QED
      BY <3>2, <3>3, <3>4
  <2> QED
    BY <2>1, <2>2
<1> QED
  BY <1>2, <1>4, <1>5 DEF Touches, OnlyWrites

LEMMA WireType ==
    ASSUME TypeOK, NEW i \in 1..Slots, wire[i] # Free
    PROVE  /\ wire[i] \in MessageType
           /\ wire[i].from \in Accounts /\ wire[i].to \in Accounts /\ wire[i].nonce \in Nonces
           /\ wire[i].value \in Nat /\ Carried(wire[i]) \in Entry
<1>1. wire[i] \in MessageType
  BY DEF TypeOK
<1> QED
  BY <1>1 DEF MessageType, Carried, Entry

LEMMA TransferArrivesTouches ==
    ASSUME TypeOK, NEW i \in 1..Slots, TransferArrives(i)
    PROVE  /\ Touches({wire[i].to}, wire[i].nonce)
           /\ store'.entry[wire[i].to][wire[i].nonce].value
                = Balance(wire[i].to, wire[i].nonce) + wire[i].value
<1> DEFINE to == wire[i].to
           n == wire[i].nonce
           v == wire[i].value
           mid == Credited(wire[i])
<1>1. /\ wire[i] # Free
      /\ ~LiquidityRefused(mid, ShardOf[to], n, v)
      /\ store' = AddToLiquidity(mid, ShardOf[to], n, v)
  BY DEF TransferArrives, Accepted
<1>2. /\ wire[i].from \in Accounts /\ to \in Accounts /\ n \in Nonces /\ n \in Keys /\ v \in Nat /\ v \in Int
      /\ Carried(wire[i]) \in Entry /\ ShardOf[to] \in Shards
      /\ store \in StoreType
  <2>1. /\ wire[i].from \in Accounts /\ to \in Accounts /\ n \in Nonces /\ v \in Nat
        /\ Carried(wire[i]) \in Entry
    BY <1>1, WireType
  <2>2. store \in StoreType
    BY DEF TypeOK
  <2> HIDE DEF to, n, v
  <2>3. n \in Keys /\ v \in Int /\ ShardOf[to] \in Shards
    BY <2>1, ConstantTypes
  <2> QED
    BY <2>1, <2>2, <2>3
<1>3. /\ mid \in StoreType
      /\ mid.entry[to][n].value = Carried(wire[i]).value + store.entry[to][n].value
      /\ OnlyWrites(store, mid, to, ShardOf[to], n)
  BY <1>2, AddedWrites DEF Credited
<1>4. Carried(wire[i]).value = v
  BY DEF Carried
<1>5. store.entry[to][n].value \in Nat
  BY <1>2, BalanceType
<1> HIDE DEF mid, to, n, v
<1>6. store' \in StoreType
  BY <1>1, <1>2, <1>3, AddToLiquidityWrites
<1>7. store'.entry = mid.entry
  BY <1>1, <1>2, <1>3, AddToLiquidityWrites
<1>8. \A t \in Shards, m \in Nonces : m # n => store'.system[t][m] = mid.system[t][m]
  BY <1>1, <1>2, <1>3, AddToLiquidityWrites
<1>9. Touches({to}, n)
  BY <1>3, <1>6, <1>7, <1>8 DEF Touches, OnlyWrites
<1>10. store'.entry[to][n].value = store.entry[to][n].value + v
  BY <1>2, <1>3, <1>4, <1>5, <1>7
<1> QED
  BY <1>9, <1>10 DEF Balance, to, n, v

LEMMA TransferFailsTouches ==
    ASSUME TypeOK, NEW i \in 1..Slots, TransferFails(i)
    PROVE  Touches({}, wire[i].nonce) /\ wire[i] # Free
<1> DEFINE m == wire[i]
           n == m.nonce
           to == m.to
           from == ShardOf[m.from]
           new == SaveMetaData(store, from, to, n, m, TRUE)
<1>1. to \in Accounts /\ n \in Nonces /\ m # Free /\ from \in Shards /\ store \in StoreType
  BY WireType, ConstantTypes DEF TransferFails, TypeOK
<1>2. store' = store \/ store' = new
  BY DEF TransferFails, SaveFailedMetaData
<1>3. CASE store' = store
  BY <1>1, <1>3 DEF Touches
<1>4. CASE store' = new
  <2> HIDE DEF m, n, to, from
  <2>1. new \in StoreType
    BY <1>1, SaveMetaDataWrites
  <2>2. new.entry = store.entry
    BY <1>1 DEF SaveMetaData, StoreType
  <2>3. OnlyWrites(store, new, to, ShardOf[to], n)
    BY <1>1, SaveMetaDataWrites
  <2> HIDE DEF new
  <2> QED
    BY <1>1, <1>4, <2>1, <2>2, <2>3 DEF Touches, OnlyWrites, n, m
<1> QED
  BY <1>2, <1>3, <1>4

LEMMA FreezeTouches ==
    ASSUME TypeOK, NEW a \in Accounts, NEW k \in Keys, \E v \in BOOLEAN : Freeze(a, k, v)
    PROVE  /\ store' \in StoreType /\ store'.system = store.system
           /\ \A c \in Accounts, j \in Keys : c # a \/ j # k => store'.entry[c][j] = store.entry[c][j]
           /\ store'.entry[a][k].value = store.entry[a][k].value
           /\ \/ store'.entry[a][k] = NoEntry
              \/ store'.entry[a][k] = [store.entry[a][k] EXCEPT !.frozen = TRUE]
              \/ store'.entry[a][k] = [store.entry[a][k] EXCEPT !.frozen = FALSE] /\ store.entry[a][k].value # 0
<1> PICK v \in BOOLEAN : Freeze(a, k, v)
  OBVIOUS
<1> DEFINE e == [store.entry[a][k] EXCEPT !.frozen = v]
           new == IF e.value = 0 /\ ~v THEN NoEntry ELSE e
<1>1. store \in StoreType /\ store.entry[a][k] \in Entry
  BY BalanceType DEF TypeOK
<1>2. e \in Entry /\ e.value = store.entry[a][k].value
  BY <1>1 DEF Entry
<1>3. new \in Entry /\ new.value = store.entry[a][k].value
  BY <1>2, EntryTypes DEF NoEntry
<1>4. store' = [store EXCEPT !.entry[a][k] = new]
  BY DEF Freeze
<1> HIDE DEF new
<1>5. store' \in StoreType /\ store'.system = store.system
  BY <1>1, <1>3, <1>4 DEF StoreType
<1>6. \A c \in Accounts, j \in Keys : c # a \/ j # k => store'.entry[c][j] = store.entry[c][j]
  BY <1>1, <1>4 DEF StoreType
<1>7. store'.entry[a][k] = new
  BY <1>1, <1>4 DEF StoreType
<1>8. \/ new = NoEntry
      \/ new = [store.entry[a][k] EXCEPT !.frozen = TRUE]
      \/ new = [store.entry[a][k] EXCEPT !.frozen = FALSE] /\ store.entry[a][k].value # 0
  BY <1>2 DEF new
<1> QED
  BY <1>3, <1>5, <1>6, <1>7, <1>8

LEMMA WipeTouches ==
    ASSUME TypeOK, NEW a \in Accounts, NEW k \in Keys, Wipe(a, k)
    PROVE  /\ store' \in StoreType
           /\ \A c \in Accounts, j \in Keys : c # a \/ j # k => store'.entry[c][j] = store.entry[c][j]
           /\ store'.entry[a][k] = NoEntry
           /\ \A t \in Shards, m \in Nonces : ~store.system[t][m].exists => store'.system[t][m] = store.system[t][m]
<1> DEFINE wiped == [store EXCEPT !.entry[a][k] = NoEntry]
           n == ExtractedNonce[k]
           v == store.entry[a][k].value
<1>1. store \in StoreType /\ v \in Nat /\ -v \in Int /\ ShardOf[a] \in Shards
  BY BalanceType, ConstantTypes DEF TypeOK
<1>2. wiped \in StoreType /\ wiped.system = store.system
  BY <1>1, EntryTypes DEF StoreType
<1>3. \A c \in Accounts, j \in Keys :
         wiped.entry[c][j] = IF c # a \/ j # k THEN store.entry[c][j] ELSE NoEntry
  BY <1>1 DEF StoreType
<1>4. \/ store' = wiped
      \/ ~LiquidityRefused(wiped, ShardOf[a], n, -v) /\ store' = AddToLiquidity(wiped, ShardOf[a], n, -v)
  BY DEF Wipe
<1> HIDE DEF wiped, n, v
<1>5. CASE store' = wiped
  BY <1>2, <1>3, <1>5
<1>6. CASE ~LiquidityRefused(wiped, ShardOf[a], n, -v) /\ store' = AddToLiquidity(wiped, ShardOf[a], n, -v)
  <2>1. store' \in StoreType
    BY <1>1, <1>2, <1>6, AddToLiquidityWrites
  <2>2. store'.entry = wiped.entry
    BY <1>1, <1>2, <1>6, AddToLiquidityWrites
  <2>3. \A t \in Shards, m \in Nonces : ~wiped.system[t][m].exists => store'.system[t][m] = wiped.system[t][m]
    BY <1>1, <1>2, <1>6, AddToLiquidityWrites
  <2> QED
    BY <1>2, <1>3, <2>1, <2>2, <2>3
<1> QED
  BY <1>4, <1>5, <1>6

LEMMA UpdateTouches ==
    ASSUME TypeOK, NEW a \in Accounts, NEW n \in Nonces, UpdateMetaData(a, n)
    PROVE  Touches({a}, n) /\ Balance(a, n)' = Balance(a, n)
<1> DEFINE tok == Token(store, a, n)
<1>1. store \in StoreType /\ tok \in Entry /\ tok.value = store.entry[a][n].value
  BY TokenRead DEF TypeOK
<1>2. store' = SaveToken(store, a, a, n, tok, TRUE)
  BY DEF UpdateMetaData
<1> HIDE DEF tok
<1>3. store' \in StoreType
  BY <1>1, <1>2, SaveTokenWrites
<1>4. store'.entry[a][n].value = tok.value
  BY <1>1, <1>2, SaveTokenWrites
<1>5. OnlyWrites(store, store', a, ShardOf[a], n)
  BY <1>1, <1>2, SaveTokenWrites
<1> QED
  BY <1>1, <1>3, <1>4, <1>5 DEF Touches, OnlyWrites, Balance

LEMMA MetaDataTouches ==
    ASSUME TypeOK, NEW n \in Nonces, DeleteMetaData(n) \/ AddMetaData(n)
    PROVE  Touches({}, n)
<1>1. PICK x \in SystemEntry : store' = [store EXCEPT !.system[ConfigShard][n] = x]
  <2>1. [NoSystemEntry EXCEPT !.exists = TRUE] \in SystemEntry
    BY DEF NoSystemEntry, SystemEntry
  <2> QED
    BY <2>1, EntryTypes DEF DeleteMetaData, AddMetaData
<1>2. store \in StoreType /\ ConfigShard \in Shards
  BY LedgerAssumption DEF TypeOK
<1>3. store' \in StoreType /\ store'.entry = store.entry
  BY <1>1, <1>2 DEF StoreType
<1>4. \A t \in Shards, m \in Nonces : m # n => store'.system[t][m] = store.system[t][m]
  BY <1>1, <1>2 DEF StoreType
<1> QED
  BY <1>3, <1>4 DEF Touches

-----------------------------------------------------------------------------
\* Every step of the ledger is a step of the roles, or leaves them alone.
LEMMA StepIsRolesStep == [Next]_vars => [RolesNext]_roleVars
<1> SUFFICES ASSUME [Next]_vars PROVE [RolesNext]_roleVars
  OBVIOUS
<1>1. ASSUME NEW a \in Accounts, UserCalls(a)
      PROVE  [RolesNext]_roleVars
  <2>1. ASSUME NEW q \in Quantities, NFTCreate(a, q)
        PROVE  RolesNext
    BY <2>1 DEF NFTCreate, RolesNext
  <2>2. ASSUME NEW n \in Nonces, NEW q \in Quantities, NFTAddQuantity(a, n, q) \/ NFTBurn(a, n, q)
        PROVE  UNCHANGED roleVars
    BY <2>2 DEF NFTAddQuantity, NFTBurn, ChangeQuantity, OnlyLedger, roleVars
  <2>3. ASSUME NEW n \in Nonces, UpdateMetaData(a, n)
        PROVE  UNCHANGED roleVars
    BY <2>3 DEF UpdateMetaData, OnlyLedger, roleVars
  <2>4. ASSUME NEW b \in Accounts, NEW n \in Nonces, NEW q \in Quantities, NEW call \in BOOLEAN,
               TransferInShard(a, b, n, q, call) \/ \E i \in 1..Slots : TransferLeaves(i, a, b, n, q, call)
        PROVE  UNCHANGED roleVars
    BY <2>4 DEF TransferInShard, TransferLeaves, OnlyLedger, roleVars
  <2> QED
    BY <1>1, <2>1, <2>2, <2>3, <2>4 DEF UserCalls
<1>2. ASSUME NEW i \in 1..Slots, Settle(i)
      PROVE  UNCHANGED roleVars
  BY <1>2 DEF Settle, TransferArrives, TransferFails, ReturnFails, OnlyLedger, roleVars
<1>3. ASSUME NEW a \in Accounts, NEW k \in Keys, Wipe(a, k) \/ \E v \in BOOLEAN : Freeze(a, k, v)
      PROVE  UNCHANGED roleVars
  BY <1>3 DEF Wipe, Freeze, OnlyLedger, roleVars
<1>4. ASSUME NEW n \in Nonces, DeleteMetaData(n) \/ AddMetaData(n)
      PROVE  UNCHANGED roleVars
  BY <1>4 DEF DeleteMetaData, AddMetaData, OnlyLedger, roleVars
<1>5. CASE ChangeSettings \/ NewEpoch
  BY <1>5 DEF ChangeSettings, SettingsCalls, NewEpoch, roleVars
<1>6. CASE ChangeRolesOrOwner
  BY <1>6 DEF ChangeRolesOrOwner, RolesNext
<1>7. CASE UNCHANGED vars
  BY <1>7 DEF vars, roleVars
<1> QED
  BY <1>1, <1>2, <1>3, <1>4, <1>5, <1>6, <1>7 DEF Next, SystemCalls

\* A step of the ledger proper leaves the other parts' types alone.
LEMMA OnlyLedgerTypes ==
    ASSUME TypeOK, OnlyLedger \/ UNCHANGED <<flags, settings, transferAddresses>>
    PROVE  FlagsTypeOK' /\ SettingsTypeOK'
<1>1. UNCHANGED <<flags, settings, transferAddresses>>
  BY DEF OnlyLedger
<1> QED
  BY <1>1 DEF TypeOK, FlagsTypeOK, SettingsTypeOK

LEMMA NextLedgerTypeOK == TypeOK /\ [Next]_vars => TypeOK'
<1> SUFFICES ASSUME TypeOK, [Next]_vars PROVE TypeOK'
  OBVIOUS
<1>1. RolesTypeOK'
  BY StepIsRolesStep, NextTypeOK DEF TypeOK
<1>2. /\ store \in StoreType /\ wire \in [1..Slots -> MessageType \union {Free}]
      /\ supply \in [Nonces -> Int]
  BY DEF TypeOK
<1> DEFINE LedgerTypes == /\ FlagsTypeOK' /\ SettingsTypeOK' /\ store' \in StoreType
                          /\ wire' \in [1..Slots -> MessageType \union {Free}]
                          /\ supply' \in [Nonces -> Int]
<1>3. ASSUME NEW a \in Accounts, UserCalls(a)
      PROVE  LedgerTypes
  <2>1. ASSUME NEW q \in Quantities, NFTCreate(a, q)
        PROVE  LedgerTypes
    <3>1. q \in Int /\ store' \in StoreType
      BY <2>1, CreateTouches, ConstantTypes DEF Touches
    <3>2. UNCHANGED <<flags, settings, transferAddresses, wire>>
      BY <2>1 DEF NFTCreate
    <3>3. PICK n : supply' = [supply EXCEPT ![n] = @ + q] /\ n \in Nonces
      BY <2>1, CreateTouches DEF NFTCreate
    <3>4. supply' \in [Nonces -> Int]
      BY <1>2, <3>1, <3>3
    <3> QED
      BY <1>2, <3>1, <3>2, <3>4, OnlyLedgerTypes
  <2>2. ASSUME NEW n \in Nonces, NEW q \in Quantities, NFTAddQuantity(a, n, q) \/ NFTBurn(a, n, q)
        PROVE  LedgerTypes
    <3>1. q \in Nat /\ Balance(a, n) \in Nat
      BY <1>2, ConstantTypes, BalanceType DEF Balance
    <3>2. PICK delta \in {q, -q} : ChangeQuantity(a, n, delta) /\ Balance(a, n) + delta \in Nat
      BY <2>2, <3>1 DEF NFTAddQuantity, NFTBurn, Balance
    <3>3. delta \in Int /\ store' \in StoreType
      BY <3>1, <3>2, ChangeQuantityTouches DEF Touches
    <3>4. supply' = [supply EXCEPT ![n] = @ + delta] /\ UNCHANGED wire /\ OnlyLedger
      BY <3>2 DEF ChangeQuantity
    <3>5. supply' \in [Nonces -> Int]
      BY <1>2, <3>3, <3>4
    <3> QED
      BY <1>2, <3>3, <3>4, <3>5, OnlyLedgerTypes
  <2>3. ASSUME NEW n \in Nonces, UpdateMetaData(a, n)
        PROVE  LedgerTypes
    BY <1>2, <2>3, UpdateTouches, OnlyLedgerTypes DEF UpdateMetaData, Touches
  <2>4. ASSUME NEW b \in Accounts, NEW n \in Nonces, NEW q \in Quantities, NEW call \in BOOLEAN,
               TransferInShard(a, b, n, q, call)
        PROVE  LedgerTypes
    BY <1>2, <2>4, TransferInShardTouches, OnlyLedgerTypes DEF TransferInShard, Touches
  <2>5. ASSUME NEW i \in 1..Slots, NEW b \in Accounts, NEW n \in Nonces, NEW q \in Quantities,
               NEW call \in BOOLEAN, TransferLeaves(i, a, b, n, q, call)
        PROVE  LedgerTypes
    <3>1. store' \in StoreType
      BY <2>5, TransferLeavesTouches DEF Touches
    <3>2. PICK f \in BOOLEAN, m \in BOOLEAN :
             wire' = [wire EXCEPT ![i] = [phase |-> "sent", from |-> a, to |-> b, nonce |-> n, value |-> q,
                                          frozen |-> f, meta |-> m, call |-> call]]
      BY <2>5 DEF TransferLeaves
    <3>3. q \in Nat
      BY ConstantTypes
    <3>4. wire' \in [1..Slots -> MessageType \union {Free}]
      BY <1>2, <3>2, <3>3 DEF MessageType
    <3> QED
      BY <1>2, <2>5, <3>1, <3>4, OnlyLedgerTypes DEF TransferLeaves
  <2> QED
    BY <1>3, <2>1, <2>2, <2>3, <2>4, <2>5 DEF UserCalls
<1>4. ASSUME NEW i \in 1..Slots, Settle(i)
      PROVE  LedgerTypes
  <2>1. CASE TransferArrives(i)
    BY <1>2, <2>1, TransferArrivesTouches, OnlyLedgerTypes DEF TransferArrives, Touches
  <2>2. CASE TransferFails(i)
    <3>1. store' \in StoreType /\ wire[i] # Free
      BY <2>2, TransferFailsTouches DEF Touches
    <3>2. wire[i] \in MessageType
      BY <3>1, WireType
    <3>3. [wire[i] EXCEPT !.phase = "returning", !.from = wire[i].to, !.to = wire[i].from,
                          !.call = FALSE] \in MessageType
      BY <3>2 DEF MessageType
    <3> QED
      BY <1>2, <2>2, <3>1, <3>3, OnlyLedgerTypes DEF TransferFails
  <2>3. CASE ReturnFails(i)
    BY <1>2, <2>3, OnlyLedgerTypes DEF ReturnFails
  <2> QED
    BY <1>4, <2>1, <2>2, <2>3 DEF Settle
<1>5. ASSUME NEW a \in Accounts, NEW k \in Keys, \E v \in BOOLEAN : Freeze(a, k, v)
      PROVE  LedgerTypes
  BY <1>2, <1>5, FreezeTouches, OnlyLedgerTypes DEF Freeze
<1>6. ASSUME NEW a \in Accounts, NEW k \in Keys, Wipe(a, k)
      PROVE  LedgerTypes
  <2>1. store' \in StoreType
    BY <1>6, WipeTouches
  <2>2. store.entry[a][k].value \in Nat
    BY <1>2, BalanceType
  <2>3. supply' \in [Nonces -> Int]
    <3>1. k # 0 => k \in Nonces
      BY ConstantTypes DEF Keys, Nonces
    <3>2. supply' = supply \/ (k # 0 /\ supply' = [supply EXCEPT ![k] = @ - store.entry[a][k].value])
      BY <1>6 DEF Wipe
    <3> QED
      BY <1>2, <2>2, <3>1, <3>2
  <2> QED
    BY <1>2, <1>6, <2>1, <2>3, OnlyLedgerTypes DEF Wipe
<1>7. ASSUME NEW n \in Nonces, DeleteMetaData(n) \/ AddMetaData(n)
      PROVE  LedgerTypes
  BY <1>2, <1>7, MetaDataTouches, OnlyLedgerTypes DEF DeleteMetaData, AddMetaData, Touches
<1>8. ASSUME ChangeSettings PROVE LedgerTypes
  <2>1. FlagsTypeOK' /\ UNCHANGED ledgerVars
    BY <1>8 DEF ChangeSettings, SettingsCalls, TypeOK, FlagsTypeOK, ledgerVars
  <2>2. ASSUME \E t \in Shards, x \in SettingNames, v \in BOOLEAN : ToggleSetting(t, x, v)
        PROVE  SettingsTypeOK'
    BY <2>2 DEF ToggleSetting, TypeOK, SettingsTypeOK
  <2>3. ASSUME \E t \in Shards, a \in Accounts :
                  AddTransferAddresses(t, {a}) \/ DeleteTransferAddresses(t, {a})
        PROVE  SettingsTypeOK'
    BY <2>3 DEF AddTransferAddresses, DeleteTransferAddresses, TypeOK, SettingsTypeOK
  <2>4. SettingsTypeOK'
    BY <1>8, <2>2, <2>3 DEF ChangeSettings, SettingsCalls
  <2>5. UNCHANGED store /\ UNCHANGED wire /\ UNCHANGED supply
    BY <2>1 DEF ledgerVars
  <2> QED
    BY <1>2, <2>1, <2>4, <2>5
<1>9. ASSUME ChangeRolesOrOwner PROVE LedgerTypes
  <2>1. UNCHANGED <<flags, settings, transferAddresses>>
    BY <1>9 DEF ChangeRolesOrOwner
  <2>2. UNCHANGED store /\ UNCHANGED wire /\ UNCHANGED supply
    BY <1>9 DEF ChangeRolesOrOwner
  <2> QED
    BY <1>2, <2>1, <2>2, OnlyLedgerTypes
<1>10. ASSUME NewEpoch PROVE LedgerTypes
  <2>1. FlagsTypeOK' /\ UNCHANGED settings /\ UNCHANGED transferAddresses
    BY <1>10 DEF NewEpoch, EnableFlag, TypeOK, FlagsTypeOK
  <2>2. UNCHANGED store /\ UNCHANGED wire /\ UNCHANGED supply
    BY <1>10 DEF NewEpoch
  <2> QED
    BY <1>2, <2>1, <2>2 DEF TypeOK, SettingsTypeOK
<1>11. ASSUME UNCHANGED vars PROVE LedgerTypes
  <2>1. UNCHANGED <<flags, settings, transferAddresses>>
    BY <1>11 DEF vars
  <2>2. UNCHANGED store /\ UNCHANGED wire /\ UNCHANGED supply
    BY <1>11 DEF vars
  <2> QED
    BY <1>2, <2>1, <2>2, OnlyLedgerTypes
<1> HIDE DEF LedgerTypes
<1>12. LedgerTypes
  BY <1>3, <1>4, <1>5, <1>6, <1>7, <1>8, <1>9, <1>10, <1>11 DEF Next, SystemCalls
<1> QED
  BY <1>1, <1>12 DEF TypeOK, LedgerTypes

LEMMA InitLedgerTypeOK == Init => TypeOK
<1> SUFFICES ASSUME Init PROVE TypeOK
  OBVIOUS
<1>1. FlagsTypeOK /\ SettingsTypeOK
  BY DEF Init, FlagsInit, FlagsTypeOK, SettingsInit, SettingsTypeOK
<1>2. RolesTypeOK
  BY InitTypeOK DEF Init
<1> QED
  BY <1>1, <1>2, EntryTypes DEF Init, TypeOK

\* Every balance, system entry, message and setting has a value the code gives
\* it; no balance and no liquidity is negative.
THEOREM LedgerTypeCorrect == Spec => []TypeOK
<1>1. Init => TypeOK
  BY InitLedgerTypeOK
<1>2. TypeOK /\ [Next]_vars => TypeOK'
  BY NextLedgerTypeOK
<1> QED
  BY <1>1, <1>2, PTL DEF Spec

\* The ledger follows the protocol of the roles.
THEOREM LedgerFollowsRoles == Spec => RolesSpec
<1>1. Init => RolesInit
  BY DEF Init
<1>2. [Next]_vars => [RolesNext]_roleVars
  BY StepIsRolesStep
<1> QED
  BY <1>1, <1>2, PTL DEF Spec, RolesSpec

\* So the nonces are unique in the whole ledger, and one account creates.
THEOREM LedgerNoncesAreUnique ==
    ASSUME ~MultiShard, SerialHandover
    PROVE  Spec => [](NonceNeverReused /\ UniqueCreator)
<1>1. RolesInv => NonceNeverReused /\ UniqueCreator
  BY RoleIsSomewhere DEF RolesInv
<1> QED
  BY <1>1, LedgerFollowsRoles, RolesInvariant, PTL

-----------------------------------------------------------------------------
\* The check of the storage handler refuses a holding that stands still.
LEMMA HeldStillIsRefused ==
    ASSUME NEW st, NEW a \in Accounts, NEW n \in Nonces, NEW tok,
           HeldStill(a, n), st.entry[a][0].frozen = store.entry[a][0].frozen
    PROVE  /\ tok.frozen = store.entry[a][n].frozen => Refused(st, a, tok, FALSE)
           /\ st.entry[a][n] = store.entry[a][n] => AddRefused(st, a, n, tok, FALSE)
<1>1. \/ store.entry[a][n].frozen
      \/ On(CheckFrozenCollection) /\ st.entry[a][0].frozen
      \/ settings[ShardOf[a]]["paused"]
  BY DEF HeldStill
<1> QED
  BY <1>1 DEF Refused, AddRefused, FrozenOrPaused

\* The step property, for one account and one nonce.
StandsStill(a, n) ==
    HeldStill(a, n) /\ store'.entry[a][n] # store.entry[a][n] =>
        \/ WipedNow(a, n) \/ ReturnedNow(a, n) \/ minted'[n] # minted[n]
        \/ \E v \in BOOLEAN : Freeze(a, n, v)

\* A step that touches nobody's entry for a nonce but those of A leaves the
\* others' entries alone.
LEMMA UntouchedBalance ==
    ASSUME NEW A, NEW m, Touches(A, m), NEW a \in Accounts, NEW n \in Nonces, a \notin A \/ n # m
    PROVE  store'.entry[a][n] = store.entry[a][n] /\ Balance(a, n)' = Balance(a, n)
BY ConstantTypes DEF Touches, Balance

LEMMA StepStandsStill ==
    ASSUME TypeOK, [Next]_vars, NEW a \in Accounts, NEW n \in Nonces
    PROVE  StandsStill(a, n)
<1>1. store \in StoreType /\ 0 \in Keys /\ n \in Keys /\ n # 0
  BY KeysAreNonces DEF TypeOK
<1>2. ASSUME NEW c \in Accounts, UserCalls(c)
      PROVE  StandsStill(a, n)
  <2>1. ASSUME NEW q \in Quantities, NFTCreate(c, q)
        PROVE  StandsStill(a, n)
    <3>1. Touches({c}, latestNonce[c] + 1) /\ latestNonce[c] + 1 \in Nonces
      BY <2>1, CreateTouches
    <3>2. CASE n # latestNonce[c] + 1
      BY <3>1, <3>2, UntouchedBalance DEF StandsStill
    <3>3. CASE n = latestNonce[c] + 1
      <4>1. minted' = [minted EXCEPT ![n] = @ + 1]
        BY <2>1, <3>3 DEF NFTCreate, AllocateNonce
      <4>2. minted'[n] = minted[n] + 1 /\ minted[n] \in Int
        BY <4>1 DEF TypeOK, RolesTypeOK
      <4>3. minted'[n] # minted[n]
        BY <4>2
      <4> QED
        BY <4>3 DEF StandsStill
    <3> QED
      BY <3>2, <3>3
  <2>2. ASSUME NEW m \in Nonces, NEW q \in Quantities, NFTAddQuantity(c, m, q) \/ NFTBurn(c, m, q)
        PROVE  StandsStill(a, n)
    <3>1. q \in Nat /\ m \in Keys /\ Balance(c, m) \in Nat
      BY <1>1, ConstantTypes, BalanceType DEF Balance
    <3>2. PICK delta \in {q, -q} : ChangeQuantity(c, m, delta) /\ Balance(c, m) + delta \in Nat
      BY <2>2, <3>1 DEF NFTAddQuantity, NFTBurn, Balance
    <3>3. Touches({c}, m)
      BY <3>1, <3>2, ChangeQuantityTouches
    <3>4. CASE a # c \/ n # m
      BY <3>3, <3>4, UntouchedBalance DEF StandsStill
    <3>5. CASE a = c /\ n = m
      <4> DEFINE tok == [Token(store, a, n) EXCEPT !.value = Token(store, a, n).value + delta]
      <4>1. ~Refused(store, a, tok, FALSE)
        BY <3>2, <3>5 DEF ChangeQuantity
      <4>2. tok.frozen = store.entry[a][n].frozen
        <5>1. Token(store, a, n) \in Entry /\ Token(store, a, n).frozen = store.entry[a][n].frozen
          BY <1>1, TokenRead
        <5> HIDE DEF Token
        <5> QED
          BY <5>1 DEF Entry
      <4> HIDE DEF tok
      <4> QED
        BY <4>1, <4>2, HeldStillIsRefused DEF StandsStill
    <3> QED
      BY <3>4, <3>5
  <2>3. ASSUME NEW m \in Nonces, UpdateMetaData(c, m)
        PROVE  StandsStill(a, n)
    <3>1. Touches({c}, m)
      BY <2>3, UpdateTouches
    <3>2. CASE a # c \/ n # m
      BY <3>1, <3>2, UntouchedBalance DEF StandsStill
    <3>3. CASE a = c /\ n = m
      <4>1. ~Refused(store, a, Token(store, a, n), FALSE)
        BY <2>3, <3>3 DEF UpdateMetaData
      <4>2. Token(store, a, n).frozen = store.entry[a][n].frozen
        BY <1>1, TokenRead
      <4> HIDE DEF Token
      <4> QED
        BY <4>1, <4>2, HeldStillIsRefused DEF StandsStill
    <3> QED
      BY <3>2, <3>3
  <2>4. ASSUME NEW b \in Accounts, NEW m \in Nonces, NEW q \in Quantities, CanSend(c, b, m, q)
        PROVE  ~HeldStill(c, m)
    BY <1>1, <2>4, TokenRead, HeldStillIsRefused DEF CanSend
  <2>5. ASSUME NEW b \in Accounts, NEW m \in Nonces, NEW q \in Quantities, NEW call \in BOOLEAN,
               TransferInShard(c, b, m, q, call)
        PROVE  StandsStill(a, n)
    <3>1. Touches({c, b}, m) /\ CanSend(c, b, m, q) /\ c # b /\ q <= store.entry[c][m].value
      BY <2>5, TransferInShardTouches DEF TransferInShard, CanSend
    <3>2. CASE a \notin {c, b} \/ n # m
      BY <3>1, <3>2, UntouchedBalance DEF StandsStill
    <3>3. CASE a = c /\ n = m
      BY <2>4, <3>1, <3>3 DEF StandsStill
    <3>4. CASE a = b /\ n = m
      <4> DEFINE tok == [Token(store, c, n) EXCEPT !.value = q]
                 mid == Taken(store, c, n, q)
      <4>1. ~AddRefused(mid, a, n, tok, FALSE)
        BY <2>5, <3>4 DEF TransferInShard
      <4>2. OnlyWrites(store, mid, c, ShardOf[c], n)
        <5>1. store \in StoreType /\ q \in Nat
          BY ConstantTypes DEF TypeOK
        <5> QED
          BY <3>1, <3>4, <5>1, TakenWrites
      <4> HIDE DEF mid, tok
      <4>3. mid.entry[a][n] = store.entry[a][n] /\ mid.entry[a][0] = store.entry[a][0]
        BY <1>1, <3>1, <3>4, <4>2 DEF OnlyWrites
      <4> QED
        BY <4>1, <4>3, HeldStillIsRefused DEF StandsStill
    <3> QED
      BY <3>2, <3>3, <3>4
  <2>6. ASSUME NEW i \in 1..Slots, NEW b \in Accounts, NEW m \in Nonces, NEW q \in Quantities,
               NEW call \in BOOLEAN, TransferLeaves(i, c, b, m, q, call)
        PROVE  StandsStill(a, n)
    <3>1. Touches({c}, m) /\ CanSend(c, b, m, q)
      BY <2>6, TransferLeavesTouches DEF TransferLeaves
    <3>2. CASE a # c \/ n # m
      BY <3>1, <3>2, UntouchedBalance DEF StandsStill
    <3>3. CASE a = c /\ n = m
      BY <2>4, <3>1, <3>3 DEF StandsStill
    <3> QED
      BY <3>2, <3>3
  <2> QED
    BY <1>2, <2>1, <2>2, <2>3, <2>5, <2>6 DEF UserCalls
<1>3. ASSUME NEW i \in 1..Slots, TransferArrives(i)
      PROVE  StandsStill(a, n)
  <2>1. /\ Touches({wire[i].to}, wire[i].nonce) /\ wire[i] # Free /\ Accepted(wire[i])
        /\ store'.entry[wire[i].to][wire[i].nonce].value
             = Balance(wire[i].to, wire[i].nonce) + wire[i].value
        /\ wire' = [wire EXCEPT ![i] = Free]
    BY <1>3, TransferArrivesTouches DEF TransferArrives
  <2>2. CASE a # wire[i].to \/ n # wire[i].nonce
    BY <2>1, <2>2, UntouchedBalance DEF StandsStill
  <2>3. CASE a = wire[i].to /\ n = wire[i].nonce /\ wire[i].phase = "returning"
    <3>1. i \in InFlight(n) /\ wire'[i] = Free
      BY <2>1, <2>3 DEF InFlight, TypeOK
    <3>2. Balance(a, n)' = Balance(a, n) + wire[i].value
      BY <2>1, <2>3 DEF Balance
    <3> QED
      BY <2>3, <3>1, <3>2 DEF StandsStill, ReturnedNow
  <2>4. CASE a = wire[i].to /\ n = wire[i].nonce /\ wire[i].phase # "returning"
    <3>1. ~AddRefused(store, a, n, Carried(wire[i]), FALSE)
      BY <2>1, <2>4 DEF Accepted
    <3> QED
      BY <3>1, HeldStillIsRefused DEF StandsStill
  <2> QED
    BY <2>2, <2>3, <2>4
<1>4. ASSUME NEW i \in 1..Slots, TransferFails(i)
      PROVE  StandsStill(a, n)
  BY <1>4, TransferFailsTouches, UntouchedBalance DEF StandsStill
<1>5. ASSUME NEW c \in Accounts, NEW k \in Keys, \E v \in BOOLEAN : Freeze(c, k, v)
      PROVE  StandsStill(a, n)
  <2>1. CASE a # c \/ n # k
    <3>1. \A d \in Accounts, j \in Keys : d # c \/ j # k => store'.entry[d][j] = store.entry[d][j]
      BY <1>5, FreezeTouches
    <3> QED
      BY <1>1, <2>1, <3>1 DEF StandsStill
  <2>2. CASE a = c /\ n = k
    BY <1>5, <2>2 DEF StandsStill
  <2> QED
    BY <2>1, <2>2
<1>6. ASSUME NEW c \in Accounts, NEW k \in Keys, Wipe(c, k)
      PROVE  StandsStill(a, n)
  <2>1. CASE a # c \/ n # k
    <3>1. store'.entry[a][n] = store.entry[a][n]
      BY <1>1, <1>6, <2>1, WipeTouches
    <3> QED
      BY <3>1 DEF StandsStill
  <2>2. CASE a = c /\ n = k
    <3>1. supply'[n] = supply[n] - store.entry[a][n].value /\ store.entry[a][n].frozen
      BY <1>1, <1>6, <2>2 DEF Wipe, TypeOK
    <3>2. store'.entry[a][n] = NoEntry
      BY <1>6, <2>2, WipeTouches
    <3> QED
      BY <3>1, <3>2 DEF StandsStill, WipedNow, Balance
  <2> QED
    BY <2>1, <2>2
<1>7. ASSUME NEW m \in Nonces, DeleteMetaData(m) \/ AddMetaData(m)
      PROVE  StandsStill(a, n)
  BY <1>7, MetaDataTouches, UntouchedBalance DEF StandsStill
<1>8. ASSUME UNCHANGED store
      PROVE  StandsStill(a, n)
  BY <1>8 DEF StandsStill
<1>9. ASSUME ChangeSettings \/ ChangeRolesOrOwner \/ NewEpoch \/ (\E i \in 1..Slots : ReturnFails(i))
             \/ UNCHANGED vars
      PROVE  UNCHANGED store
  BY <1>9 DEF ChangeSettings, SettingsCalls, ChangeRolesOrOwner, NewEpoch, ReturnFails, vars
<1> QED
  BY <1>2, <1>3, <1>4, <1>5, <1>6, <1>7, <1>8, <1>9 DEF Next, SystemCalls, Settle

\* Balance, flag and metadata of a frozen or paused holding change only when it
\* is wiped, frozen or unfrozen, when a failed transfer comes back to it, or
\* when its nonce is created.
THEOREM HeldHoldingsStand == Spec => HeldStillStands
<1>1. TypeOK /\ [Next]_vars =>
        [\A a \in Accounts, n \in Nonces :
            HeldStill(a, n) /\ store'.entry[a][n] # store.entry[a][n] =>
                \/ WipedNow(a, n) \/ ReturnedNow(a, n) \/ minted'[n] # minted[n]
                \/ \E v \in BOOLEAN : Freeze(a, n, v)]_vars
  BY StepStandsStill DEF StandsStill
<1> QED
  BY <1>1, LedgerTypeCorrect, PTL DEF Spec, HeldStillStands

-----------------------------------------------------------------------------
\* Nobody has the nonce and none of it is on its way: at most an empty entry
\* was frozen in advance, which every call refuses.
Blank(n) ==
    /\ \A a \in Accounts : /\ store.entry[a][n].value = 0
                           /\ store.entry[a][n] = NoEntry \/ store.entry[a][n].frozen
    /\ InFlight(n) = {}

NoMetaData(n) == \A s \in Shards : ~store.system[s][n].exists

\* A step leaves a blank nonce blank, and one without metadata without it.
LeftAlone(n) == Blank(n)' /\ (NoMetaData(n) => NoMetaData(n)')

BlankBeforeCreation == \A n \in Nonces : minted[n] = 0 => Blank(n)
NoMetaDataBeforeCreation == \A n \in Nonces : minted[n] = 0 => NoMetaData(n)

LEMMA MintedGrows ==
    ASSUME RolesTypeOK, [RolesNext]_roleVars, NEW n \in Nonces
    PROVE  minted'[n] = minted[n] \/ minted'[n] = minted[n] + 1
<1>1. ASSUME NEW a \in Accounts, AllocateNonce(a)
      PROVE  minted'[n] = minted[n] \/ minted'[n] = minted[n] + 1
  BY <1>1 DEF AllocateNonce, RolesTypeOK
<1>2. CASE RoleAdministration \/ UNCHANGED roleVars
  BY <1>2 DEF RoleAdministration, SetRole, UnSetRole, ChangeRoles, IssueHandover, HandoverStep,
              HandoverInShard, HandoverLeaves, HandoverArrives, roleVars
<1> QED
  BY <1>1, <1>2 DEF RolesNext

\* A step for another nonce, or for none, leaves a blank one alone.
LEMMA OtherNonce ==
    ASSUME TypeOK, NEW n \in Nonces, Blank(n), NEW A, NEW m, Touches(A, m), m # n,
           \A i \in 1..Slots : wire'[i] = wire[i] \/ wire'[i] = Free \/ wire'[i].nonce # n
    PROVE  LeftAlone(n)
<1>1. \A a \in Accounts : store'.entry[a][n] = store.entry[a][n]
  BY ConstantTypes DEF Touches
<1>2. \A s \in Shards : store'.system[s][n] = store.system[s][n]
  BY DEF Touches
<1>3. InFlight(n)' = {}
  BY DEF Blank, InFlight
<1> QED
  BY <1>1, <1>2, <1>3 DEF LeftAlone, Blank, NoMetaData

\* No call gets past the checks with a nonce that was not created.
LEMMA BlankIsRefused ==
    ASSUME TypeOK, NEW n \in Nonces, Blank(n), NEW a \in Accounts, store.entry[a][n] # NoEntry,
           NEW tok, tok.frozen = store.entry[a][n].frozen
    PROVE  Refused(store, a, tok, FALSE)
BY DEF Blank, Refused, FrozenOrPaused

LEMMA MintedIsNat == TypeOK => \A n \in Nonces : minted[n] \in Nat
<1> SUFFICES ASSUME TypeOK, NEW n \in Nonces PROVE minted[n] \in Nat
  OBVIOUS
<1>1. minted \in [Nonces -> 0..2]
  BY DEF TypeOK, RolesTypeOK
<1> QED
  BY <1>1

LEMMA StepKeepsBlank ==
    ASSUME TypeOK, [Next]_vars, NEW n \in Nonces, minted'[n] = 0, Blank(n)
    PROVE  Blank(n)' /\ ("metadata" \notin Operations => LeftAlone(n))
<1>1. store \in StoreType /\ n \in Keys
  BY ConstantTypes DEF TypeOK
<1>2. ASSUME UNCHANGED wire
      PROVE  \A i \in 1..Slots : wire'[i] = wire[i] \/ wire'[i] = Free \/ wire'[i].nonce # n
  BY <1>2
<1>3. ASSUME NEW c \in Accounts, UserCalls(c)
      PROVE  LeftAlone(n)
  <2>1. ASSUME NEW q \in Quantities, NFTCreate(c, q)
        PROVE  LeftAlone(n)
    <3>1. Touches({c}, latestNonce[c] + 1) /\ latestNonce[c] + 1 \in Nonces /\ UNCHANGED wire
      BY <2>1, CreateTouches DEF NFTCreate
    <3>2. minted' = [minted EXCEPT ![latestNonce[c] + 1] = @ + 1]
      BY <2>1 DEF NFTCreate, AllocateNonce
    <3>3. minted[n] \in Nat
      BY MintedIsNat
    <3>4. n # latestNonce[c] + 1
      BY <3>1, <3>2, <3>3 DEF TypeOK, RolesTypeOK
    <3> QED
      BY <1>2, <3>1, <3>4, OtherNonce
  <2>2. ASSUME NEW m \in Nonces, NEW q \in Quantities, NFTAddQuantity(c, m, q) \/ NFTBurn(c, m, q)
        PROVE  LeftAlone(n)
    <3>1. q \in Nat /\ m \in Keys /\ Balance(c, m) \in Nat
      BY <1>1, ConstantTypes, BalanceType DEF Balance
    <3>2. PICK delta \in {q, -q} : ChangeQuantity(c, m, delta) /\ Balance(c, m) + delta \in Nat
      BY <2>2, <3>1 DEF NFTAddQuantity, NFTBurn, Balance
    <3>3. Touches({c}, m)
      BY <3>1, <3>2, ChangeQuantityTouches
    <3>4. UNCHANGED wire
      BY <3>2 DEF ChangeQuantity
    <3>5. m # n
      <4> DEFINE tok == [Token(store, c, m) EXCEPT !.value = Token(store, c, m).value + delta]
      <4>1. ~Refused(store, c, tok, FALSE) /\ store.entry[c][m] # NoEntry
        BY <3>2 DEF ChangeQuantity
      <4>2. tok.frozen = store.entry[c][m].frozen
        <5>1. Token(store, c, m) \in Entry /\ Token(store, c, m).frozen = store.entry[c][m].frozen
          BY <1>1, TokenRead
        <5> HIDE DEF Token
        <5> QED
          BY <5>1 DEF Entry
      <4> HIDE DEF tok
      <4> QED
        BY <4>1, <4>2, BlankIsRefused
    <3> QED
      BY <1>2, <3>3, <3>4, <3>5, OtherNonce
  <2>3. ASSUME NEW m \in Nonces, UpdateMetaData(c, m)
        PROVE  LeftAlone(n)
    <3>1. Touches({c}, m) /\ UNCHANGED wire
      BY <2>3, UpdateTouches DEF UpdateMetaData
    <3>2. Token(store, c, m) # NoEntry /\ ~Refused(store, c, Token(store, c, m), FALSE)
      BY <2>3 DEF UpdateMetaData
    <3>3. store.entry[c][m] # NoEntry /\ Token(store, c, m).frozen = store.entry[c][m].frozen
      <4>1. store.entry[c][m] # NoEntry
        BY <3>2 DEF Token
      <4> QED
        BY <1>1, <4>1, TokenRead
    <3>4. m # n
      BY <3>2, <3>3, BlankIsRefused
    <3> QED
      BY <1>2, <3>1, <3>4, OtherNonce
  <2>4. ASSUME NEW b \in Accounts, NEW m \in Nonces, NEW q \in Quantities, CanSend(c, b, m, q)
        PROVE  m # n
    <3>1. store.entry[c][m] # NoEntry /\ ~Refused(store, c, Token(store, c, m), FALSE)
      BY <2>4 DEF CanSend
    <3>2. Token(store, c, m).frozen = store.entry[c][m].frozen
      BY <1>1, TokenRead
    <3> QED
      BY <3>1, <3>2, BlankIsRefused
  <2>5. ASSUME NEW b \in Accounts, NEW m \in Nonces, NEW q \in Quantities, NEW call \in BOOLEAN,
               TransferInShard(c, b, m, q, call)
        PROVE  LeftAlone(n)
    <3>1. Touches({c, b}, m) /\ m # n /\ UNCHANGED wire
      BY <2>4, <2>5, TransferInShardTouches DEF TransferInShard
    <3> QED
      BY <1>2, <3>1, OtherNonce
  <2>6. ASSUME NEW i \in 1..Slots, NEW b \in Accounts, NEW m \in Nonces, NEW q \in Quantities,
               NEW call \in BOOLEAN, TransferLeaves(i, c, b, m, q, call)
        PROVE  LeftAlone(n)
    <3>1. Touches({c}, m) /\ m # n
      BY <2>4, <2>6, TransferLeavesTouches DEF TransferLeaves
    <3>2. PICK msg : wire' = [wire EXCEPT ![i] = msg] /\ msg.nonce = m
      <4>1. PICK f, g : wire' = [wire EXCEPT ![i] =
                [phase |-> "sent", from |-> c, to |-> b, nonce |-> m, value |-> q,
                 frozen |-> f, meta |-> g, call |-> call]]
        BY <2>6 DEF TransferLeaves
      <4> DEFINE msg == [phase |-> "sent", from |-> c, to |-> b, nonce |-> m, value |-> q,
                         frozen |-> f, meta |-> g, call |-> call]
      <4>2. wire' = [wire EXCEPT ![i] = msg]
        BY <4>1
      <4>3. msg.nonce = m
        OBVIOUS
      <4> HIDE DEF msg
      <4> QED
        BY <4>2, <4>3
    <3>3. \A j \in 1..Slots : wire'[j] = wire[j] \/ wire'[j] = Free \/ wire'[j].nonce # n
      BY <3>1, <3>2 DEF TypeOK
    <3> QED
      BY <3>1, <3>3, OtherNonce
  <2> QED
    BY <1>3, <2>1, <2>2, <2>3, <2>5, <2>6 DEF UserCalls
<1>4. ASSUME NEW i \in 1..Slots, TransferArrives(i)
      PROVE  LeftAlone(n)
  <2>1. /\ Touches({wire[i].to}, wire[i].nonce) /\ wire[i] # Free
        /\ wire' = [wire EXCEPT ![i] = Free]
    BY <1>4, TransferArrivesTouches DEF TransferArrives
  <2>2. wire[i].nonce # n
    BY <2>1 DEF Blank, InFlight
  <2>3. \A j \in 1..Slots : wire'[j] = wire[j] \/ wire'[j] = Free \/ wire'[j].nonce # n
    BY <2>1 DEF TypeOK
  <2> QED
    BY <2>1, <2>2, <2>3, OtherNonce
<1>5. ASSUME NEW i \in 1..Slots, TransferFails(i)
      PROVE  LeftAlone(n)
  <2>1. Touches({}, wire[i].nonce) /\ wire[i] # Free /\ wire[i] \in MessageType
    BY <1>5, TransferFailsTouches, WireType
  <2>2. wire[i].nonce # n
    BY <2>1 DEF Blank, InFlight
  <2>3. PICK msg : wire' = [wire EXCEPT ![i] = msg] /\ msg.nonce = wire[i].nonce
    <3> DEFINE msg == [wire[i] EXCEPT !.phase = "returning", !.from = wire[i].to, !.to = wire[i].from,
                                      !.call = FALSE]
    <3>1. msg.nonce = wire[i].nonce
      BY <2>1 DEF MessageType
    <3>2. wire' = [wire EXCEPT ![i] = msg]
      BY <1>5 DEF TransferFails
    <3> HIDE DEF msg
    <3> QED
      BY <3>1, <3>2
  <2>4. \A j \in 1..Slots : wire'[j] = wire[j] \/ wire'[j] = Free \/ wire'[j].nonce # n
    BY <2>2, <2>3 DEF TypeOK
  <2> QED
    BY <2>1, <2>2, <2>4, OtherNonce
<1>6. ASSUME NEW c \in Accounts, NEW k \in Keys, \E v \in BOOLEAN : Freeze(c, k, v)
      PROVE  LeftAlone(n)
  <2>1. store'.system = store.system /\ UNCHANGED wire
    BY <1>6 DEF Freeze
  <2>2. ASSUME NEW a \in Accounts
        PROVE  /\ store'.entry[a][n].value = 0
               /\ store'.entry[a][n] = NoEntry \/ store'.entry[a][n].frozen
    <3>1. /\ store.entry[a][n] \in Entry /\ store.entry[a][n].value = 0
          /\ store.entry[a][n] = NoEntry \/ store.entry[a][n].frozen
      BY <1>1, BalanceType DEF Blank
    <3>2. CASE a # c \/ n # k
      <4>1. \A d \in Accounts, j \in Keys : d # c \/ j # k => store'.entry[d][j] = store.entry[d][j]
        BY <1>6, FreezeTouches
      <4>2. store'.entry[a][n] = store.entry[a][n]
        BY <1>1, <3>2, <4>1
      <4> QED
        BY <3>1, <4>2
    <3>3. CASE a = c /\ n = k
      <4>1. store'.entry[c][k].value = store.entry[c][k].value
        BY <1>6, FreezeTouches
      <4>2. \/ store'.entry[c][k] = NoEntry
            \/ store'.entry[c][k] = [store.entry[c][k] EXCEPT !.frozen = TRUE]
            \/ store'.entry[c][k] = [store.entry[c][k] EXCEPT !.frozen = FALSE] /\ store.entry[c][k].value # 0
        BY <1>6, FreezeTouches
      <4> QED
        BY <3>1, <3>3, <4>1, <4>2 DEF Entry
    <3> QED
      BY <3>2, <3>3
  <2> QED
    BY <2>1, <2>2 DEF LeftAlone, Blank, NoMetaData, InFlight
<1>7. ASSUME NEW c \in Accounts, NEW k \in Keys, Wipe(c, k)
      PROVE  LeftAlone(n)
  <2>1. UNCHANGED wire
    BY <1>7 DEF Wipe
  <2>2. \A t \in Shards, m \in Nonces : ~store.system[t][m].exists => store'.system[t][m] = store.system[t][m]
    BY <1>7, WipeTouches
  <2>3. \A d \in Accounts, j \in Keys : d # c \/ j # k => store'.entry[d][j] = store.entry[d][j]
    BY <1>7, WipeTouches
  <2>4. store'.entry[c][k] = NoEntry
    BY <1>7, WipeTouches
  <2>5. \A a \in Accounts : store'.entry[a][n] = store.entry[a][n] \/ store'.entry[a][n] = NoEntry
    BY <1>1, <2>3, <2>4
  <2> QED
    BY <2>1, <2>2, <2>5 DEF LeftAlone, Blank, NoMetaData, InFlight, NoEntry
<1>8. ASSUME UNCHANGED store, \A i \in 1..Slots : wire'[i] = wire[i] \/ wire'[i] = Free
      PROVE  LeftAlone(n)
  BY <1>8 DEF LeftAlone, Blank, NoMetaData, InFlight
<1>9. ASSUME ChangeSettings \/ ChangeRolesOrOwner \/ NewEpoch \/ UNCHANGED vars
      PROVE  UNCHANGED store /\ UNCHANGED wire
  BY <1>9 DEF ChangeSettings, SettingsCalls, ChangeRolesOrOwner, NewEpoch, vars
<1>10. ASSUME NEW i \in 1..Slots, ReturnFails(i)
       PROVE  UNCHANGED store /\ \A j \in 1..Slots : wire'[j] = wire[j] \/ wire'[j] = Free
  BY <1>10 DEF ReturnFails, TypeOK
<1>11. ASSUME NEW m \in Nonces, DeleteMetaData(m) \/ AddMetaData(m)
       PROVE  Blank(n)' /\ "metadata" \in Operations
  <2>1. Touches({}, m) /\ UNCHANGED wire /\ "metadata" \in Operations
    BY <1>11, MetaDataTouches DEF DeleteMetaData, AddMetaData, Called
  <2>2. \A a \in Accounts : store'.entry[a][n] = store.entry[a][n]
    BY <1>1, <2>1 DEF Touches
  <2> QED
    BY <2>1, <2>2 DEF Blank, InFlight
<1>12. \/ LeftAlone(n)
       \/ \E m \in Nonces : DeleteMetaData(m) \/ AddMetaData(m)
  BY <1>3, <1>4, <1>5, <1>6, <1>7, <1>8, <1>9, <1>10 DEF Next, SystemCalls, Settle
<1> QED
  BY <1>11, <1>12 DEF LeftAlone

LEMMA NotYetMinted ==
    ASSUME TypeOK, [Next]_vars, NEW n \in Nonces, minted'[n] = 0
    PROVE  minted[n] = 0
<1>1. minted[n] \in Nat /\ RolesTypeOK
  BY MintedIsNat DEF TypeOK
<1> QED
  BY <1>1, StepIsRolesStep, MintedGrows

\* Whatever is restored or deleted, nobody has a nonce before it is created.
LEMMA BlankBefore == Spec => []BlankBeforeCreation
<1>1. Init => BlankBeforeCreation
  <2> SUFFICES ASSUME Init PROVE BlankBeforeCreation
    OBVIOUS
  <2>1. store = EmptyStore /\ \A i \in 1..Slots : wire[i] = Free
    BY DEF Init
  <2>2. \A a \in Accounts, n \in Nonces : store.entry[a][n] = NoEntry
    BY <2>1, ConstantTypes DEF EmptyStore
  <2> QED
    BY <2>1, <2>2 DEF BlankBeforeCreation, Blank, InFlight, NoEntry
<1>2. TypeOK /\ BlankBeforeCreation /\ [Next]_vars => BlankBeforeCreation'
  BY NotYetMinted, StepKeepsBlank DEF BlankBeforeCreation
<1> QED
  BY <1>1, <1>2, LedgerTypeCorrect, PTL DEF Spec

LEMMA NothingBefore ==
    ASSUME "metadata" \notin Operations
    PROVE  Spec => []NoMetaDataBeforeCreation
<1>1. Init => NoMetaDataBeforeCreation
  <2> SUFFICES ASSUME Init PROVE NoMetaDataBeforeCreation
    OBVIOUS
  <2>1. \A s \in Shards, n \in Nonces : store.system[s][n] = NoSystemEntry
    BY DEF Init, EmptyStore
  <2> QED
    BY <2>1 DEF NoMetaDataBeforeCreation, NoMetaData, NoSystemEntry
<1>2. TypeOK /\ BlankBeforeCreation /\ NoMetaDataBeforeCreation /\ [Next]_vars
        => NoMetaDataBeforeCreation'
  <2> SUFFICES ASSUME TypeOK, BlankBeforeCreation, NoMetaDataBeforeCreation, [Next]_vars,
                      NEW n \in Nonces, minted'[n] = 0
               PROVE  NoMetaData(n)'
    BY DEF NoMetaDataBeforeCreation
  <2> QED
    BY NotYetMinted, StepKeepsBlank DEF BlankBeforeCreation, NoMetaDataBeforeCreation, LeftAlone
<1> QED
  BY <1>1, <1>2, LedgerTypeCorrect, BlankBefore, PTL DEF Spec

\* However the create role moved and whatever else happened, a nonce is
\* created where no balance, message or metadata of it is, as long as nobody
\* restores metadata of nonces that are yet to come.
THEOREM CreationFindsNothing ==
    ASSUME ~MultiShard, SerialHandover, "metadata" \notin Operations
    PROVE  Spec => CreatedInEmptyPlace
<1> DEFINE Empty(n) == /\ minted[n] = 0
                       /\ \A a \in Accounts : Balance(a, n) = 0
                       /\ InFlight(n) = {}
                       /\ \A s \in Shards : ~store.system[s][n].exists
<1>1. TypeOK /\ BlankBeforeCreation /\ NoMetaDataBeforeCreation /\ NonceNeverReused' /\ [Next]_vars
        => [\A n \in Nonces : minted'[n] # minted[n] => Empty(n)]_vars
  <2> SUFFICES ASSUME TypeOK, BlankBeforeCreation, NoMetaDataBeforeCreation, NonceNeverReused', [Next]_vars,
                      NEW n \in Nonces, minted'[n] # minted[n]
               PROVE  Empty(n)
    OBVIOUS
  <2>1. minted[n] \in Nat /\ minted'[n] <= 1 /\ RolesTypeOK
    BY MintedIsNat DEF TypeOK, NonceNeverReused
  <2>2. minted[n] = 0
    BY <2>1, StepIsRolesStep, MintedGrows
  <2> QED
    BY <2>2 DEF BlankBeforeCreation, NoMetaDataBeforeCreation, Blank, NoMetaData, Balance
<1> QED
  BY <1>1, LedgerTypeCorrect, BlankBefore, NothingBefore, LedgerNoncesAreUnique, PTL DEF Spec, CreatedInEmptyPlace

-----------------------------------------------------------------------------
\* What the accounts in A hold of nonce n in a store, and what of it is in the
\* messages of a wire.
HeldAt(st, n, A) == SumFunctionOnSet([a \in Accounts |-> st.entry[a][n].value], A)

Wires == [1..Slots -> MessageType \union {Free}]
ValueOf(m, n) == IF m # Free /\ m.nonce = n THEN m.value ELSE 0
TravelsOn(w, n) == SumFunctionOnSet([i \in 1..Slots |-> ValueOf(w[i], n)], 1..Slots)

LEMMA HeldIsNat ==
    ASSUME NEW st \in StoreType, NEW n \in Nonces, NEW A \in SUBSET Accounts
    PROVE  /\ HeldAt(st, n, A) \in Nat
           /\ \A a \in A : st.entry[a][n].value \in Nat /\ st.entry[a][n].value <= HeldAt(st, n, A)
<1> DEFINE f == [a \in Accounts |-> st.entry[a][n].value]
<1>1. IsFiniteSet(A)
  BY CoordinatorAssumption, FS_Subset
<1>2. \A a \in A : f[a] = st.entry[a][n].value /\ f[a] \in Nat
  BY ConstantTypes, BalanceType
<1>3. HeldAt(st, n, A) = SumFunctionOnSet(f, A)
  BY DEF HeldAt
<1> HIDE DEF f
<1>4. SumFunctionOnSet(f, A) \in Nat /\ \A a \in A : f[a] <= SumFunctionOnSet(f, A)
  BY <1>1, <1>2, SumIsNat
<1> QED
  BY <1>2, <1>3, <1>4

\* Where no value changes nothing does, and where one does the sum changes by
\* as much, if the account is counted.
LEMMA HeldChanges ==
    ASSUME NEW st \in StoreType, NEW st2 \in StoreType, NEW n \in Nonces, NEW A \in SUBSET Accounts,
           NEW a \in Accounts, NEW delta \in Int,
           st2.entry[a][n].value = st.entry[a][n].value + delta,
           \A c \in Accounts \ {a} : st2.entry[c][n].value = st.entry[c][n].value
    PROVE  HeldAt(st2, n, A) = IF a \in A THEN HeldAt(st, n, A) + delta ELSE HeldAt(st, n, A)
<1> DEFINE f == [c \in Accounts |-> st.entry[c][n].value]
           g == [c \in Accounts |-> st2.entry[c][n].value]
<1>1. IsFiniteSet(A)
  BY CoordinatorAssumption, FS_Subset
<1>2. \A c \in Accounts : /\ f[c] = st.entry[c][n].value /\ f[c] \in Int
                          /\ g[c] = st2.entry[c][n].value /\ g[c] \in Int
  BY ConstantTypes, BalanceType
<1>3. HeldAt(st, n, A) = SumFunctionOnSet(f, A) /\ HeldAt(st2, n, A) = SumFunctionOnSet(g, A)
  BY DEF HeldAt
<1> HIDE DEF f, g
<1>4. \A c \in Accounts \ {a} : f[c] = g[c]
  BY <1>2
<1>5. CASE a \in A
  <2>1. \A c \in A : f[c] \in Int /\ g[c] \in Int
    BY <1>2
  <2>2. \A c \in A \ {a} : f[c] = g[c]
    BY <1>4
  <2>3. /\ SumFunctionOnSet(f, A) \in Int
        /\ SumFunctionOnSet(g, A) = SumFunctionOnSet(f, A) - f[a] + g[a]
    BY <1>1, <1>5, <2>1, <2>2, SumChanges
  <2> QED
    BY <1>2, <1>3, <1>5, <2>3
<1>6. CASE a \notin A
  <2>1. \A c \in A : f[c] = g[c]
    BY <1>4, <1>6
  <2>2. SumFunctionOnSet(f, A) = SumFunctionOnSet(g, A)
    BY <1>1, <2>1, SumSame
  <2> QED
    BY <1>3, <1>6, <2>2
<1> QED
  BY <1>5, <1>6

LEMMA HeldSame ==
    ASSUME NEW st \in StoreType, NEW st2 \in StoreType, NEW n \in Nonces, NEW A \in SUBSET Accounts,
           \A c \in Accounts : st2.entry[c][n].value = st.entry[c][n].value
    PROVE  HeldAt(st2, n, A) = HeldAt(st, n, A)
<1> DEFINE f == [c \in Accounts |-> st.entry[c][n].value]
           g == [c \in Accounts |-> st2.entry[c][n].value]
<1>1. f = g
  OBVIOUS
<1> QED
  BY <1>1 DEF HeldAt

\* One entry changes: every sum of its nonce that counts the account does.
LEMMA OneEntryChanges ==
    ASSUME NEW st \in StoreType, NEW st2 \in StoreType, NEW a \in Accounts, NEW n \in Nonces,
           NEW delta \in Int, st2.entry[a][n].value = st.entry[a][n].value + delta,
           \A c \in Accounts, k \in Keys : c # a \/ k # n => st2.entry[c][k] = st.entry[c][k],
           NEW m \in Nonces, NEW A \in SUBSET Accounts
    PROVE  HeldAt(st2, m, A) = IF m = n /\ a \in A THEN HeldAt(st, m, A) + delta ELSE HeldAt(st, m, A)
<1>1. m \in Keys
  BY ConstantTypes
<1>2. CASE m = n
  <2>1. \A c \in Accounts \ {a} : st2.entry[c][n].value = st.entry[c][n].value
    BY <1>1, <1>2
  <2> QED
    BY <1>2, <2>1, HeldChanges
<1>3. CASE m # n
  BY <1>1, <1>3, HeldSame
<1> QED
  BY <1>2, <1>3

\* A quantity is taken from one account and added to another: the sums that
\* count both or neither stay.
LEMMA MovedBetween ==
    ASSUME NEW st \in StoreType, NEW a \in Accounts, NEW b \in Accounts, NEW n \in Nonces,
           NEW q \in Nat, q <= st.entry[a][n].value, NEW tok \in Entry, tok.value = q,
           NEW new, new = Added(Taken(st, a, n, q), a, b, n, tok)
    PROVE  /\ new \in StoreType
           /\ \A c \in Accounts, k \in Keys : c \notin {a, b} \/ k # n => new.entry[c][k] = st.entry[c][k]
           /\ \A m \in Nonces, A \in SUBSET Accounts : (a \in A <=> b \in A) =>
                 HeldAt(new, m, A) = HeldAt(st, m, A)
<1> DEFINE mid == Taken(st, a, n, q)
<1>1. q \in Int /\ -q \in Int /\ n \in Keys /\ st.entry[a][n].value \in Int
  BY ConstantTypes, BalanceType
<1>2. /\ mid \in StoreType /\ OnlyWrites(st, mid, a, ShardOf[a], n)
      /\ mid.entry[a][n].value = st.entry[a][n].value + (-q)
  BY <1>1, TakenWrites
<1> HIDE DEF mid
<1>3. /\ new \in StoreType /\ OnlyWrites(mid, new, b, ShardOf[b], n)
      /\ new.entry[b][n].value = tok.value + mid.entry[b][n].value
  <2>1. new = Added(mid, a, b, n, tok)
    BY DEF mid
  <2> QED
    BY <1>2, <2>1, AddedWrites
<1>4. mid.entry[b][n].value \in Int
  BY <1>1, <1>2, BalanceType
<1>5. new.entry[b][n].value = mid.entry[b][n].value + q
  BY <1>1, <1>3, <1>4
<1>6. \A c \in Accounts, k \in Keys : c \notin {a, b} \/ k # n => new.entry[c][k] = st.entry[c][k]
  BY <1>2, <1>3 DEF OnlyWrites
<1>7. ASSUME NEW m \in Nonces, NEW A \in SUBSET Accounts, a \in A <=> b \in A
      PROVE  HeldAt(new, m, A) = HeldAt(st, m, A)
  <2>1. HeldAt(mid, m, A) = IF m = n /\ a \in A THEN HeldAt(st, m, A) + (-q) ELSE HeldAt(st, m, A)
    <3>1. \A c \in Accounts, k \in Keys : c # a \/ k # n => mid.entry[c][k] = st.entry[c][k]
      BY <1>2 DEF OnlyWrites
    <3> QED
      BY <1>1, <1>2, <3>1, OneEntryChanges
  <2>2. HeldAt(new, m, A) = IF m = n /\ b \in A THEN HeldAt(mid, m, A) + q ELSE HeldAt(mid, m, A)
    <3>1. \A c \in Accounts, k \in Keys : c # b \/ k # n => new.entry[c][k] = mid.entry[c][k]
      BY <1>3 DEF OnlyWrites
    <3> QED
      BY <1>1, <1>2, <1>3, <1>5, <3>1, OneEntryChanges
  <2>3. HeldAt(st, m, A) \in Int
    BY HeldIsNat
  <2> QED
    BY <1>1, <1>7, <2>1, <2>2, <2>3
<1> QED
  BY <1>3, <1>6, <1>7

\* What is in flight, as a sum over all slots.
LEMMA TravellingIs ==
    ASSUME TypeOK, NEW n \in Nonces
    PROVE  Travelling(n) = TravelsOn(wire, n)
<1> DEFINE I == 1..Slots
           J == InFlight(n)
           f == [i \in I |-> ValueOf(wire[i], n)]
           g == [i \in I |-> IF wire[i] = Free THEN 0 ELSE wire[i].value]
<1>1. IsFiniteSet(I) /\ J \in SUBSET I
  BY LedgerAssumption, FS_Interval DEF InFlight
<1>2. \A i \in I : f[i] \in Int
  BY DEF TypeOK, MessageType, ValueOf
<1>3. \A i \in I \ J : f[i] = 0
  BY DEF InFlight, ValueOf
<1>4. \A i \in J : f[i] = g[i]
  BY DEF InFlight, ValueOf
<1>5. Travelling(n) = SumFunctionOnSet(g, J) /\ TravelsOn(wire, n) = SumFunctionOnSet(f, I)
  BY DEF Travelling, TravelsOn
<1> HIDE DEF f, g, I, J
<1>6. SumFunctionOnSet(f, J) = SumFunctionOnSet(f, I)
  BY <1>1, <1>2, <1>3, SumRestricts
<1>7. IsFiniteSet(J)
  BY <1>1, FS_Subset
<1>8. SumFunctionOnSet(f, J) = SumFunctionOnSet(g, J)
  BY <1>4, <1>7, SumSame
<1> QED
  BY <1>5, <1>6, <1>8

\* One message changes, and what is in flight by as much.
LEMMA TravellingChanges ==
    ASSUME NEW w \in Wires, NEW i \in 1..Slots, NEW m \in MessageType \union {Free}, NEW n \in Nonces
    PROVE  /\ TravelsOn(w, n) \in Int
           /\ TravelsOn([w EXCEPT ![i] = m], n) = TravelsOn(w, n) - ValueOf(w[i], n) + ValueOf(m, n)
           /\ ValueOf(w[i], n) \in Int /\ ValueOf(m, n) \in Int
<1> DEFINE I == 1..Slots
           w2 == [w EXCEPT ![i] = m]
           f == [j \in I |-> ValueOf(w[j], n)]
           g == [j \in I |-> ValueOf(w2[j], n)]
<1>1. IsFiniteSet(I) /\ i \in I
  BY LedgerAssumption, FS_Interval
<1>2. \A x \in MessageType \union {Free} : ValueOf(x, n) \in Int
  BY DEF ValueOf, MessageType
<1>3. w2[i] = m /\ \A j \in I : w2[j] \in MessageType \union {Free} /\ (j # i => w2[j] = w[j])
  BY DEF Wires
<1>4. TravelsOn(w, n) = SumFunctionOnSet(f, I) /\ TravelsOn(w2, n) = SumFunctionOnSet(g, I)
  BY DEF TravelsOn
<1> HIDE DEF w2
<1>5. \A j \in I : /\ f[j] = ValueOf(w[j], n) /\ f[j] \in Int
                   /\ g[j] = ValueOf(w2[j], n) /\ g[j] \in Int
  BY <1>2, <1>3 DEF Wires
<1> HIDE DEF f, g, I
<1>6. \A j \in I \ {i} : f[j] = g[j]
  BY <1>3, <1>5
<1>7. /\ SumFunctionOnSet(f, I) \in Int
      /\ SumFunctionOnSet(g, I) = SumFunctionOnSet(f, I) - f[i] + g[i]
  <2>1. (\A j \in I : f[j] \in Int) /\ (\A j \in I : g[j] \in Int)
    BY <1>5
  <2> QED
    BY <1>1, <1>6, <2>1, SumChanges, ZenonT(40)
<1>8. f[i] = ValueOf(w[i], n) /\ g[i] = ValueOf(m, n) /\ f[i] \in Int /\ g[i] \in Int
  BY <1>1, <1>3, <1>5
<1> QED
  BY <1>4, <1>7, <1>8 DEF w2

-----------------------------------------------------------------------------
\* SupplyConserved, over all slots.
Conserved == \A n \in Nonces : HeldAt(store, n, Accounts) + TravelsOn(wire, n) = supply[n]

LEMMA ConservedIsSupply == TypeOK /\ Conserved => SupplyConserved
<1> SUFFICES ASSUME TypeOK, Conserved, NEW n \in Nonces
             PROVE  Held(n, Accounts) + Travelling(n) = supply[n]
  BY DEF SupplyConserved
<1>1. Held(n, Accounts) = HeldAt(store, n, Accounts)
  BY DEF Held, HeldAt, Balance
<1> QED
  BY <1>1, TravellingIs DEF Conserved

\* By how much a step changes what is held, in flight and supplied of a nonce.
HoldingsGrow(n, delta) ==
    \A m \in Nonces : HeldAt(store', m, Accounts)
        = IF m = n THEN HeldAt(store, m, Accounts) + delta ELSE HeldAt(store, m, Accounts)
FlightGrows(n, delta) ==
    \A m \in Nonces : TravelsOn(wire', m)
        = IF m = n THEN TravelsOn(wire, m) + delta ELSE TravelsOn(wire, m)
SupplyGrows(n, delta) ==
    \A m \in Nonces : supply'[m] = IF m = n THEN supply[m] + delta ELSE supply[m]

LEMMA WireSums ==
    ASSUME NEW w \in Wires, NEW n \in Nonces
    PROVE  TravelsOn(w, n) \in Int
<1> DEFINE I == 1..Slots
           f == [i \in I |-> ValueOf(w[i], n)]
<1>1. IsFiniteSet(I) /\ \A i \in I : f[i] \in Int
  BY LedgerAssumption, FS_Interval DEF Wires, MessageType, ValueOf
<1>2. TravelsOn(w, n) = SumFunctionOnSet(f, I)
  BY DEF TravelsOn
<1> HIDE DEF f, I
<1> QED
  BY <1>1, <1>2, SumAdds

LEMMA SumTypes ==
    ASSUME TypeOK, NEW n \in Nonces
    PROVE  HeldAt(store, n, Accounts) \in Int /\ TravelsOn(wire, n) \in Int /\ supply[n] \in Int
<1>1. HeldAt(store, n, Accounts) \in Int
  BY HeldIsNat DEF TypeOK
<1>2. wire \in Wires
  BY DEF TypeOK, Wires
<1> QED
  BY <1>1, <1>2, WireSums DEF TypeOK

\* The step keeps the difference between what there is of a nonce and its supply.
SumsKept == \A n \in Nonces :
    HeldAt(store', n, Accounts) + TravelsOn(wire', n) - supply'[n]
      = HeldAt(store, n, Accounts) + TravelsOn(wire, n) - supply[n]

LEMMA Balanced ==
    ASSUME TypeOK, NEW n \in Nonces, NEW dh \in Int, NEW dt \in Int,
           HoldingsGrow(n, dh), FlightGrows(n, dt), SupplyGrows(n, dh + dt)
    PROVE  SumsKept
<1> SUFFICES ASSUME NEW m \in Nonces
             PROVE  HeldAt(store', m, Accounts) + TravelsOn(wire', m) - supply'[m]
                      = HeldAt(store, m, Accounts) + TravelsOn(wire, m) - supply[m]
  BY DEF SumsKept
<1> QED
  BY SumTypes DEF HoldingsGrow, FlightGrows, SupplyGrows

LEMMA TouchedHoldings ==
    ASSUME TypeOK, NEW a \in Accounts, NEW n \in Nonces, NEW delta \in Int, Touches({a}, n),
           store'.entry[a][n].value = Balance(a, n) + delta
    PROVE  HoldingsGrow(n, delta)
<1>1. /\ store \in StoreType /\ store' \in StoreType
      /\ store'.entry[a][n].value = store.entry[a][n].value + delta
      /\ \A c \in Accounts, k \in Keys : c # a \/ k # n => store'.entry[c][k] = store.entry[c][k]
  BY DEF TypeOK, Touches, Balance
<1> QED
  BY <1>1, OneEntryChanges DEF HoldingsGrow

LEMMA SameHoldings ==
    ASSUME TypeOK, NEW n \in Nonces, store' \in StoreType,
           \A c \in Accounts, k \in Nonces : store'.entry[c][k].value = store.entry[c][k].value
    PROVE  HoldingsGrow(n, 0)
<1>1. \A m \in Nonces : HeldAt(store', m, Accounts) = HeldAt(store, m, Accounts)
  BY HeldSame DEF TypeOK
<1> QED
  BY <1>1, SumTypes DEF HoldingsGrow

LEMMA SameFlight ==
    ASSUME TypeOK, NEW n \in Nonces, UNCHANGED wire
    PROVE  FlightGrows(n, 0)
BY SumTypes DEF FlightGrows

LEMMA SameSupply ==
    ASSUME TypeOK, NEW n \in Nonces, UNCHANGED supply
    PROVE  SupplyGrows(n, 0)
BY SumTypes DEF SupplyGrows

\* A message takes the place of a free slot, or leaves one.
LEMMA MessageLeaves ==
    ASSUME TypeOK, NEW i \in 1..Slots, NEW m \in MessageType, m # Free, wire[i] = Free,
           wire' = [wire EXCEPT ![i] = m]
    PROVE  FlightGrows(m.nonce, m.value)
<1> SUFFICES ASSUME NEW n \in Nonces
             PROVE  TravelsOn(wire', n) = IF n = m.nonce THEN TravelsOn(wire, n) + m.value
                                                         ELSE TravelsOn(wire, n)
  BY DEF FlightGrows
<1>1. wire \in Wires /\ ValueOf(wire[i], n) = 0 /\ m.value \in Int
  BY DEF TypeOK, Wires, ValueOf, MessageType
<1>2. ValueOf(m, n) = IF n = m.nonce THEN m.value ELSE 0
  BY DEF ValueOf
<1>3. /\ TravelsOn(wire, n) \in Int
      /\ TravelsOn(wire', n) = TravelsOn(wire, n) - ValueOf(wire[i], n) + ValueOf(m, n)
  BY <1>1, TravellingChanges
<1> QED
  BY <1>1, <1>2, <1>3

LEMMA MessageEnds ==
    ASSUME TypeOK, NEW i \in 1..Slots, wire[i] # Free, wire' = [wire EXCEPT ![i] = Free]
    PROVE  wire[i].value \in Int /\ wire[i].nonce \in Nonces /\ FlightGrows(wire[i].nonce, -wire[i].value)
<1>0. wire[i].value \in Int /\ wire[i].nonce \in Nonces
  BY WireType
<1> SUFFICES ASSUME NEW n \in Nonces
             PROVE  TravelsOn(wire', n) = IF n = wire[i].nonce THEN TravelsOn(wire, n) + (-wire[i].value)
                                                               ELSE TravelsOn(wire, n)
  BY <1>0 DEF FlightGrows
<1>1. wire \in Wires /\ ValueOf(Free, n) = 0
  BY DEF TypeOK, Wires, ValueOf
<1>2. ValueOf(wire[i], n) = IF n = wire[i].nonce THEN wire[i].value ELSE 0
  BY DEF ValueOf
<1>3. /\ TravelsOn(wire, n) \in Int
      /\ TravelsOn(wire', n) = TravelsOn(wire, n) - ValueOf(wire[i], n) + ValueOf(Free, n)
  BY <1>1, TravellingChanges
<1> QED
  BY <1>0, <1>1, <1>2, <1>3

\* A message is turned around: its nonce and its value stay.
LEMMA MessageTurns ==
    ASSUME TypeOK, NEW i \in 1..Slots, wire[i] # Free, NEW m \in MessageType, m # Free,
           m.nonce = wire[i].nonce, m.value = wire[i].value, wire' = [wire EXCEPT ![i] = m],
           NEW k \in Nonces
    PROVE  FlightGrows(k, 0)
<1>1. ASSUME NEW n \in Nonces PROVE TravelsOn(wire', n) = TravelsOn(wire, n)
  <2>1. wire \in Wires
    BY DEF TypeOK, Wires
  <2>2. ValueOf(wire[i], n) = ValueOf(m, n)
    BY DEF ValueOf
  <2>3. /\ TravelsOn(wire, n) \in Int /\ ValueOf(m, n) \in Int
        /\ TravelsOn(wire', n) = TravelsOn(wire, n) - ValueOf(wire[i], n) + ValueOf(m, n)
    BY <2>1, TravellingChanges
  <2> QED
    BY <2>2, <2>3
<1>2. ASSUME NEW n \in Nonces
      PROVE  TravelsOn(wire', n) = IF n = k THEN TravelsOn(wire, n) + 0 ELSE TravelsOn(wire, n)
  <2>1. TravelsOn(wire, n) \in Int /\ TravelsOn(wire', n) = TravelsOn(wire, n)
    BY <1>1, SumTypes
  <2> QED
    BY <2>1
<1> QED
  BY <1>2, Zenon DEF FlightGrows

-----------------------------------------------------------------------------
LEMMA CreateConserves ==
    ASSUME TypeOK, BlankBeforeCreation, NonceNeverReused',
           NEW a \in Accounts, NEW q \in Quantities, NFTCreate(a, q)
    PROVE  SumsKept
<1> DEFINE n == latestNonce[a] + 1
<1>0. q \in Int
  BY ConstantTypes
<1>1. n \in Nonces /\ Touches({a}, n) /\ store'.entry[a][n].value = q
  BY CreateTouches
<1>2. supply' = [supply EXCEPT ![n] = @ + q] /\ UNCHANGED wire
  BY DEF NFTCreate
<1>3. minted' = [minted EXCEPT ![n] = @ + 1]
  BY DEF NFTCreate, AllocateNonce
<1> HIDE DEF n
<1>4. minted[n] = 0
  <2>1. minted[n] \in Nat /\ minted'[n] <= 1 /\ minted'[n] = minted[n] + 1
    BY <1>1, <1>3, MintedIsNat DEF NonceNeverReused, TypeOK, RolesTypeOK
  <2> QED
    BY <2>1
<1>5. store'.entry[a][n].value = Balance(a, n) + q
  BY <1>0, <1>1, <1>4 DEF BlankBeforeCreation, Blank, Balance
<1>6. HoldingsGrow(n, q)
  BY <1>0, <1>1, <1>5, TouchedHoldings
<1>7. SupplyGrows(n, q + 0)
  BY <1>0, <1>1, <1>2 DEF SupplyGrows, TypeOK
<1>8. FlightGrows(n, 0)
  BY <1>1, <1>2, SameFlight
<1> QED
  BY <1>0, <1>1, <1>6, <1>7, <1>8, Balanced

LEMMA ChangeQuantityConserves ==
    ASSUME TypeOK, NEW a \in Accounts, NEW n \in Nonces, NEW delta \in Int,
           Balance(a, n) + delta \in Nat, ChangeQuantity(a, n, delta)
    PROVE  SumsKept
<1>1. supply' = [supply EXCEPT ![n] = @ + delta] /\ UNCHANGED wire
  BY DEF ChangeQuantity
<1>2. HoldingsGrow(n, delta)
  BY ChangeQuantityTouches, TouchedHoldings
<1>3. SupplyGrows(n, delta + 0)
  BY <1>1 DEF SupplyGrows, TypeOK
<1>4. FlightGrows(n, 0)
  BY <1>1, SameFlight
<1> QED
  BY <1>2, <1>3, <1>4, Balanced

\* The token that moves in a shard, and the store it is moved to.
LEMMA InShardMoves ==
    ASSUME TypeOK, NEW a \in Accounts, NEW b \in Accounts, NEW n \in Nonces,
           NEW q \in Quantities, NEW call \in BOOLEAN, TransferInShard(a, b, n, q, call)
    PROVE  /\ store \in StoreType /\ q \in Nat /\ q <= store.entry[a][n].value
           /\ ShardOf[a] = ShardOf[b] /\ UNCHANGED <<wire, supply>>
           /\ \E tok \in Entry : tok.value = q /\ store' = Added(Taken(store, a, n, q), a, b, n, tok)
<1> DEFINE tok == [Token(store, a, n) EXCEPT !.value = q]
<1>1. store \in StoreType /\ q \in Nat
  BY ConstantTypes DEF TypeOK
<1>2. tok \in Entry /\ tok.value = q
  BY <1>1, TokenWithValue
<1>3. store' = Added(Taken(store, a, n, q), a, b, n, tok)
  BY DEF TransferInShard
<1>4. q <= store.entry[a][n].value /\ ShardOf[a] = ShardOf[b] /\ UNCHANGED <<wire, supply>>
  BY DEF TransferInShard, CanSend
<1> HIDE DEF tok
<1> QED
  BY <1>1, <1>2, <1>3, <1>4

LEMMA TransferInShardConserves ==
    ASSUME TypeOK, NEW a \in Accounts, NEW b \in Accounts, NEW n \in Nonces,
           NEW q \in Quantities, NEW call \in BOOLEAN, TransferInShard(a, b, n, q, call)
    PROVE  SumsKept
<1>1. \A m \in Nonces : HeldAt(store', m, Accounts) = HeldAt(store, m, Accounts)
  <2>1. PICK tok \in Entry : tok.value = q /\ store' = Added(Taken(store, a, n, q), a, b, n, tok)
    BY InShardMoves
  <2>2. store \in StoreType /\ q \in Nat /\ q <= store.entry[a][n].value
    BY InShardMoves
  <2> QED
    BY <2>1, <2>2, MovedBetween
<1>2. UNCHANGED <<wire, supply>>
  BY InShardMoves
<1>3. HoldingsGrow(n, 0)
  BY <1>1, SumTypes DEF HoldingsGrow
<1> QED
  BY <1>2, <1>3, SameFlight, SameSupply, Balanced

LEMMA TransferLeavesConserves ==
    ASSUME TypeOK, NEW i \in 1..Slots, NEW a \in Accounts, NEW b \in Accounts,
           NEW n \in Nonces, NEW q \in Quantities, NEW call \in BOOLEAN,
           TransferLeaves(i, a, b, n, q, call)
    PROVE  SumsKept
<1>1. q \in Nat /\ -q \in Int /\ q \in Int /\ Balance(a, n) \in Int
  BY ConstantTypes, BalanceType DEF TypeOK, Balance
<1>2. PICK f \in BOOLEAN, g \in BOOLEAN : wire' = [wire EXCEPT ![i] =
          [phase |-> "sent", from |-> a, to |-> b, nonce |-> n, value |-> q,
           frozen |-> f, meta |-> g, call |-> call]]
  BY DEF TransferLeaves
<1> DEFINE m == [phase |-> "sent", from |-> a, to |-> b, nonce |-> n, value |-> q,
                 frozen |-> f, meta |-> g, call |-> call]
<1>3. m \in MessageType /\ m # Free /\ m.nonce = n /\ m.value = q
  BY <1>1 DEF MessageType, Free
<1>4. wire[i] = Free /\ UNCHANGED supply /\ wire' = [wire EXCEPT ![i] = m]
  BY <1>2 DEF TransferLeaves
<1> HIDE DEF m
<1>5. HoldingsGrow(n, -q)
  <2>1. Touches({a}, n) /\ store'.entry[a][n].value = Balance(a, n) + (-q)
    BY <1>1, TransferLeavesTouches
  <2> QED
    BY <1>1, <2>1, TouchedHoldings
<1>6. FlightGrows(n, q)
  BY <1>3, <1>4, MessageLeaves
<1>7. SupplyGrows(n, (-q) + q)
  BY <1>1, <1>4, SameSupply
<1> QED
  BY <1>1, <1>5, <1>6, <1>7, Balanced

LEMMA TransferArrivesConserves ==
    ASSUME TypeOK, NEW i \in 1..Slots, TransferArrives(i)
    PROVE  SumsKept
<1> DEFINE to == wire[i].to
           n == wire[i].nonce
           v == wire[i].value
<1>1. wire[i] # Free /\ wire' = [wire EXCEPT ![i] = Free] /\ UNCHANGED supply
  BY DEF TransferArrives
<1>2. to \in Accounts /\ n \in Nonces /\ v \in Int /\ -v \in Int
  BY <1>1, WireType
<1>3. Touches({to}, n) /\ store'.entry[to][n].value = Balance(to, n) + v
  BY TransferArrivesTouches
<1>4. FlightGrows(n, -v)
  BY <1>1, MessageEnds
<1> HIDE DEF to, n, v
<1>5. HoldingsGrow(n, v)
  BY <1>2, <1>3, TouchedHoldings
<1>6. SupplyGrows(n, v + (-v))
  BY <1>1, <1>2, SameSupply
<1> QED
  BY <1>2, <1>4, <1>5, <1>6, Balanced

LEMMA TransferFailsConserves ==
    ASSUME TypeOK, NEW i \in 1..Slots, TransferFails(i)
    PROVE  SumsKept
<1> DEFINE m == wire[i]
           back == [m EXCEPT !.phase = "returning", !.from = m.to, !.to = m.from, !.call = FALSE]
<1>1. m # Free /\ m \in MessageType /\ m.nonce \in Nonces /\ Touches({}, m.nonce)
  BY WireType, TransferFailsTouches DEF TransferFails
<1>2. wire' = [wire EXCEPT ![i] = back] /\ UNCHANGED supply
  BY DEF TransferFails
<1>3. back \in MessageType /\ back.phase = "returning"
  BY <1>1 DEF MessageType
<1>4. back.nonce = m.nonce /\ back.value = m.value
  BY <1>1 DEF MessageType
<1> HIDE DEF back
<1>5. back # Free
  <2>1. Free.phase = "free"
    BY DEF Free
  <2> QED
    BY <1>3, <2>1
<1>6. FlightGrows(m.nonce, 0)
  BY <1>1, <1>2, <1>3, <1>4, <1>5, MessageTurns
<1>7. HoldingsGrow(m.nonce, 0)
  BY <1>1, ConstantTypes, SameHoldings DEF Touches
<1>8. SupplyGrows(m.nonce, 0)
  BY <1>1, <1>2, SameSupply
<1> QED
  BY <1>1, <1>6, <1>7, <1>8, Balanced

LEMMA FreezeConserves ==
    ASSUME TypeOK, NEW a \in Accounts, NEW k \in Keys, \E v \in BOOLEAN : Freeze(a, k, v)
    PROVE  SumsKept
<1> SUFFICES ASSUME NEW n \in Nonces
             PROVE  HeldAt(store', n, Accounts) + TravelsOn(wire', n) - supply'[n]
                      = HeldAt(store, n, Accounts) + TravelsOn(wire, n) - supply[n]
  BY DEF SumsKept
<1>1. UNCHANGED wire /\ UNCHANGED supply
  BY DEF Freeze
<1>2. \A c \in Accounts, j \in Keys : c # a \/ j # k => store'.entry[c][j] = store.entry[c][j]
  BY FreezeTouches
<1>3. store' \in StoreType /\ store'.entry[a][k].value = store.entry[a][k].value
  BY FreezeTouches
<1>4. \A c \in Accounts : store'.entry[c][n].value = store.entry[c][n].value
  BY <1>2, <1>3, ConstantTypes
<1>5. HeldAt(store', n, Accounts) = HeldAt(store, n, Accounts)
  BY <1>3, <1>4, HeldSame DEF TypeOK
<1> QED
  BY <1>1, <1>5

\* A wipe takes from the supply what it takes from the account.
LEMMA WipeConserves ==
    ASSUME TypeOK, NEW a \in Accounts, NEW k \in Keys, Wipe(a, k)
    PROVE  SumsKept
<1> DEFINE v == store.entry[a][k].value
<1>1. /\ UNCHANGED wire
      /\ supply' = IF k = 0 THEN supply ELSE [supply EXCEPT ![k] = @ - v]
  BY DEF Wipe
<1>2. store' \in StoreType /\ store \in StoreType /\ v \in Int /\ -v \in Int
  BY WipeTouches, BalanceType DEF TypeOK
<1>3. \A c \in Accounts, j \in Keys : c # a \/ j # k => store'.entry[c][j] = store.entry[c][j]
  BY WipeTouches
<1>4. store'.entry[a][k].value = 0
  BY WipeTouches DEF NoEntry
<1> HIDE DEF v
<1>5. CASE k = 0
  <2> SUFFICES ASSUME NEW n \in Nonces
               PROVE  HeldAt(store', n, Accounts) + TravelsOn(wire', n) - supply'[n]
                        = HeldAt(store, n, Accounts) + TravelsOn(wire, n) - supply[n]
    BY DEF SumsKept
  <2>1. n # 0 /\ n \in Keys
    BY KeysAreNonces
  <2>2. \A c \in Accounts : store'.entry[c][n].value = store.entry[c][n].value
    BY <1>3, <1>5, <2>1
  <2>3. HeldAt(store', n, Accounts) = HeldAt(store, n, Accounts)
    BY <1>2, <2>2, HeldSame
  <2> QED
    BY <1>1, <1>5, <2>3
<1>6. CASE k # 0
  <2>1. k \in Nonces
    BY <1>6, CoordinatorAssumption DEF Keys, Nonces
  <2>2. store'.entry[a][k].value = store.entry[a][k].value + (-v)
    BY <1>2, <1>4 DEF v
  <2>3. \A m \in Nonces : HeldAt(store', m, Accounts)
          = IF m = k /\ a \in Accounts THEN HeldAt(store, m, Accounts) + (-v) ELSE HeldAt(store, m, Accounts)
    BY <1>2, <1>3, <2>1, <2>2, OneEntryChanges
  <2>4. HoldingsGrow(k, -v)
    BY <2>3 DEF HoldingsGrow
  <2>5. SupplyGrows(k, (-v) + 0)
    BY <1>1, <1>2, <1>6, <2>1 DEF SupplyGrows, TypeOK
  <2>6. FlightGrows(k, 0)
    BY <1>1, <2>1, SameFlight
  <2> QED
    BY <1>2, <2>1, <2>4, <2>5, <2>6, Balanced
<1> QED
  BY <1>5, <1>6

LEMMA MetaDataConserves ==
    ASSUME TypeOK, NEW n \in Nonces,
           (\E a \in Accounts : UpdateMetaData(a, n)) \/ DeleteMetaData(n) \/ AddMetaData(n)
    PROVE  SumsKept
<1>1. UNCHANGED wire /\ UNCHANGED supply
  BY DEF UpdateMetaData, DeleteMetaData, AddMetaData
<1> DEFINE Same == /\ store' \in StoreType
                   /\ \A c \in Accounts, k \in Nonces : store'.entry[c][k].value = store.entry[c][k].value
<1>2. Same
  <2>1. ASSUME NEW a \in Accounts, UpdateMetaData(a, n)
        PROVE  Same
    <3>1. Touches({a}, n)
      BY <2>1, UpdateTouches
    <3>2. store'.entry[a][n].value = store.entry[a][n].value
      BY <2>1, UpdateTouches DEF Balance
    <3> QED
      BY <3>1, <3>2, ConstantTypes DEF Touches
  <2>2. ASSUME DeleteMetaData(n) \/ AddMetaData(n)
        PROVE  Same
    <3>1. Touches({}, n)
      BY <2>2, MetaDataTouches
    <3> QED
      BY <3>1, ConstantTypes DEF Touches
  <2> QED
    BY <2>1, <2>2
<1>3. HoldingsGrow(n, 0)
  BY <1>2, SameHoldings
<1> QED
  BY <1>1, <1>3, SameFlight, SameSupply, Balanced

LEMMA NothingHeldAtFirst == Init => Conserved
<1> SUFFICES ASSUME Init, NEW n \in Nonces
             PROVE  HeldAt(store, n, Accounts) + TravelsOn(wire, n) = supply[n]
  BY DEF Conserved
<1> DEFINE I == 1..Slots
           f == [a \in Accounts |-> store.entry[a][n].value]
           g == [i \in I |-> ValueOf(wire[i], n)]
<1>1. IsFiniteSet(Accounts) /\ IsFiniteSet(I) /\ IsFiniteSet({})
  BY CoordinatorAssumption, LedgerAssumption, FS_Interval, FS_EmptySet
<1>2. \A a \in Accounts : f[a] = 0
  BY ConstantTypes DEF Init, EmptyStore, NoEntry
<1>3. \A i \in I : g[i] = 0
  BY DEF Init, ValueOf
<1>4. HeldAt(store, n, Accounts) = SumFunctionOnSet(f, Accounts) /\ TravelsOn(wire, n) = SumFunctionOnSet(g, I)
  BY DEF HeldAt, TravelsOn
<1>5. supply[n] = 0
  BY DEF Init
<1> HIDE DEF f, g, I
<1>6. SumFunctionOnSet(f, {}) = 0 /\ SumFunctionOnSet(g, {}) = 0
  BY <1>1, SumUnfolds
<1>7. SumFunctionOnSet(f, {}) = SumFunctionOnSet(f, Accounts)
  BY <1>1, <1>2, SumRestricts
<1>8. SumFunctionOnSet(g, {}) = SumFunctionOnSet(g, I)
  BY <1>1, <1>3, SumRestricts
<1> QED
  BY <1>4, <1>5, <1>6, <1>7, <1>8

LEMMA StepKeepsSums ==
    ASSUME TypeOK, BlankBeforeCreation, NonceNeverReused', ReturnsAreAccepted, [Next]_vars
    PROVE  SumsKept
<1>1. ASSUME NEW a \in Accounts, UserCalls(a)
      PROVE  SumsKept
  <2>1. ASSUME NEW q \in Quantities, NFTCreate(a, q)
        PROVE  SumsKept
    BY <2>1, CreateConserves
  <2>2. ASSUME NEW n \in Nonces, NEW q \in Quantities, NFTAddQuantity(a, n, q) \/ NFTBurn(a, n, q)
        PROVE  SumsKept
    <3>1. q \in Nat /\ -q \in Int /\ Balance(a, n) \in Nat
      BY ConstantTypes, BalanceType DEF Balance, TypeOK
    <3>2. PICK delta \in {q, -q} : ChangeQuantity(a, n, delta) /\ Balance(a, n) + delta \in Nat
      BY <2>2, <3>1 DEF NFTAddQuantity, NFTBurn, Balance
    <3> QED
      BY <3>1, <3>2, ChangeQuantityConserves
  <2>3. ASSUME NEW n \in Nonces, UpdateMetaData(a, n)
        PROVE  SumsKept
    BY <2>3, MetaDataConserves
  <2>4. ASSUME NEW b \in Accounts, NEW n \in Nonces, NEW q \in Quantities, NEW call \in BOOLEAN,
               TransferInShard(a, b, n, q, call)
        PROVE  SumsKept
    BY <2>4, TransferInShardConserves
  <2>5. ASSUME NEW i \in 1..Slots, NEW b \in Accounts, NEW n \in Nonces, NEW q \in Quantities,
               NEW call \in BOOLEAN, TransferLeaves(i, a, b, n, q, call)
        PROVE  SumsKept
    BY <2>5, TransferLeavesConserves
  <2> QED
    BY <1>1, <2>1, <2>2, <2>3, <2>4, <2>5 DEF UserCalls
<1>2. ASSUME NEW i \in 1..Slots, Settle(i)
      PROVE  SumsKept
  <2>1. ~ReturnFails(i)
    BY DEF ReturnsAreAccepted, ReturnFails
  <2> QED
    BY <1>2, <2>1, TransferArrivesConserves, TransferFailsConserves DEF Settle
<1>3. ASSUME NEW a \in Accounts, NEW k \in Keys, Wipe(a, k) \/ \E v \in BOOLEAN : Freeze(a, k, v)
      PROVE  SumsKept
  BY <1>3, WipeConserves, FreezeConserves
<1>4. ASSUME NEW n \in Nonces, DeleteMetaData(n) \/ AddMetaData(n)
      PROVE  SumsKept
  BY <1>4, MetaDataConserves
<1>5. ASSUME ChangeSettings \/ ChangeRolesOrOwner \/ NewEpoch \/ UNCHANGED vars
      PROVE  SumsKept
  <2>1. UNCHANGED store /\ UNCHANGED wire /\ UNCHANGED supply
    BY <1>5 DEF ChangeSettings, ChangeRolesOrOwner, NewEpoch, vars
  <2> QED
    BY <2>1 DEF SumsKept, HeldAt, TravelsOn, ValueOf
<1> QED
  BY <1>1, <1>2, <1>3, <1>4, <1>5 DEF Next, SystemCalls

LEMMA StepConserves ==
    ASSUME TypeOK, Conserved, BlankBeforeCreation, NonceNeverReused', ReturnsAreAccepted, [Next]_vars
    PROVE  Conserved'
<1>1. SumsKept /\ TypeOK'
  BY StepKeepsSums, NextLedgerTypeOK
<1> SUFFICES ASSUME NEW n \in Nonces
             PROVE  HeldAt(store', n, Accounts) + TravelsOn(wire', n) = supply'[n]
  BY DEF Conserved, HeldAt, TravelsOn
<1>2. /\ HeldAt(store, n, Accounts) + TravelsOn(wire, n) = supply[n]
      /\ HeldAt(store', n, Accounts) + TravelsOn(wire', n) - supply'[n]
           = HeldAt(store, n, Accounts) + TravelsOn(wire, n) - supply[n]
  BY <1>1 DEF Conserved, SumsKept
<1>3. HeldAt(store, n, Accounts) \in Int /\ TravelsOn(wire, n) \in Int /\ supply[n] \in Int
  BY SumTypes
<1>4. HeldAt(store', n, Accounts) \in Int /\ TravelsOn(wire', n) \in Int /\ supply'[n] \in Int
  <2>1. store' \in StoreType /\ wire' \in Wires /\ supply' \in [Nonces -> Int]
    BY <1>1 DEF TypeOK, Wires, MessageType, Free
  <2> QED
    BY <2>1, HeldIsNat, WireSums
<1> QED
  BY <1>2, <1>3, <1>4

-----------------------------------------------------------------------------
FlagsOn(F) == \A f \in F : On(f)

LEMMA FlagsGrow == [Next]_vars => flags \subseteq flags'
<1> SUFFICES ASSUME [Next]_vars PROVE flags \subseteq flags'
  OBVIOUS
<1>1. ASSUME NEW a \in Accounts, UserCalls(a)
      PROVE  UNCHANGED flags
  <2>1. ASSUME \/ \E q \in Quantities : NFTCreate(a, q)
               \/ \E n \in Nonces, q \in Quantities : NFTAddQuantity(a, n, q) \/ NFTBurn(a, n, q)
               \/ \E n \in Nonces : UpdateMetaData(a, n)
        PROVE  UNCHANGED flags
    BY <2>1 DEF NFTCreate, NFTAddQuantity, NFTBurn, ChangeQuantity, UpdateMetaData, OnlyLedger
  <2>2. ASSUME NEW b \in Accounts, NEW n \in Nonces, NEW q \in Quantities, NEW call \in BOOLEAN,
               TransferInShard(a, b, n, q, call) \/ \E i \in 1..Slots : TransferLeaves(i, a, b, n, q, call)
        PROVE  UNCHANGED flags
    BY <2>2 DEF TransferInShard, TransferLeaves, OnlyLedger
  <2> QED
    BY <1>1, <2>1, <2>2 DEF UserCalls
<1>2. ASSUME NEW i \in 1..Slots, Settle(i)
      PROVE  UNCHANGED flags
  BY <1>2 DEF Settle, TransferArrives, TransferFails, ReturnFails, OnlyLedger
<1>3. ASSUME NEW a \in Accounts, NEW k \in Keys, Wipe(a, k) \/ \E v \in BOOLEAN : Freeze(a, k, v)
      PROVE  UNCHANGED flags
  BY <1>3 DEF Wipe, Freeze, OnlyLedger
<1>4. ASSUME NEW n \in Nonces, DeleteMetaData(n) \/ AddMetaData(n)
      PROVE  UNCHANGED flags
  BY <1>4 DEF DeleteMetaData, AddMetaData, OnlyLedger
<1>5. ASSUME ChangeSettings \/ ChangeRolesOrOwner \/ UNCHANGED vars
      PROVE  UNCHANGED flags
  BY <1>5 DEF ChangeSettings, ChangeRolesOrOwner, vars
<1>6. ASSUME NewEpoch
      PROVE  flags \subseteq flags'
  BY <1>6 DEF NewEpoch, EnableFlag
<1> QED
  BY <1>1, <1>2, <1>3, <1>4, <1>5, <1>6 DEF Next, SystemCalls

LEMMA FlagsStayOn ==
    ASSUME NEW F, F \subseteq InitFlags
    PROVE  (Init => FlagsOn(F)) /\ (FlagsOn(F) /\ [Next]_vars => FlagsOn(F)')
<1>1. Init => FlagsOn(F)
  BY DEF Init, FlagsInit, FlagsOn, On
<1>2. FlagsOn(F) /\ [Next]_vars => FlagsOn(F)'
  BY FlagsGrow DEF FlagsOn, On
<1> QED
  BY <1>1, <1>2

\* The flags under which a return can always be taken in: it is not asked for
\* a payable contract, and every message carries metadata.
ReturnFlags == {FixAsyncCallbackCheck, SaveToSystemAccount, SendAlways}

\* Every message carries the metadata of its token.
AllCarryMetaData == \A i \in 1..Slots : wire[i] # Free => wire[i].meta

\* Tokens leave a shard only with their metadata on its system account.
LEMMA TakenHasMetaData ==
    ASSUME On(SaveToSystemAccount), On(SendAlways), NEW st \in StoreType, NEW a \in Accounts,
           NEW n \in Nonces, NEW q, st.entry[a][n] # NoEntry, NEW delta,
           ~LiquidityRefused(Taken(st, a, n, q), ShardOf[a], n, delta)
    PROVE  Token(st, a, n).meta
<1> DEFINE s == ShardOf[a]
           tok == [Token(st, a, n) EXCEPT !.value = Token(st, a, n).value - q]
           mid == Taken(st, a, n, q)
<1>1. mid.system[s][n].exists
  BY DEF LiquidityRefused, TracksLiquidity
<1> SUFFICES ASSUME ~Token(st, a, n).meta PROVE FALSE
  OBVIOUS
<1>2. ~st.system[s][n].exists
  <2>1. st.entry[a][n] \in Entry
    BY ConstantTypes, BalanceType
  <2> QED
    BY <2>1 DEF Token, Entry
<1>3. ~tok.meta
  <2>1. Token(st, a, n) \in Entry
    BY TokenRead
  <2> HIDE DEF Token
  <2> QED
    BY <2>1 DEF Entry
<1>4. mid = SaveToken(st, a, a, n, tok, FALSE)
  BY DEF Taken
<1>5. SaveMetaData(st, ShardOf[a], a, n, tok, FALSE) = st
  BY <1>3 DEF SaveMetaData
<1> HIDE DEF tok, mid
<1>6. mid.system = st.system
  BY <1>4, <1>5 DEF SaveToken, StoreType
<1> QED
  BY <1>1, <1>2, <1>6

LEMMA SentWithMetaData ==
    ASSUME TypeOK, FlagsOn(ReturnFlags), NEW i \in 1..Slots, NEW a \in Accounts, NEW b \in Accounts,
           NEW n \in Nonces, NEW q \in Quantities, NEW call \in BOOLEAN,
           TransferLeaves(i, a, b, n, q, call)
    PROVE  Token(store, a, n).meta /\ wire'[i].meta
<1> DEFINE s == ShardOf[a]
           mid == Taken(store, a, n, q)
<1>1. On(SaveToSystemAccount) /\ On(SendAlways)
  BY DEF FlagsOn, ReturnFlags
<1>2. store \in StoreType /\ store.entry[a][n] # NoEntry /\ ~LiquidityRefused(mid, s, n, -q)
  BY DEF TypeOK, TransferLeaves, CanSend
<1>4. Token(store, a, n).meta
  <2> HIDE DEF Token
  <2> QED
    BY <1>1, <1>2, TakenHasMetaData
<1>5. wire'[i].meta = Token(store, a, n).meta
  <2> DEFINE counted == AddToLiquidity(mid, s, n, -q)
             whole == ~AlreadySent(counted, s, n, ShardOf[b]) \/ q = 1
  <2>1. whole
    BY <1>1 DEF AlreadySent
  <2>2. wire' = [wire EXCEPT ![i] =
              [phase |-> "sent", from |-> a, to |-> b, nonce |-> n, value |-> q,
               frozen |-> whole /\ Token(store, a, n).frozen, meta |-> whole /\ Token(store, a, n).meta,
               call |-> call]]
    BY DEF TransferLeaves
  <2>3. Token(store, a, n).meta \in BOOLEAN
    BY <1>2, TokenRead DEF Entry
  <2> HIDE DEF whole, Token
  <2> QED
    BY <2>1, <2>2, <2>3 DEF TypeOK
<1> QED
  BY <1>4, <1>5

LEMMA StepCarriesMetaData ==
    ASSUME TypeOK, FlagsOn(ReturnFlags), AllCarryMetaData, [Next]_vars
    PROVE  AllCarryMetaData'
<1>1. ASSUME NEW i \in 1..Slots, NEW a \in Accounts, NEW b \in Accounts, NEW n \in Nonces,
             NEW q \in Quantities, NEW call \in BOOLEAN, TransferLeaves(i, a, b, n, q, call)
      PROVE  AllCarryMetaData'
  <2>1. wire'[i].meta
    BY <1>1, SentWithMetaData
  <2>2. \A j \in 1..Slots : j # i => wire'[j] = wire[j]
    BY <1>1 DEF TransferLeaves, TypeOK
  <2> QED
    BY <2>1, <2>2 DEF AllCarryMetaData
<1>2. ASSUME NEW i \in 1..Slots, TransferArrives(i) \/ ReturnFails(i)
      PROVE  AllCarryMetaData'
  BY <1>2 DEF TransferArrives, ReturnFails, AllCarryMetaData, TypeOK
<1>3. ASSUME NEW i \in 1..Slots, TransferFails(i)
      PROVE  AllCarryMetaData'
  <2>1. wire[i] # Free /\ wire[i] \in MessageType
    BY <1>3, WireType DEF TransferFails
  <2>2. wire'[i].meta = wire[i].meta /\ \A j \in 1..Slots : j # i => wire'[j] = wire[j]
    BY <1>3, <2>1 DEF TransferFails, TypeOK, MessageType
  <2> QED
    BY <2>1, <2>2 DEF AllCarryMetaData
<1>4. ASSUME UNCHANGED wire
      PROVE  AllCarryMetaData'
  BY <1>4 DEF AllCarryMetaData
<1>5. ASSUME NEW a \in Accounts, UserCalls(a)
      PROVE  AllCarryMetaData'
  <2>1. ASSUME \/ \E q \in Quantities : NFTCreate(a, q)
               \/ \E n \in Nonces, q \in Quantities : NFTAddQuantity(a, n, q) \/ NFTBurn(a, n, q)
               \/ \E n \in Nonces : UpdateMetaData(a, n)
               \/ \E b \in Accounts, n \in Nonces, q \in Quantities, call \in BOOLEAN :
                     TransferInShard(a, b, n, q, call)
        PROVE  UNCHANGED wire
    BY <2>1 DEF NFTCreate, NFTAddQuantity, NFTBurn, ChangeQuantity, UpdateMetaData, TransferInShard
  <2> QED
    BY <1>1, <1>4, <1>5, <2>1 DEF UserCalls
<1>6. ASSUME SystemCalls \/ UNCHANGED vars
      PROVE  UNCHANGED wire
  BY <1>6 DEF SystemCalls, Wipe, Freeze, DeleteMetaData, AddMetaData, ChangeSettings, ChangeRolesOrOwner,
              NewEpoch, vars
<1> QED
  BY <1>2, <1>3, <1>4, <1>5, <1>6 DEF Next, Settle

\* What SaveDCTNFTToken writes to the system account.
LEMMA SaveTokenSystem ==
    \A st \in StoreType, sender \in Accounts, a \in Accounts, n \in Nonces, tok \in Entry :
        SaveToken(st, sender, a, n, tok, FALSE).system
          = SaveMetaData(st, ShardOf[sender], a, n, tok, FALSE).system
<1> SUFFICES ASSUME NEW st \in StoreType, NEW sender \in Accounts, NEW a \in Accounts, NEW n \in Nonces,
                    NEW tok \in Entry
             PROVE  SaveToken(st, sender, a, n, tok, FALSE).system
                      = SaveMetaData(st, ShardOf[sender], a, n, tok, FALSE).system
  OBVIOUS
<1> DEFINE mid == SaveMetaData(st, ShardOf[sender], a, n, tok, FALSE)
<1>1. ShardOf[sender] \in Shards
  BY ConstantTypes
<1>2. mid \in StoreType
  BY <1>1, SaveMetaDataWrites
<1> QED
  BY <1>2 DEF SaveToken, StoreType

\* A token with metadata brings the entry its liquidity is added to.
LEMMA AddedIsCounted ==
    ASSUME FlagsOn(ReturnFlags), NEW st \in StoreType, NEW from \in Accounts, NEW to \in Accounts,
           NEW n \in Nonces, NEW tok \in Entry, tok.meta, NEW v \in Nat
    PROVE  ~LiquidityRefused(Added(st, from, to, n, tok), ShardOf[to], n, v)
<1> DEFINE s == ShardOf[to]
           sum == [tok EXCEPT !.value = tok.value + st.entry[to][n].value]
           saved == SaveMetaData(st, ShardOf[from], to, n, sum, FALSE)
           new == Added(st, from, to, n, tok)
<1>1. s \in Shards /\ n \in Keys /\ st.entry[to][n].value \in Nat
  BY ConstantTypes, BalanceType
<1>2. sum \in Entry /\ sum.meta
  BY <1>1 DEF Entry
<1>3. new = SaveToken(st, from, to, n, sum, FALSE)
  BY DEF Added
<1>4. On(SaveToSystemAccount)
  BY DEF FlagsOn, ReturnFlags
<1> HIDE DEF sum, new
<1>5. saved.system[s][n].exists
  BY <1>1, <1>2, <1>4 DEF SaveMetaData, StoreType
<1>6. new.system = saved.system
  BY <1>2, <1>3, SaveTokenSystem
<1>7. new \in StoreType
  BY <1>2, <1>3, SaveTokenWrites
<1> HIDE DEF s, saved
<1>8. new.system[s][n].value \in Nat
  <2>1. new.system[s][n] \in SystemEntry
    BY <1>1, <1>7 DEF StoreType
  <2> QED
    BY <2>1 DEF SystemEntry
<1>9. ~(new.system[s][n].value + v < 0)
  BY <1>8
<1>10. ~LiquidityRefused(new, s, n, v)
  BY <1>5, <1>6, <1>9 DEF LiquidityRefused
<1> QED
  BY <1>10 DEF new, s

LEMMA CarriedIsCounted ==
    ASSUME TypeOK, FlagsOn(ReturnFlags), NEW i \in 1..Slots, wire[i] # Free, wire[i].meta
    PROVE  ~LiquidityRefused(Credited(wire[i]), ShardOf[wire[i].to], wire[i].nonce, wire[i].value)
<1>1. /\ wire[i].from \in Accounts /\ wire[i].to \in Accounts /\ wire[i].nonce \in Nonces
      /\ wire[i].value \in Nat /\ Carried(wire[i]) \in Entry /\ Carried(wire[i]).meta
  BY WireType DEF Carried
<1>2. store \in StoreType
  BY DEF TypeOK
<1> QED
  BY <1>1, <1>2, AddedIsCounted DEF Credited

LEMMA CarriedIsAccepted ==
    ASSUME TypeOK, FlagsOn(ReturnFlags), AllCarryMetaData
    PROVE  ReturnsAreAccepted
<1> SUFFICES ASSUME NEW i \in 1..Slots, wire[i] # Free, wire[i].phase = "returning"
             PROVE  Accepted(wire[i])
  BY DEF ReturnsAreAccepted
<1>1. ~LiquidityRefused(Credited(wire[i]), ShardOf[wire[i].to], wire[i].nonce, wire[i].value)
  BY CarriedIsCounted DEF AllCarryMetaData
<1>2. Payable(wire[i].to, wire[i].call, TRUE)
  BY DEF Payable, FlagsOn, ReturnFlags
<1>3. ~AddRefused(store, wire[i].to, wire[i].nonce, Carried(wire[i]), TRUE)
  BY DEF AddRefused, Refused
<1> QED
  BY <1>1, <1>2, <1>3 DEF Accepted

\* Tokens on their way back are accepted whenever they arrive, whatever was
\* frozen, paused, limited or deleted since they left, once messages carry
\* metadata and returns are not asked for a payable contract (the destination
\* half of DCTNFTTransfer).
THEOREM LedgerReturnsAccepted ==
    ASSUME ReturnFlags \subseteq InitFlags
    PROVE  Spec => []ReturnsAreAccepted
<1>1. Init => AllCarryMetaData
  BY DEF Init, AllCarryMetaData
<1>2. TypeOK /\ FlagsOn(ReturnFlags) /\ AllCarryMetaData /\ [Next]_vars => AllCarryMetaData'
  BY StepCarriesMetaData
<1>3. TypeOK /\ FlagsOn(ReturnFlags) /\ AllCarryMetaData => ReturnsAreAccepted
  BY CarriedIsAccepted
<1>4. (Init => FlagsOn(ReturnFlags)) /\ (FlagsOn(ReturnFlags) /\ [Next]_vars => FlagsOn(ReturnFlags)')
  BY FlagsStayOn
<1> QED
  BY <1>1, <1>2, <1>3, <1>4, LedgerTypeCorrect, PTL DEF Spec

\* However tokens are created, added, burnt, transferred, refused, returned,
\* frozen and wiped, and whatever metadata is deleted or restored: what the
\* accounts hold and what is in flight is what was created and added, less what
\* was burnt and wiped.  Only a return that is refused could lose tokens.
THEOREM LedgerSupplyConserved ==
    ASSUME ~MultiShard, SerialHandover
    PROVE  Spec /\ []ReturnsAreAccepted => []SupplyConserved
<1>1. Init => Conserved
  BY NothingHeldAtFirst
<1>2. TypeOK /\ Conserved /\ BlankBeforeCreation /\ NonceNeverReused' /\ ReturnsAreAccepted /\ [Next]_vars
        => Conserved'
  BY StepConserves
<1>3. TypeOK /\ Conserved => SupplyConserved
  BY ConservedIsSupply
<1> QED
  BY <1>1, <1>2, <1>3, LedgerTypeCorrect, BlankBefore, LedgerNoncesAreUnique, PTL DEF Spec

\* With the flags under which every return is accepted none is lost at all.
THEOREM NoTokenIsLost ==
    ASSUME ~MultiShard, SerialHandover, ReturnFlags \subseteq InitFlags
    PROVE  Spec => []SupplyConserved
BY LedgerSupplyConserved, LedgerReturnsAccepted, PTL

-----------------------------------------------------------------------------
\* The flags under which liquidity is tracked, and followed by a wipe.
LiquidityFlags == {SaveToSystemAccount, SendAlways, WipeLiquidityDecrease}

\* A system entry that agrees with h tokens held on its shard.
Agrees(x, h) == /\ x.exists /\ x.reserved => x.value = h
                /\ ~x.exists => h = 0

\* The system entries of st agree with the balances of st2.
Matches(st, st2) ==
    \A s \in Shards, n \in Nonces : Agrees(st.system[s][n], HeldAt(st2, n, AccountsOf(s)))

LEMMA MatchingIsLiquidity == Matches(store, store) => LiquidityMatchesHoldings
<1> SUFFICES ASSUME Matches(store, store), NEW s \in Shards, NEW n \in Nonces
             PROVE  /\ store.system[s][n].exists /\ store.system[s][n].reserved
                         => store.system[s][n].value = Held(n, AccountsOf(s))
                    /\ ~store.system[s][n].exists => Held(n, AccountsOf(s)) = 0
  BY DEF LiquidityMatchesHoldings
<1>1. Held(n, AccountsOf(s)) = HeldAt(store, n, AccountsOf(s))
  BY DEF Held, HeldAt, Balance
<1> QED
  BY <1>1 DEF Matches, Agrees

\* The metadata saved with a balance agrees with what was held before: an entry
\* is made where nothing is held, and one that is overwritten is not tracked.
LEMMA SavingMatches ==
    ASSUME NEW st \in StoreType, NEW st2, Matches(st, st2), NEW t \in Shards,
           NEW a \in Accounts, NEW n \in Nonces, NEW tok, NEW mustUpdate
    PROVE  Matches(SaveMetaData(st, t, a, n, tok, mustUpdate), st2)
<1> DEFINE s == ShardOf[a]
           old == On(FixOldTokenLiquidity) /\ st.entry[a][n].meta
           res == On(SendAlways) /\ ~st.system[s][n].exists /\ ~old
           x == [exists |-> TRUE, value |-> 0, reserved |-> res,
                 sentTo |-> IF On(SendAlways) THEN {} ELSE {s, t}]
           new == SaveMetaData(st, t, a, n, tok, mustUpdate)
<1>1. s \in Shards
  BY ConstantTypes
<1>2. new = st \/ new = [st EXCEPT !.system[s][n] = x]
  BY DEF SaveMetaData
<1>3. x.exists /\ x.value = 0 /\ (x.reserved => ~st.system[s][n].exists)
  OBVIOUS
<1> SUFFICES ASSUME NEW u \in Shards, NEW m \in Nonces
             PROVE  Agrees(new.system[u][m], HeldAt(st2, m, AccountsOf(u)))
  BY DEF Matches
<1>4. Agrees(st.system[u][m], HeldAt(st2, m, AccountsOf(u)))
  BY DEF Matches
<1> HIDE DEF x, new, s
<1>5. new.system[u][m] = st.system[u][m] \/ (u = s /\ m = n /\ new.system[u][m] = x)
  BY <1>1, <1>2 DEF StoreType
<1> QED
  BY <1>3, <1>4, <1>5 DEF Agrees

\* The same of a whole SaveDCTNFTToken.
LEMMA SavedMatches ==
    ASSUME NEW st \in StoreType, NEW st2, Matches(st, st2), NEW sender \in Accounts,
           NEW a \in Accounts, NEW n \in Nonces, NEW tok \in Entry, NEW mustUpdate \in BOOLEAN
    PROVE  Matches(SaveToken(st, sender, a, n, tok, mustUpdate), st2)
<1> DEFINE mid == SaveMetaData(st, ShardOf[sender], a, n, tok, mustUpdate)
           new == SaveToken(st, sender, a, n, tok, mustUpdate)
<1>1. ShardOf[sender] \in Shards
  BY ConstantTypes
<1>2. mid \in StoreType /\ Matches(mid, st2)
  BY <1>1, SaveMetaDataWrites, SavingMatches
<1>3. new.system = mid.system
  BY <1>2 DEF SaveToken, StoreType
<1> HIDE DEF mid, new
<1>4. Matches(new, st2)
  BY <1>2, <1>3 DEF Matches
<1> QED
  BY <1>4 DEF new

\* A change of the liquidity that is not refused follows the same change of
\* the balances.
LEMMA CountingMatches ==
    ASSUME TracksLiquidity, NEW st \in StoreType, NEW st2 \in StoreType, NEW st3, Matches(st, st2),
           NEW s \in Shards, NEW n \in Nonces, NEW delta \in Int, ~LiquidityRefused(st, s, n, delta),
           \A u \in Shards, m \in Nonces : HeldAt(st3, m, AccountsOf(u))
              = IF u = s /\ m = n THEN HeldAt(st2, m, AccountsOf(u)) + delta
                                 ELSE HeldAt(st2, m, AccountsOf(u))
    PROVE  Matches(AddToLiquidity(st, s, n, delta), st3)
<1> DEFINE x == st.system[s][n]
           h == HeldAt(st2, n, AccountsOf(s))
           y == IF OldTokenMoved(x, delta) THEN [x EXCEPT !.reserved = FALSE]
                ELSE IF x.value + delta = 0 THEN NoSystemEntry
                ELSE [x EXCEPT !.value = x.value + delta]
           new == AddToLiquidity(st, s, n, delta)
<1>1. x \in SystemEntry /\ x.exists /\ x.value \in Nat /\ Agrees(x, h)
  BY DEF LiquidityRefused, StoreType, SystemEntry, Matches
<1>2. h \in Int
  <2>1. AccountsOf(s) \in SUBSET Accounts
    BY DEF AccountsOf
  <2> QED
    BY <2>1, HeldIsNat
<1>3. CASE ~x.reserved
  <2>1. new = st
    BY <1>3 DEF AddToLiquidity
  <2> SUFFICES ASSUME NEW u \in Shards, NEW m \in Nonces
               PROVE  Agrees(st.system[u][m], HeldAt(st3, m, AccountsOf(u)))
    BY <2>1 DEF Matches
  <2> QED
    BY <1>1, <1>3 DEF Matches, Agrees
<1>4. CASE x.reserved
  <2>1. new = [st EXCEPT !.system[s][n] = y]
    BY <1>4 DEF AddToLiquidity
  <2>2. x.value = h
    BY <1>1, <1>4 DEF Agrees
  <2>3. Agrees(y, h + delta)
    <3> HIDE DEF x, h
    <3>1. CASE OldTokenMoved(x, delta)
      BY <1>1, <3>1 DEF Agrees, SystemEntry
    <3>2. CASE ~OldTokenMoved(x, delta)
      BY <1>1, <1>2, <2>2, <3>2 DEF Agrees, SystemEntry, NoSystemEntry
    <3> QED
      BY <3>1, <3>2
  <2> HIDE DEF y, new
  <2> SUFFICES ASSUME NEW u \in Shards, NEW m \in Nonces
               PROVE  Agrees(new.system[u][m], HeldAt(st3, m, AccountsOf(u)))
    BY DEF Matches, new
  <2>4. new.system[u][m] = IF u = s /\ m = n THEN y ELSE st.system[u][m]
    BY <2>1 DEF StoreType
  <2> QED
    BY <2>3, <2>4 DEF Matches
<1> QED
  BY <1>3, <1>4

\* One entry changes, in the sums of its shard.
LEMMA ShardHoldings ==
    ASSUME NEW st \in StoreType, NEW st2 \in StoreType, NEW a \in Accounts, NEW n \in Nonces,
           NEW delta \in Int, st2.entry[a][n].value = st.entry[a][n].value + delta,
           \A c \in Accounts, k \in Keys : c # a \/ k # n => st2.entry[c][k] = st.entry[c][k]
    PROVE  \A u \in Shards, m \in Nonces : HeldAt(st2, m, AccountsOf(u))
              = IF u = ShardOf[a] /\ m = n THEN HeldAt(st, m, AccountsOf(u)) + delta
                                          ELSE HeldAt(st, m, AccountsOf(u))
<1> SUFFICES ASSUME NEW u \in Shards, NEW m \in Nonces
             PROVE  HeldAt(st2, m, AccountsOf(u))
                      = IF u = ShardOf[a] /\ m = n THEN HeldAt(st, m, AccountsOf(u)) + delta
                                                  ELSE HeldAt(st, m, AccountsOf(u))
  OBVIOUS
<1> DEFINE A == AccountsOf(u)
<1>1. A \in SUBSET Accounts /\ (a \in A <=> u = ShardOf[a])
  BY DEF AccountsOf
<1> HIDE DEF A
<1>2. HeldAt(st2, m, A) = IF m = n /\ a \in A THEN HeldAt(st, m, A) + delta ELSE HeldAt(st, m, A)
  BY <1>1, OneEntryChanges
<1> QED
  BY <1>1, <1>2 DEF A

\* Saving a token and counting the difference keeps the liquidity right.
LEMMA SavedAndCounted ==
    ASSUME TracksLiquidity, NEW st \in StoreType, Matches(st, st), NEW sender \in Accounts,
           NEW a \in Accounts, NEW n \in Nonces, NEW tok \in Entry, NEW mustUpdate \in BOOLEAN,
           NEW delta \in Int, tok.value = st.entry[a][n].value + delta,
           ~LiquidityRefused(SaveToken(st, sender, a, n, tok, mustUpdate), ShardOf[a], n, delta)
    PROVE  LET new == AddToLiquidity(SaveToken(st, sender, a, n, tok, mustUpdate), ShardOf[a], n, delta)
           IN  Matches(new, new)
<1> DEFINE saved == SaveToken(st, sender, a, n, tok, mustUpdate)
           s == ShardOf[a]
           new == AddToLiquidity(saved, s, n, delta)
<1>1. s \in Shards
  BY ConstantTypes
<1>2. saved \in StoreType
  BY SaveTokenWrites
<1>3. saved.entry[a][n].value = tok.value
  BY SaveTokenWrites
<1>4. OnlyWrites(st, saved, a, s, n)
  BY SaveTokenWrites
<1>5. Matches(saved, st)
  BY SavedMatches
<1>6. ~LiquidityRefused(saved, s, n, delta)
  OBVIOUS
<1> HIDE DEF saved
<1>7. new \in StoreType /\ new.entry = saved.entry
  BY <1>1, <1>2, <1>6, AddToLiquidityWrites
<1> HIDE DEF new
<1>8. \A u \in Shards, m \in Nonces : HeldAt(new, m, AccountsOf(u))
         = IF u = s /\ m = n THEN HeldAt(st, m, AccountsOf(u)) + delta ELSE HeldAt(st, m, AccountsOf(u))
  <2>1. new.entry[a][n].value = st.entry[a][n].value + delta
    BY <1>3, <1>7
  <2>2. \A c \in Accounts, k \in Keys : c # a \/ k # n => new.entry[c][k] = st.entry[c][k]
    BY <1>4, <1>7 DEF OnlyWrites
  <2> QED
    BY <1>7, <2>1, <2>2, ShardHoldings
<1> HIDE DEF s
<1>9. Matches(AddToLiquidity(saved, s, n, delta), new)
  BY <1>1, <1>2, <1>5, <1>6, <1>8, CountingMatches
<1> QED
  BY <1>9 DEF new, saved, s

\* The actions that save a token and count the difference.
LEMMA CreateMatches ==
    ASSUME TypeOK, FlagsOn(LiquidityFlags), Matches(store, store), NEW a \in Accounts,
           NEW q \in Quantities, NFTCreate(a, q)
    PROVE  Matches(store', store')
<1> DEFINE n == latestNonce[a] + 1
           s == ShardOf[a]
           tok == [value |-> q, frozen |-> FALSE, meta |-> TRUE]
           saved == SaveToken(store, a, a, n, tok, TRUE)
           v == store.entry[a][n].value
<1>1. TracksLiquidity /\ On(SaveToSystemAccount)
  BY DEF FlagsOn, LiquidityFlags, TracksLiquidity
<1>2. n \in Nonces
  BY CreateTouches
<1>3. tok \in Entry /\ tok.value = q /\ tok.meta /\ q \in Nat /\ q \in Int
  BY ConstantTypes DEF Entry
<1>4. ~LiquidityRefused(saved, s, n, q) /\ store' = AddToLiquidity(saved, s, n, q)
  BY DEF NFTCreate
<1>5. store \in StoreType
  BY DEF TypeOK
<1> HIDE DEF n, tok
<1>6. v \in Nat /\ s \in Shards
  BY <1>2, <1>5, ConstantTypes, BalanceType
<1>7. CASE v = 0
  <2>1. tok.value = store.entry[a][n].value + q
    BY <1>3, <1>7
  <2> QED
    BY <1>1, <1>2, <1>3, <1>4, <1>5, <2>1, SavedAndCounted
<1>8. CASE v # 0
  <2> DEFINE mid == SaveMetaData(store, s, a, n, tok, TRUE)
             x == store.system[s][n]
             A == AccountsOf(s)
  <2>1. x.exists
    <3>1. A \in SUBSET Accounts /\ a \in A
      BY DEF AccountsOf
    <3>2. v <= HeldAt(store, n, A) /\ HeldAt(store, n, A) \in Nat
      BY <1>2, <1>5, <3>1, HeldIsNat
    <3>3. HeldAt(store, n, A) # 0
      BY <1>6, <1>8, <3>2
    <3> QED
      BY <1>2, <1>6, <3>3 DEF Matches, Agrees
  <2>2. mid.system[s][n].exists /\ ~mid.system[s][n].reserved
    BY <1>1, <1>2, <1>3, <1>5, <1>6, <2>1 DEF SaveMetaData, StoreType
  <2>3. mid \in StoreType
    BY <1>2, <1>5, <1>6, SaveMetaDataWrites
  <2>4. saved.system = mid.system
    BY <2>3 DEF SaveToken, StoreType
  <2>5. store' = saved
    BY <1>4, <2>2, <2>4 DEF AddToLiquidity
  <2>0. /\ SaveToken(store, a, a, n, tok, TRUE) \in StoreType
        /\ SaveToken(store, a, a, n, tok, TRUE).entry[a][n].value = tok.value
        /\ OnlyWrites(store, SaveToken(store, a, a, n, tok, TRUE), a, ShardOf[a], n)
    <3> HIDE DEF s, saved, v
    <3>1. tok \in Entry /\ TRUE \in BOOLEAN
      BY <1>3
    <3> QED
      BY <1>2, <1>5, <3>1, SaveTokenWrites
  <2>6. saved \in StoreType
    BY <2>0
  <2>7. saved.entry[a][n].value = tok.value
    BY <2>0
  <2>8. OnlyWrites(store, saved, a, s, n)
    BY <2>0
  <2>9. Matches(saved, store)
    BY <1>2, <1>3, <1>5, SavedMatches
  <2> HIDE DEF mid, saved, x
  <2>10. q - v \in Int /\ saved.entry[a][n].value = store.entry[a][n].value + (q - v)
    BY <1>3, <1>6, <2>7
  <2>11. \A u \in Shards, m \in Nonces : u # s \/ m # n =>
            HeldAt(saved, m, AccountsOf(u)) = HeldAt(store, m, AccountsOf(u))
    BY <1>2, <1>5, <2>6, <2>8, <2>10, ShardHoldings DEF OnlyWrites
  <2>12. Matches(saved, saved)
    BY <2>2, <2>4, <2>9, <2>11 DEF Matches, Agrees
  <2> QED
    BY <2>5, <2>12
<1> QED
  BY <1>7, <1>8

LEMMA ChangeQuantityMatches ==
    ASSUME TypeOK, TracksLiquidity, Matches(store, store), NEW a \in Accounts, NEW n \in Nonces,
           NEW delta \in Int, Balance(a, n) + delta \in Nat, ChangeQuantity(a, n, delta)
    PROVE  Matches(store', store')
<1> DEFINE tok == [Token(store, a, n) EXCEPT !.value = Token(store, a, n).value + delta]
           s == ShardOf[a]
<1>1. store \in StoreType
  BY DEF TypeOK
<1>2. tok \in Entry /\ tok.value = store.entry[a][n].value + delta
  <2>1. Token(store, a, n).value = store.entry[a][n].value
    BY <1>1, TokenRead
  <2> QED
    BY <1>1, <2>1, TokenWithValue DEF Balance
<1>3. /\ ~LiquidityRefused(SaveToken(store, a, a, n, tok, FALSE), s, n, delta)
      /\ store' = AddToLiquidity(SaveToken(store, a, a, n, tok, FALSE), s, n, delta)
  BY DEF ChangeQuantity
<1> HIDE DEF tok
<1> QED
  BY <1>1, <1>2, <1>3, SavedAndCounted

LEMMA TransferLeavesMatches ==
    ASSUME TypeOK, TracksLiquidity, Matches(store, store), NEW i \in 1..Slots,
           NEW a \in Accounts, NEW b \in Accounts, NEW n \in Nonces,
           NEW q \in Quantities, NEW call \in BOOLEAN, TransferLeaves(i, a, b, n, q, call)
    PROVE  Matches(store', store')
<1> DEFINE tok == [Token(store, a, n) EXCEPT !.value = Token(store, a, n).value - q]
           s == ShardOf[a]
<1>1. store \in StoreType /\ q \in Nat /\ -q \in Int /\ n \in Keys
  BY ConstantTypes DEF TypeOK
<1>2. q <= store.entry[a][n].value
  BY DEF TransferLeaves, CanSend
<1>3. Token(store, a, n).value - q \in Nat /\ Token(store, a, n).value = store.entry[a][n].value
  BY <1>1, <1>2, TokenRead, BalanceType
<1>4. tok \in Entry /\ tok.value = store.entry[a][n].value + (-q)
  <2> DEFINE w == Token(store, a, n).value - q
  <2>1. w \in Nat /\ store \in StoreType /\ w = store.entry[a][n].value + (-q)
    BY <1>1, <1>2, <1>3, ConstantTypes, BalanceType
  <2> HIDE DEF w
  <2>2. [Token(store, a, n) EXCEPT !.value = w] \in Entry /\ [Token(store, a, n) EXCEPT !.value = w].value = w
    BY <2>1, TokenWithValue
  <2> QED
    BY <2>1, <2>2 DEF w
<1>5. Taken(store, a, n, q) = SaveToken(store, a, a, n, tok, FALSE)
  BY DEF Taken
<1>6. /\ ~LiquidityRefused(Taken(store, a, n, q), s, n, -q)
      /\ store' = RecordSent(AddToLiquidity(Taken(store, a, n, q), s, n, -q), s, n, ShardOf[b])
  BY DEF TransferLeaves
<1>7. store' = AddToLiquidity(Taken(store, a, n, q), s, n, -q)
  BY <1>6 DEF RecordSent, TracksLiquidity
<1> HIDE DEF tok
<1> QED
  BY <1>1, <1>4, <1>5, <1>6, <1>7, SavedAndCounted

LEMMA TransferArrivesMatches ==
    ASSUME TypeOK, TracksLiquidity, Matches(store, store), NEW i \in 1..Slots, TransferArrives(i)
    PROVE  Matches(store', store')
<1> DEFINE m == wire[i]
           to == m.to
           from == m.from
           n == m.nonce
           v == m.value
           s == ShardOf[to]
           sum == [Carried(m) EXCEPT !.value = Carried(m).value + store.entry[to][n].value]
<1>1. /\ m # Free
      /\ ~LiquidityRefused(Credited(m), s, n, v) /\ store' = AddToLiquidity(Credited(m), s, n, v)
  BY DEF TransferArrives, Accepted
<1>2. /\ from \in Accounts /\ to \in Accounts /\ n \in Nonces /\ v \in Nat
      /\ Carried(m) \in Entry /\ Carried(m).value = v
  BY <1>1, WireType DEF Carried
<1>3. store \in StoreType
  BY DEF TypeOK
<1>4. Credited(m) = SaveToken(store, from, to, n, sum, FALSE)
  BY DEF Credited, Added
<1> HIDE DEF m, to, from, n, v
<1>5. store.entry[to][n].value \in Nat
  BY <1>2, <1>3, ConstantTypes, BalanceType
<1>6. sum \in Entry /\ sum.value = store.entry[to][n].value + v
  BY <1>2, <1>5 DEF Entry
<1>7. v \in Int
  BY <1>2
<1> HIDE DEF sum
<1> QED
  BY <1>1, <1>2, <1>3, <1>4, <1>6, <1>7, SavedAndCounted

\* Inside a shard nothing is counted: the shard holds what it held.
LEMMA MovedMatches ==
    ASSUME NEW st \in StoreType, Matches(st, st), NEW a \in Accounts, NEW b \in Accounts,
           ShardOf[a] = ShardOf[b], NEW n \in Nonces, NEW q \in Nat, q <= st.entry[a][n].value,
           NEW tok \in Entry, tok.value = q, NEW new, new = Added(Taken(st, a, n, q), a, b, n, tok)
    PROVE  Matches(new, new)
<1> DEFINE tok1 == [Token(st, a, n) EXCEPT !.value = Token(st, a, n).value - q]
           mid == Taken(st, a, n, q)
           sum == [tok EXCEPT !.value = tok.value + mid.entry[b][n].value]
<1>1. n \in Keys
  BY ConstantTypes
<1>2. mid \in StoreType
  BY TakenWrites
<1>3. tok1 \in Entry
  <2>1. Token(st, a, n).value - q \in Nat
    BY <1>1, TokenRead, BalanceType
  <2> QED
    BY <2>1, TokenWithValue
<1>4. mid = SaveToken(st, a, a, n, tok1, FALSE)
  BY DEF Taken
<1>5. new = SaveToken(mid, a, b, n, sum, FALSE)
  BY DEF Added
<1> HIDE DEF mid, tok1
<1>6. sum \in Entry
  BY <1>1, <1>2, BalanceType DEF Entry
<1> HIDE DEF sum
<1>7. Matches(mid, st)
  BY <1>3, <1>4, SavedMatches
<1>8. Matches(new, st)
  BY <1>2, <1>5, <1>6, <1>7, SavedMatches
<1>9. ASSUME NEW u \in Shards, NEW m \in Nonces
      PROVE  HeldAt(new, m, AccountsOf(u)) = HeldAt(st, m, AccountsOf(u))
  <2>1. AccountsOf(u) \in SUBSET Accounts /\ (a \in AccountsOf(u) <=> b \in AccountsOf(u))
    BY DEF AccountsOf
  <2> QED
    BY <2>1, MovedBetween
<1> QED
  BY <1>8, <1>9 DEF Matches

LEMMA TransferInShardMatches ==
    ASSUME TypeOK, Matches(store, store), NEW a \in Accounts, NEW b \in Accounts, NEW n \in Nonces,
           NEW q \in Quantities, NEW call \in BOOLEAN, TransferInShard(a, b, n, q, call)
    PROVE  Matches(store', store')
<1>1. PICK tok \in Entry : tok.value = q /\ store' = Added(Taken(store, a, n, q), a, b, n, tok)
  BY InShardMoves
<1>2. store \in StoreType /\ q \in Nat /\ q <= store.entry[a][n].value /\ ShardOf[a] = ShardOf[b]
  BY InShardMoves
<1> QED
  BY <1>1, <1>2, MovedMatches

LEMMA FreezeMatches ==
    ASSUME TypeOK, Matches(store, store), NEW a \in Accounts, NEW k \in Keys,
           \E v \in BOOLEAN : Freeze(a, k, v)
    PROVE  Matches(store', store')
<1>1. /\ store' \in StoreType /\ store \in StoreType /\ store'.system = store.system
      /\ store'.entry[a][k].value = store.entry[a][k].value
  BY FreezeTouches DEF TypeOK
<1>2. \A c \in Accounts, j \in Keys : c # a \/ j # k => store'.entry[c][j] = store.entry[c][j]
  BY FreezeTouches
<1>3. ASSUME NEW u \in Shards, NEW m \in Nonces
      PROVE  HeldAt(store', m, AccountsOf(u)) = HeldAt(store, m, AccountsOf(u))
  <2>1. AccountsOf(u) \in SUBSET Accounts
    BY DEF AccountsOf
  <2>2. \A c \in Accounts : store'.entry[c][m].value = store.entry[c][m].value
    BY <1>1, <1>2, ConstantTypes
  <2> QED
    BY <1>1, <2>1, <2>2, HeldSame
<1> QED
  BY <1>1, <1>3 DEF Matches

\* A key without its last digit is smaller.
LEMMA FewerDigits ==
    ASSUME NEW k \in Keys, k # 0
    PROVE  k \div Base \in 0..(k - 1) /\ k \div Base \in Keys
<1>1. k \in Nat /\ Base \in Nat /\ Base >= 2 /\ MaxNonce \in Nat /\ k <= MaxNonce /\ k > 0
  BY LedgerAssumption, CoordinatorAssumption DEF Keys
<1> DEFINE d == k \div Base
<1>2. d \in Int /\ Base * d <= k /\ k < Base * d + Base
  BY <1>1
<1> HIDE DEF d
<1>3. d >= 0
  <2>1. ASSUME d < 0
        PROVE  FALSE
    <3>1. Base * d + Base <= 0
      <4>1. d + 1 <= 0 /\ Base * d + Base = Base * (d + 1)
        BY <1>1, <1>2, <2>1
      <4> DEFINE e == d + 1
      <4>2. e \in Int /\ e <= 0 /\ Base >= 2
        BY <1>1, <1>2, <4>1
      <4> HIDE DEF e
      <4>3. Base * e <= 0
        BY <1>1, <4>2
      <4> QED
        BY <4>1, <4>3 DEF e
    <3> QED
      BY <1>1, <1>2, <3>1
  <2> QED
    BY <1>2, <2>1
<1>4. d < k
  <2>1. Base * d >= 2 * d
    BY <1>1, <1>2, <1>3
  <2> QED
    BY <1>1, <1>2, <1>3, <2>1
<1> QED
  BY <1>1, <1>2, <1>3, <1>4 DEF d, Keys

\* A wipe reads the nonce it is given when no digit of it is the separator.
LEMMA NonceIsRead ==
    ASSUME NEW k \in Keys, ~SeparatorIn[k]
    PROVE  ExtractedNonce[k] = k
<1> DEFINE Read(g, j) == IF j = 0 THEN 0 ELSE IF SeparatorIn[j] THEN g[j \div Base] ELSE j
           Upto(g, i) == g = [j \in 0..i |-> Read(g, j)]
           T == {i \in 0..MaxNonce : \E g : Upto(g, i)}
<1>1. MaxNonce \in Nat /\ Keys = 0..MaxNonce
  BY CoordinatorAssumption DEF Keys
<1>2. 0 \in T
  <2> DEFINE g == [j \in 0..0 |-> 0]
  <2>1. g = [j \in 0..0 |-> Read(g, j)]
    OBVIOUS
  <2> HIDE DEF g
  <2> QED
    BY <1>1, <2>1
<1>3. ASSUME NEW i \in 1..MaxNonce, i - 1 \in T
      PROVE  i \in T
  <2>1. PICK g : Upto(g, i - 1)
    BY <1>3
  <2> DEFINE h == [j \in 0..i |-> IF j = i THEN Read(g, i) ELSE g[j]]
  <2>2. ASSUME NEW j \in 0..i
        PROVE  h[j] = Read(h, j)
    <3>1. j # 0 => j \div Base \in 0..(j - 1)
      BY <1>1, <1>3, FewerDigits
    <3>2. j # 0 => h[j \div Base] = g[j \div Base]
      <4> DEFINE d == j \div Base
      <4> HIDE DEF d
      <4>1. j # 0 => d \in 0..i /\ d # i
        BY <3>1 DEF d
      <4> QED
        BY <4>1 DEF d
    <3>3. Read(h, j) = Read(g, j)
      <4> HIDE DEF h
      <4> QED
        BY <3>2
    <3>4. CASE j = i
      BY <3>3, <3>4
    <3>5. CASE j # i
      <4>1. j \in 0..(i - 1) /\ h[j] = g[j]
        BY <3>5
      <4>2. g[j] = Read(g, j)
        <5> HIDE DEF Read
        <5> QED
          BY <2>1, <4>1
      <4> QED
        BY <3>3, <4>1, <4>2
    <3> QED
      BY <3>4, <3>5
  <2>3. h = [j \in 0..i |-> h[j]]
    OBVIOUS
  <2> HIDE DEF h, Read
  <2>4. Upto(h, i)
    BY <2>2, <2>3
  <2> HIDE DEF Upto
  <2> QED
    BY <2>4
<1>4. \A i \in 0..MaxNonce : i \in T
  <2> HIDE DEF T
  <2> QED
    BY <1>1, <1>2, <1>3, ListInduction
<1>5. \E g : Upto(g, MaxNonce)
  <2> HIDE DEF Upto
  <2> QED
    BY <1>1, <1>4
<1>6. ExtractedNonce = CHOOSE g : Upto(g, MaxNonce)
  BY <1>1 DEF ExtractedNonce
<1>7. Upto(ExtractedNonce, MaxNonce)
  <2> HIDE DEF Upto
  <2> QED
    BY <1>5, <1>6
<1> QED
  BY <1>1, <1>7
LEMMA WipeMatches ==
    ASSUME TypeOK, FlagsOn(LiquidityFlags), Matches(store, store),
           NEW a \in Accounts, NEW k \in Keys, Wipe(a, k), ~SeparatorIn[k]
    PROVE  Matches(store', store')
<1> DEFINE v == store.entry[a][k].value
           s == ShardOf[a]
           wiped == [store EXCEPT !.entry[a][k] = NoEntry]
<1>1. TracksLiquidity /\ On(WipeLiquidityDecrease)
  BY DEF FlagsOn, LiquidityFlags, TracksLiquidity
<1>2. store \in StoreType /\ s \in Shards /\ v \in Nat /\ -v \in Int
  BY ConstantTypes, BalanceType DEF TypeOK
<1>3. wiped \in StoreType /\ wiped.system = store.system
  BY <1>2, EntryTypes DEF StoreType
<1>4. /\ wiped.entry[a][k].value = 0
      /\ \A c \in Accounts, j \in Keys : c # a \/ j # k => wiped.entry[c][j] = store.entry[c][j]
  BY <1>2 DEF StoreType, NoEntry
<1>5. Matches(wiped, store)
  BY <1>3 DEF Matches
<1>6. ExtractedNonce[k] = k
  BY NonceIsRead
<1>7. /\ k = 0 => store' = wiped
      /\ k # 0 => /\ ~LiquidityRefused(wiped, s, k, -v)
                 /\ store' = AddToLiquidity(wiped, s, k, -v)
  BY <1>1, <1>6 DEF Wipe
<1> HIDE DEF v, wiped
<1>8. CASE k = 0
  <2>1. ASSUME NEW u \in Shards, NEW m \in Nonces
        PROVE  HeldAt(wiped, m, AccountsOf(u)) = HeldAt(store, m, AccountsOf(u))
    <3>1. AccountsOf(u) \in SUBSET Accounts
      BY DEF AccountsOf
    <3>2. m # k /\ m \in Keys
      BY <1>8, KeysAreNonces
    <3>3. \A c \in Accounts : wiped.entry[c][m].value = store.entry[c][m].value
      BY <1>4, <3>2
    <3> QED
      BY <1>2, <1>3, <3>1, <3>3, HeldSame
  <2>2. Matches(wiped, wiped)
    BY <1>5, <2>1 DEF Matches
  <2> QED
    BY <1>7, <1>8, <2>2
<1>9. CASE k # 0
  <2>1. k \in Nonces
    BY <1>9, CoordinatorAssumption DEF Keys, Nonces
  <2> DEFINE new == AddToLiquidity(wiped, s, k, -v)
  <2>2. new \in StoreType /\ new.entry = wiped.entry
    BY <1>2, <1>3, <1>7, <1>9, AddToLiquidityWrites
  <2> HIDE DEF new
  <2>3. new.entry[a][k].value = store.entry[a][k].value + (-v)
    BY <1>2, <1>4, <2>2 DEF v
  <2>4. \A c \in Accounts, j \in Keys : c # a \/ j # k => new.entry[c][j] = store.entry[c][j]
    BY <1>4, <2>2
  <2>5. \A u \in Shards, m \in Nonces : HeldAt(new, m, AccountsOf(u))
           = IF u = s /\ m = k THEN HeldAt(store, m, AccountsOf(u)) + (-v) ELSE HeldAt(store, m, AccountsOf(u))
    BY <1>2, <2>1, <2>2, <2>3, <2>4, ShardHoldings
  <2> HIDE DEF s
  <2>6. Matches(AddToLiquidity(wiped, s, k, -v), new)
    BY <1>1, <1>2, <1>3, <1>5, <1>7, <1>9, <2>1, <2>5, CountingMatches
  <2> QED
    BY <1>7, <1>9, <2>6 DEF new
<1> QED
  BY <1>8, <1>9

LEMMA UpdateMatches ==
    ASSUME TypeOK, Matches(store, store), NEW a \in Accounts, NEW n \in Nonces, UpdateMetaData(a, n)
    PROVE  Matches(store', store')
<1> DEFINE tok == Token(store, a, n)
<1>1. store \in StoreType /\ tok \in Entry /\ store' = SaveToken(store, a, a, n, tok, TRUE)
  BY TokenRead DEF TypeOK, UpdateMetaData
<1> HIDE DEF tok
<1>2. Matches(store', store)
  BY <1>1, SavedMatches
<1>3. store' \in StoreType /\ \A c \in Accounts, k \in Nonces : store'.entry[c][k].value = store.entry[c][k].value
  BY UpdateTouches, ConstantTypes DEF Touches, Balance
<1>4. ASSUME NEW u \in Shards, NEW m \in Nonces
      PROVE  HeldAt(store', m, AccountsOf(u)) = HeldAt(store, m, AccountsOf(u))
  <2>1. AccountsOf(u) \in SUBSET Accounts
    BY DEF AccountsOf
  <2> QED
    BY <1>1, <1>3, <2>1, HeldSame
<1> QED
  BY <1>2, <1>4 DEF Matches

LEMMA NothingTrackedAtFirst == Init => Matches(store, store)
<1> SUFFICES ASSUME Init, NEW s \in Shards, NEW n \in Nonces
             PROVE  Agrees(store.system[s][n], HeldAt(store, n, AccountsOf(s)))
  BY DEF Matches
<1>1. store = EmptyStore /\ store \in StoreType
  BY EntryTypes DEF Init
<1>2. store.system[s][n] = NoSystemEntry
  BY <1>1 DEF EmptyStore
<1>3. \A a \in Accounts : store.entry[a][n].value = 0
  BY <1>1, ConstantTypes DEF EmptyStore, NoEntry
<1> DEFINE A == AccountsOf(s)
           f == [a \in Accounts |-> store.entry[a][n].value]
<1>4. IsFiniteSet(A) /\ \A a \in A : f[a] = 0
  BY <1>3, CoordinatorAssumption, FS_Subset DEF AccountsOf
<1>5. HeldAt(store, n, A) = SumFunctionOnSet(f, A)
  BY DEF HeldAt
<1> HIDE DEF f, A
<1>6. SumFunctionOnSet(f, {}) = 0
  BY FS_EmptySet, SumUnfolds
<1>7. SumFunctionOnSet(f, {}) = SumFunctionOnSet(f, A)
  BY <1>4, SumRestricts
<1> QED
  BY <1>2, <1>5, <1>6, <1>7 DEF Agrees, NoSystemEntry, A

\* No wipe is of a nonce with the separator of identifiers among its digits.
OnlyWholeKeysWiped == \A a \in Accounts, k \in Keys : Wipe(a, k) => ~SeparatorIn[k]

LEMMA StepMatches ==
    ASSUME LiquidityFlags \subseteq InitFlags, "metadata" \notin Operations,
           TypeOK, FlagsOn(LiquidityFlags), Matches(store, store), [Next]_vars, [OnlyWholeKeysWiped]_vars
    PROVE  Matches(store', store')
<1>0. TracksLiquidity
  BY DEF FlagsOn, LiquidityFlags, TracksLiquidity
<1>1. ASSUME NEW a \in Accounts, UserCalls(a)
      PROVE  Matches(store', store')
  <2>1. ASSUME NEW q \in Quantities, NFTCreate(a, q)
        PROVE  Matches(store', store')
    BY <2>1, CreateMatches
  <2>2. ASSUME NEW n \in Nonces, NEW q \in Quantities, NFTAddQuantity(a, n, q)
        PROVE  Matches(store', store')
    <3>1. q \in Int /\ Balance(a, n) + q \in Nat
      BY ConstantTypes, BalanceType DEF TypeOK, Balance
    <3> QED
      BY <1>0, <2>2, <3>1, ChangeQuantityMatches DEF NFTAddQuantity
  <2>3. ASSUME NEW n \in Nonces, NEW q \in Quantities, NFTBurn(a, n, q)
        PROVE  Matches(store', store')
    <3>1. -q \in Int /\ Balance(a, n) + (-q) \in Nat
      BY <2>3, ConstantTypes, BalanceType DEF TypeOK, Balance, NFTBurn
    <3> QED
      BY <1>0, <2>3, <3>1, ChangeQuantityMatches DEF NFTBurn
  <2>4. ASSUME NEW n \in Nonces, UpdateMetaData(a, n)
        PROVE  Matches(store', store')
    BY <2>4, UpdateMatches
  <2>5. ASSUME NEW b \in Accounts, NEW n \in Nonces, NEW q \in Quantities, NEW call \in BOOLEAN,
               TransferInShard(a, b, n, q, call)
        PROVE  Matches(store', store')
    BY <2>5, TransferInShardMatches
  <2>6. ASSUME NEW b \in Accounts, NEW n \in Nonces, NEW q \in Quantities, NEW call \in BOOLEAN,
               NEW i \in 1..Slots, TransferLeaves(i, a, b, n, q, call)
        PROVE  Matches(store', store')
    BY <1>0, <2>6, TransferLeavesMatches
  <2> QED
    BY <1>1, <2>1, <2>2, <2>3, <2>4, <2>5, <2>6 DEF UserCalls
<1>2. ASSUME NEW i \in 1..Slots, Settle(i)
      PROVE  Matches(store', store')
  <2>1. CASE TransferArrives(i)
    BY <1>0, <2>1, TransferArrivesMatches
  <2>2. CASE TransferFails(i) \/ ReturnFails(i)
    <3>1. UNCHANGED store
      BY <1>0, <2>2 DEF TransferFails, SaveFailedMetaData, ReturnFails, TracksLiquidity
    <3> QED
      BY <3>1
  <2> QED
    BY <1>2, <2>1, <2>2 DEF Settle
<1>3. ASSUME NEW a \in Accounts, NEW k \in Keys, Wipe(a, k) \/ \E v \in BOOLEAN : Freeze(a, k, v)
      PROVE  Matches(store', store')
  <2>1. CASE UNCHANGED vars
    BY <2>1 DEF vars
  <2>2. CASE OnlyWholeKeysWiped
    BY <1>3, <2>2, WipeMatches, FreezeMatches DEF OnlyWholeKeysWiped
  <2> QED
    BY <2>1, <2>2
<1>4. ASSUME NEW n \in Nonces, DeleteMetaData(n) \/ AddMetaData(n)
      PROVE  FALSE
  BY <1>4 DEF DeleteMetaData, AddMetaData, Called
<1>5. ASSUME ChangeSettings \/ ChangeRolesOrOwner \/ NewEpoch \/ UNCHANGED vars
      PROVE  Matches(store', store')
  <2>1. UNCHANGED store
    BY <1>5 DEF ChangeSettings, ChangeRolesOrOwner, NewEpoch, vars
  <2> QED
    BY <2>1
<1> QED
  BY <1>1, <1>2, <1>3, <1>4, <1>5 DEF Next, SystemCalls

\* Once the flags are on, the liquidity tracked on a shard is what its accounts
\* hold, through every transfer, return, freeze and wipe, also where a nonce is
\* created twice: unless metadata is deleted by hand, or a nonce is wiped that
\* has the separator of identifiers among its digits and so is misread.
THEOREM LiquidityIsHeld ==
    ASSUME LiquidityFlags \subseteq InitFlags, "metadata" \notin Operations
    PROVE  Spec /\ [][OnlyWholeKeysWiped]_vars => []LiquidityMatchesHoldings
<1>1. Init => Matches(store, store)
  BY NothingTrackedAtFirst
<1>2. TypeOK /\ FlagsOn(LiquidityFlags) /\ Matches(store, store) /\ [Next]_vars
        /\ [OnlyWholeKeysWiped]_vars => Matches(store', store')
  BY StepMatches
<1>3. Matches(store, store) => LiquidityMatchesHoldings
  BY MatchingIsLiquidity
<1>4. (Init => FlagsOn(LiquidityFlags)) /\ (FlagsOn(LiquidityFlags) /\ [Next]_vars => FlagsOn(LiquidityFlags)')
  BY FlagsStayOn
<1>5. Matches(store, store)' <=> Matches(store', store')
  BY DEF Matches, Agrees, HeldAt
<1> QED
  BY <1>1, <1>2, <1>3, <1>4, <1>5, LedgerTypeCorrect, PTL DEF Spec

\* Where liquidity is right a holder reads the metadata of what it holds.
LEMMA HeldIsRead ==
    ASSUME TypeOK, FlagsOn(LiquidityFlags), LiquidityMatchesHoldings, NEW a \in Accounts, NEW n \in Nonces,
           Balance(a, n) > 0
    PROVE  Token(store, a, n).meta
<1> DEFINE s == ShardOf[a]
           A == AccountsOf(s)
<1>1. TracksLiquidity /\ On(SaveToSystemAccount)
  BY DEF FlagsOn, LiquidityFlags, TracksLiquidity
<1>2. store \in StoreType /\ s \in Shards /\ A \in SUBSET Accounts /\ a \in A
  BY ConstantTypes DEF TypeOK, AccountsOf
<1>3. Held(n, A) = HeldAt(store, n, A)
  BY DEF Held, HeldAt, Balance
<1>4. HeldAt(store, n, A) \in Nat /\ Balance(a, n) \in Nat /\ Balance(a, n) <= HeldAt(store, n, A)
  BY <1>2, HeldIsNat DEF Balance
<1>5. Held(n, A) # 0
  BY <1>3, <1>4
<1>6. store.system[s][n].exists
  BY <1>1, <1>2, <1>5 DEF LiquidityMatchesHoldings
<1>7. store.entry[a][n] # NoEntry /\ store.entry[a][n] \in Entry
  BY <1>2, ConstantTypes, BalanceType DEF Balance, NoEntry
<1> QED
  BY <1>1, <1>6, <1>7 DEF Token, Entry

\* Under the same conditions every holder can read the metadata of what it
\* holds, from the system account of its shard.
THEOREM HoldersReadMetaData ==
    ASSUME LiquidityFlags \subseteq InitFlags, "metadata" \notin Operations
    PROVE  Spec /\ [][OnlyWholeKeysWiped]_vars => []MetaDataReachesHolders
<1>1. TypeOK /\ FlagsOn(LiquidityFlags) /\ LiquidityMatchesHoldings => MetaDataReachesHolders
  BY HeldIsRead DEF MetaDataReachesHolders
<1>2. (Init => FlagsOn(LiquidityFlags)) /\ (FlagsOn(LiquidityFlags) /\ [Next]_vars => FlagsOn(LiquidityFlags)')
  BY FlagsStayOn
<1> QED
  BY <1>1, <1>2, LiquidityIsHeld, LedgerTypeCorrect, PTL DEF Spec
=============================================================================
