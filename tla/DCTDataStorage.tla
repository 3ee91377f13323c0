---------------------------- MODULE DCTDataStorage ----------------------------
(***************************************************************************)
(* dctDataStorage.go: how the balance of an NFT is written to an account   *)
(* and its metadata and liquidity to the system account of the shard.      *)
(*                                                                         *)
(* The methods are operators on a store                                    *)
(*     [entry  |-> account -> key -> Entry,                                *)
(*      system |-> shard -> nonce -> SystemEntry]                          *)
(* that return the store after the call.  Where a method can return an     *)
(* error there is a predicate for it, because an error makes the node      *)
(* revert everything the transaction wrote.  Key 0 of an account is the    *)
(* entry under the collection's own key, key n the one of the NFT nonce n. *)
(***************************************************************************)
EXTENDS TransferRules

Keys == 0..MaxNonce

\* A DCToken on a user account.  It is stored only while it has a value or is
\* frozen; metadata is kept with it only while SaveToSystemAccount is off.
Entry == [value : Nat, frozen : BOOLEAN, meta : BOOLEAN]
NoEntry == [value |-> 0, frozen |-> FALSE, meta |-> FALSE]

\* The DCToken of a nonce on the system account: its liquidity, whether the
\* liquidity is tracked (Reserved), and the shards that were sent the metadata
\* (Properties).  It exists only with metadata.
SystemEntry == [exists : BOOLEAN, value : Nat, reserved : BOOLEAN, sentTo : SUBSET Shards]
NoSystemEntry == [exists |-> FALSE, value |-> 0, reserved |-> FALSE, sentTo |-> {}]

EmptyStore == [entry |-> [a \in Accounts |-> [k \in Keys |-> NoEntry]],
               system |-> [s \in Shards |-> [n \in Nonces |-> NoSystemEntry]]]

StoreType == [entry : [Accounts -> [Keys -> Entry]],
              system : [Shards -> [Nonces -> SystemEntry]]]

\* getDCTNFTTokenOnDestinationWithAccountsAdapterOptions: the metadata comes
\* from the system account when it is there.
Token(st, a, n) ==
    LET e == st.entry[a][n]
    IN  IF e = NoEntry THEN NoEntry
        ELSE [e EXCEPT !.meta = @ \/ (On(SaveToSystemAccount) /\ st.system[ShardOf[a]][n].exists)]

\* Fault: a return with error is checked like any call.
RefusedOnReturnToo(st, a, tok, returning) ==
    \/ FrozenOrPaused(a, tok)
    \/ On(CheckFrozenCollection) /\ st.entry[a][0].frozen

\* checkFrozenPauseProperties: also the collection, frozen for the account.
Refused(st, a, tok, returning) ==
    /\ ~returning
    /\ \/ FrozenOrPaused(a, tok)
       \/ On(CheckFrozenCollection) /\ st.entry[a][0].frozen

\* Fault: an entry that is overwritten is tracked from zero.
SaveMetaDataTracked(st, senderShard, a, n, tok, mustUpdate) ==
    LET s == ShardOf[a]
    IN  IF On(SaveToSystemAccount) /\ tok.meta /\ (mustUpdate \/ ~st.system[s][n].exists)
        THEN [st EXCEPT !.system[s][n] =
                [exists |-> TRUE, value |-> 0, reserved |-> On(SendAlways),
                 sentTo |-> IF On(SendAlways) THEN {} ELSE {s, senderShard}]]
        ELSE st

\* saveDCTMetaDataToSystemAccount, called for the shard of account a.  An entry
\* it creates starts with no liquidity and is tracked, unless the account holds
\* the token in the old format; one it overwrites is no longer tracked.
SaveMetaData(st, senderShard, a, n, tok, mustUpdate) ==
    LET s == ShardOf[a]
        old == On(FixOldTokenLiquidity) /\ st.entry[a][n].meta
    IN  IF /\ On(SaveToSystemAccount)
           /\ tok.meta
           /\ mustUpdate \/ ~st.system[s][n].exists
        THEN [st EXCEPT !.system[s][n] =
                [exists |-> TRUE,
                 value |-> 0,
                 reserved |-> On(SendAlways) /\ ~@.exists /\ ~old,
                 sentTo |-> IF On(SendAlways) THEN {} ELSE {s, senderShard}]]
        ELSE st

\* SaveDCTNFTToken, after its check.  The frozen flag written is the one of
\* the token it is given.
SaveToken(st, sender, a, n, tok, mustUpdate) ==
    [SaveMetaData(st, ShardOf[sender], a, n, tok, mustUpdate) EXCEPT !.entry[a][n] =
        IF tok.value = 0 THEN NoEntry
        ELSE [tok EXCEPT !.meta = @ /\ ~On(SaveToSystemAccount)]]

\* AddToLiquiditySystemAcc: what it does nothing for ...
TracksLiquidity == On(SaveToSystemAccount) /\ On(SendAlways)

\* ... the old tokens it stops tracking instead of failing ...
OldTokenMoved(x, delta) == On(FixOldTokenLiquidity) /\ x.value = 0 /\ delta < 0

\* ... when it returns an error ...
LiquidityRefused(st, s, n, delta) ==
    LET x == st.system[s][n]
    IN  /\ TracksLiquidity
        /\ \/ ~x.exists
           \/ x.reserved /\ ~OldTokenMoved(x, delta) /\ x.value + delta < 0

\* Fault: the entry is deleted while one token is left.
AddToLiquidityDeletingEarly(st, s, n, delta) ==
    LET x == st.system[s][n]
    IN  IF ~TracksLiquidity \/ ~x.reserved THEN st
        ELSE [st EXCEPT !.system[s][n] = IF x.value + delta <= 1 THEN NoSystemEntry
                                         ELSE [x EXCEPT !.value = @ + delta]]

\* ... and what it writes: an entry that reaches zero is deleted.
AddToLiquidity(st, s, n, delta) ==
    LET x == st.system[s][n]
    IN  IF ~TracksLiquidity \/ ~x.reserved THEN st
        ELSE [st EXCEPT !.system[s][n] =
                IF OldTokenMoved(x, delta) THEN [x EXCEPT !.reserved = FALSE]
                ELSE IF x.value + delta = 0 THEN NoSystemEntry
                ELSE [x EXCEPT !.value = @ + delta]]

\* WasAlreadySentToDestinationShardAndUpdateState for another shard d: the
\* answer, and the store in which d is recorded.
AlreadySent(st, s, n, d) ==
    On(SaveToSystemAccount) /\ ~On(SendAlways) /\ d \in st.system[s][n].sentTo

RecordSent(st, s, n, d) ==
    IF On(SaveToSystemAccount) /\ ~On(SendAlways) /\ st.system[s][n].exists
    THEN [st EXCEPT !.system[s][n].sentTo = @ \union {d}]
    ELSE st

\* Fault: nothing is kept of a transfer that failed.
ForgetFailedMetaData(st, m) == st

\* SaveNFTMetaDataToSystemAccount: run by the node at the destination of a
\* transfer that failed there; it writes the metadata the transfer carried.
SaveFailedMetaData(st, m) ==
    IF On(SendAlways) THEN st
    ELSE SaveMetaData(st, ShardOf[m.from], m.to, m.nonce, m, TRUE)
=============================================================================
