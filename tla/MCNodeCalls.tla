------------------------------ MODULE MCNodeCalls ------------------------------
(***************************************************************************)
(* Instances of NodeCalls for TLC.                                         *)
(***************************************************************************)
EXTENDS NodeCalls

\* A user, a contract that gives names in the user's shard, and a contract in
\* the other shard, both owned by the user.
MCAccounts == {"alice", "dns", "game"}
MCShardOf == [alice |-> 0, dns |-> 0, game |-> 1]
MCContracts == {"dns", "game"}
MCInitOwner == [dns |-> "alice", game |-> "alice"]

\* Two tokens, which are larger than any word.
MCTokenIDs == {20, 21}
MCByteStrings == 0..(Word - 1) \union MCTokenIDs
MCProtectedKeys == {3}
MCSize == [x \in MCByteStrings |-> CASE x = 0 -> 0 [] x = 6 -> 2 [] OTHER -> 1]
MCInitMetadata == {<<20, 1>>, <<20, 2>>, <<20, 3>>, <<21, 1>>, <<21, 15>>}

\* One interval, several, of one token and of two, none, overlapping ones, one
\* argument left over; then refused ones, one up to the last number there is,
\* and two numbers of intervals whose double is not a word.
MCDeleteLists == {
    <<20, 1, 1, 2>>, <<20, 2, 1, 1, 3, 4>>, <<20, 1, 2, 2, 21, 1, 1, 3>>, <<20, 0, 21, 1, 1, 1>>,
    <<20, 1, 1, 2, 20, 1, 2, 3>>, <<20, 1, 1, 1, 21>>,
    <<20, 2, 1, 1>>, <<20, 1, 3, 2>>, <<20, 1, 0, 2>>, <<5, 1, 1, 1>>, <<20, 1, 1, 1, 21, 1>>,
    <<21, 1, 14, 15>>, <<20, 8, 1, 1>>, <<20, 7, 1, 1>>}

\* One entry and two, the same one twice, one that exists, and malformed ones.
MCAddLists == {<<20, 4, 4>>, <<21, 2, 2, 20, 5, 5>>, <<20, 4, 4, 20, 4, 4>>, <<20, 1, 1>>,
               <<20, 4, 3>>, <<20, 0, 0>>, <<6, 4, 4>>}

\* A key alone, two, one twice with another or the same value, a protected one.
MCPairLists == {<<1, 5>>, <<1, 6>>, <<1, 5, 2, 6>>, <<1, 5, 1, 5>>, <<1, 6, 1, 5>>, <<1, 5, 3, 5>>,
                <<1, 0>>}

\* Bytes of base 4: a word is two of them, as is the longest quantity; an address
\* has four.  An address may be a small number.
MCByteCount == [v \in 0..164 |-> CHOOSE k \in 0..4 : v < 4^k /\ \A j \in 0..(k - 1) : v >= 4^j]
Bytes(num, len) == [num |-> num, len |-> len, data |-> -1]
MCAlice == Bytes(100, 4)
MCBob == Bytes(164, 4)
MCSmall == Bytes(3, 4)
MCToken == Bytes(33, 3)
MCOtherToken == Bytes(34, 3)
MCFunction == Bytes(50, 3)

\* One item and two: fungible and not, one, several and a quantity of three bytes;
\* no call after the transfer, one without and one with an argument.
MCItems(tokens) == [token : tokens, nonce : {0, 1, 15}, value : {1, 5, 20}]
MCRests == {<<>>, <<MCFunction>>, <<MCFunction, Number(7)>>}

Requested(function, items) ==
    [function : {function}, from : {MCAlice}, to : {MCBob}, items : items, rest : MCRests]

MCRequests ==
    LET One == {<<x>> : x \in MCItems({MCToken})}
        Two == {<<x, y>> : x \in MCItems({MCToken}), y \in MCItems({MCToken, MCOtherToken})}
    IN  Requested("DCTTransfer", {s \in One : s[1].nonce = 0})
          \union Requested("DCTNFTTransfer", One)
          \union Requested("MultiDCTNFTTransfer", One \union Two)

\* Too few arguments and none of value; addresses that are not of a receiver, are
\* the sender's or small; numbers that wrap around or have zeros in front.
OtherCall(function, rcv, args) == [function |-> function, snd |-> MCAlice, rcv |-> rcv, args |-> args]

MCOtherCalls ==
    {OtherCall("DCTTransfer", MCBob, args) :
        args \in {<<MCToken>>, <<MCToken, Number(0)>>, <<MCToken, Bytes(5, 4)>>}}
    \union
    {OtherCall("DCTNFTTransfer", rcv, <<MCToken, nonce, Number(5), to>>) :
        rcv \in {MCAlice, MCBob}, nonce \in {Number(1), Number(17), Bytes(2, 4)},
        to \in {MCAlice, MCBob, MCSmall, MCToken, ZeroByte}}
    \union
    {OtherCall("MultiDCTNFTTransfer", rcv, <<to, Number(n), MCToken, Number(16), Bytes(5, 3)>> \o more) :
        rcv \in {MCAlice, MCBob}, to \in {MCAlice, MCBob, MCSmall, MCToken}, n \in {0, 1, 2, 17},
        more \in {<<>>, <<MCToken, Number(1), Bytes(20, 4)>>}}
=============================================================================
