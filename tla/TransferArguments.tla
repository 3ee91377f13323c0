--------------------------- MODULE TransferArguments ---------------------------
(***************************************************************************)
(* The arguments of the three transfer functions and everybody who reads   *)
(* them.  The sender's shard executes a call and writes the message for    *)
(* another shard, which executes it or, when that fails, keeps metadata of *)
(* it; at each place the transfer parser tells the virtual machine what    *)
(* the call transfers (dctTransferParser.go).  Each has code of its own,   *)
(* and what an argument means depends on where it is read.                 *)
(*                                                                         *)
(* An argument is a byte string: the number that SetBytes makes of it, its *)
(* length, and the value of the token that Unmarshal makes of it, or -1.   *)
(* Joining arguments with '@' in hexadecimal and splitting them again is   *)
(* the identity on them, the empty ones included.                          *)
(***************************************************************************)
EXTENDS Words, Sequences, FiniteSets

CONSTANTS
    Requests,          \* transfers that users ask for
    OtherCalls,        \* calls with any arguments
    MaxNumber,         \* bound: numbers that users write into arguments
    ByteCount,         \* ByteCount[v]: the bytes of the number v, none for 0
    MarshalledLength,  \* the bytes of a marshalled token with metadata
    MaxLength          \* MaxLengthForValueToOptTransfer

TransferFunctions == {"DCTTransfer", "DCTNFTTransfer", "MultiDCTNFTTransfer"}
Argument == [num : Nat, len : Nat, data : Nat \union {-1}]
Item == [token : Argument, nonce : 0..(Word - 1), value : Nat]

\* What users write, and the transfers they may ask for.
Given == [num : 0..MaxNumber, len : Nat, data : Nat \union {-1}]
GivenItem == [token : Given, nonce : 0..(Word - 1), value : 0..MaxNumber]
Call == [function : TransferFunctions, snd : Given, rcv : Given, args : Seq(Given)]
Request == [function : TransferFunctions, from : Given, to : Given, items : Seq(GivenItem),
            rest : Seq(Given)]

\* A reading: the receiver, the items and the call after the transfer.
Refusal == [ok |-> FALSE]
Reading(rcv, items, rest) == [ok |-> TRUE, rcv |-> rcv, items |-> items, rest |-> rest]
ReadingType ==
    {Refusal} \union [ok : {TRUE}, rcv : Argument, items : Seq(Item), rest : Seq(Argument)]

\* The bytes of a number, of a marshalled token, and the one byte 0.
Number(v) == [num |-> v, len |-> ByteCount[v], data |-> -1]
Marshalled(v) == [num |-> Word + v, len |-> MarshalledLength, data |-> v]
ZeroByte == [num |-> 0, len |-> 1, data |-> -1]

\* The number of transfers stands behind the address where a call is sent, and a
\* message has the number its sender has read.  Bound: lists that can be
\* allocated.
CountFits(args, at) == Len(args) >= 4 => 3 * Uint(args[at].num) + 2 < Word

ASSUME TransferAssumption ==
    /\ Word \in Nat /\ Word > 2
    /\ Requests \subseteq Request
    /\ \A r \in Requests : /\ Len(r.items) > 0 /\ 3 * Len(r.items) + 2 < Word
                           /\ r.function # "MultiDCTNFTTransfer" => Len(r.items) = 1
                           /\ r.function = "DCTTransfer" => r.items[1].nonce = 0
    /\ OtherCalls \subseteq Call
    /\ \A c \in OtherCalls : c.function = "MultiDCTNFTTransfer" => CountFits(c.args, 2)
    /\ MaxNumber \in Nat /\ MaxNumber >= Word
    /\ ByteCount \in [0..MaxNumber -> Nat]
    /\ MaxLength \in Nat /\ MarshalledLength \in Nat /\ MarshalledLength > MaxLength

VARIABLES
    tx,    \* the call under execution: where it is, and what it says
    meant  \* history: what the user asked for, or what left the sender

transferVars == <<tx, meant>>

NoTx == [at |-> "nowhere"]
TxType == {NoTx} \union [at : {"sender", "destination", "back"}, function : TransferFunctions,
                         snd : Argument, rcv : Argument, args : Seq(Argument)]

TransfersTypeOK == tx \in TxType /\ meant \in ReadingType
TransfersInit == tx = NoTx /\ meant = Refusal

RestAfter(args, n) == SubSeq(args, n + 1, Len(args))

-----------------------------------------------------------------------------
\* The parser.  A call to its own receiver carries the destination of an NFT.
ParseDCTTransfer(rcv, args) ==
    IF Len(args) < 2 THEN Refusal
    ELSE Reading(rcv, <<[token |-> args[1], nonce |-> 0, value |-> args[2].num]>>, RestAfter(args, 2))

ParseDCTNFTTransfer(snd, rcv, args) ==
    IF Len(args) < 4 THEN Refusal
    ELSE Reading(IF snd = rcv THEN args[4] ELSE rcv,
                 <<[token |-> args[1], nonce |-> Uint(args[2].num), value |-> args[3].num]>>,
                 RestAfter(args, 4))

\* createNewDCTTransfer, for the item whose token is at p.  Of a token that
\* came in a message only the value is wanted.
OptimisedAt(args, p) == Uint(args[p + 1].num) > 0 /\ args[p + 2].len > MaxLength

\* Fault: one that has as many bytes as a quantity may have is a token.
ParsedItemAtLimit(args, p, atSender) ==
    [token |-> args[p], nonce |-> Uint(args[p + 1].num),
     value |-> IF ~atSender /\ Uint(args[p + 1].num) > 0 /\ args[p + 2].len >= MaxLength
               THEN args[p + 2].data ELSE args[p + 2].num]

ParsedItem(args, p, atSender) ==
    [token |-> args[p], nonce |-> Uint(args[p + 1].num),
     value |-> IF ~atSender /\ OptimisedAt(args, p) THEN args[p + 2].data ELSE args[p + 2].num]

\* Whether a multi transfer is at its sender is told from its first argument,
\* which there is an address and elsewhere a number.
ParseMulti(rcv, args) ==
    LET atSender == args[1].len = rcv.len /\ args[1].num >= Word
        start == IF atSender THEN 2 ELSE 1
        n == Uint(args[start].num)
        end == Uint(3 * n + start)
        At(i) == start + 3 * i - 2
    IN  IF \/ Len(args) < 4
           \/ Len(args) < end
           \/ ~atSender /\ \E i \in 1..n : OptimisedAt(args, At(i)) /\ args[At(i) + 2].data = -1
        THEN Refusal
        ELSE Reading(IF atSender THEN args[1] ELSE rcv,
                     [i \in 1..n |-> ParsedItem(args, At(i), atSender)], RestAfter(args, end))

Parsed(c) ==
    CASE c.function = "DCTTransfer" -> ParseDCTTransfer(c.rcv, c.args)
      [] c.function = "DCTNFTTransfer" -> ParseDCTNFTTransfer(c.snd, c.rcv, c.args)
      [] OTHER -> ParseMulti(c.rcv, c.args)

-----------------------------------------------------------------------------
\* The execution at the sender.  A fungible transfer is called at its receiver,
\* the others at the sender itself.
ExecuteDCTTransfer(rcv, args) ==
    IF Len(args) < 2 \/ args[2].num = 0 THEN Refusal
    ELSE Reading(rcv, <<[token |-> args[1], nonce |-> 0, value |-> args[2].num]>>, RestAfter(args, 2))

ExecuteNFTAtSender(c) ==
    LET args == c.args
    IN  IF \/ Len(args) < 4
           \/ c.snd # c.rcv
           \/ args[4].len # c.snd.len
           \/ args[4] = c.snd
           \/ Uint(args[2].num) = 0
           \/ args[3].num = 0
        THEN Refusal
        ELSE Reading(args[4],
                     <<[token |-> args[1], nonce |-> Uint(args[2].num), value |-> args[3].num]>>,
                     RestAfter(args, 4))

ExecuteMultiAtSender(c) ==
    LET args == c.args
        n == Uint(args[2].num)
        end == Uint(3 * n + 2)
    IN  IF \/ Len(args) < 4
           \/ c.snd # c.rcv
           \/ args[1].len # c.snd.len
           \/ args[1] = c.snd
           \/ n = 0
           \/ Len(args) < end
           \/ \E i \in 1..n : args[3 * i + 2].num = 0
        THEN Refusal
        ELSE Reading(args[1],
                     [i \in 1..n |-> [token |-> args[3 * i], nonce |-> Uint(args[3 * i + 1].num),
                                      value |-> args[3 * i + 2].num]],
                     RestAfter(args, end))

ExecuteAtSender(c) ==
    CASE c.function = "DCTTransfer" -> ExecuteDCTTransfer(c.rcv, c.args)
      [] c.function = "DCTNFTTransfer" -> ExecuteNFTAtSender(c)
      [] OTHER -> ExecuteMultiAtSender(c)

\* The execution at the destination, of a message or of one that comes back.
ExecuteNFTAtDestination(rcv, args) ==
    IF Len(args) < 4 \/ (args[4] # ZeroByte /\ args[4].data = -1) THEN Refusal
    ELSE Reading(rcv,
                 <<[token |-> args[1], nonce |-> Uint(args[2].num),
                    value |-> IF args[4] = ZeroByte THEN args[3].num ELSE args[4].data]>>,
                 RestAfter(args, 4))

ExecuteMultiAtDestination(rcv, args) ==
    LET n == Uint(args[1].num)
        end == Uint(3 * n + 1)
    IN  IF \/ Len(args) < 4
           \/ n = 0
           \/ Len(args) < end
           \/ \E i \in 1..n : OptimisedAt(args, 3 * i - 1) /\ args[3 * i + 1].data = -1
        THEN Refusal
        ELSE Reading(rcv,
                     [i \in 1..n |-> [token |-> args[3 * i - 1], nonce |-> Uint(args[3 * i].num),
                                      value |-> IF OptimisedAt(args, 3 * i - 1)
                                                THEN args[3 * i + 1].data ELSE args[3 * i + 1].num]],
                     RestAfter(args, end))

ExecuteAtDestination(c) ==
    CASE c.function = "DCTTransfer" -> ExecuteDCTTransfer(c.rcv, c.args)
      [] c.function = "DCTNFTTransfer" -> ExecuteNFTAtDestination(c.rcv, c.args)
      [] OTHER -> ExecuteMultiAtDestination(c.rcv, c.args)

Executed(c) == IF c.at = "sender" THEN ExecuteAtSender(c) ELSE ExecuteAtDestination(c)

-----------------------------------------------------------------------------
\* The message for another shard.  A quantity goes alone if the metadata was sent
\* there before.
ItemArguments(items, amounts) ==
    [k \in 1..(3 * Len(items)) |->
        LET x == items[(k + 2) \div 3]
        IN  CASE k % 3 = 1 -> x.token
              [] k % 3 = 2 -> IF x.nonce > 0 THEN Number(x.nonce) ELSE ZeroByte
              [] OTHER -> amounts[(k + 2) \div 3]]

WholeNFT(x, alreadySent) == ~alreadySent \/ x.value = 1

\* Fault: a quantity of any length goes as it is.
WholeItemIfNew(x, alreadySent) == x.nonce > 0 /\ WholeNFT(x, alreadySent)

WholeItem(x, alreadySent) == x.nonce > 0 /\ (WholeNFT(x, alreadySent) \/ ByteCount[x.value] > MaxLength)

NFTMessage(args, x, rest, alreadySent) ==
    SubSeq(args, 1, 3)
        \o <<IF WholeNFT(x, alreadySent) THEN Marshalled(x.value) ELSE ZeroByte>> \o rest

MultiMessage(items, rest, alreadySent) ==
    LET Amounts == [i \in DOMAIN items |->
                       IF WholeItem(items[i], alreadySent[i]) THEN Marshalled(items[i].value)
                       ELSE Number(items[i].value)]
    IN  <<Number(Len(items))>> \o ItemArguments(items, Amounts) \o rest

TransferMessage(c, read, alreadySent) ==
    CASE c.function = "DCTTransfer" -> c.args
      [] c.function = "DCTNFTTransfer" -> NFTMessage(c.args, read.items[1], read.rest, alreadySent[1])
      [] OTHER -> MultiMessage(read.items, read.rest, alreadySent)

\* addMetaDataToSystemAccountFromNFTTransfer and ...FromMultiTransfer: the items
\* whose metadata is kept of a message that fails.
Kept(c) ==
    LET n == Uint(c.args[1].num)
        Whole == {i \in 1..n : OptimisedAt(c.args, 3 * i - 1)}
        Read(i) == c.args[3 * i + 1].data # -1
    IN  CASE c.function = "DCTTransfer" \/ Len(c.args) < 4 -> {}
          [] c.function = "DCTNFTTransfer" -> IF c.args[4].data = -1 THEN {} ELSE {1}
          [] OTHER -> IF Len(c.args) < Uint(3 * n + 1) THEN {}
                      ELSE {i \in Whole : \A k \in Whole : k <= i => Read(k)}

-----------------------------------------------------------------------------
\* External: what a client makes of a transfer, with the data builder.
Encoded(r) ==
    LET Amounts == [i \in DOMAIN r.items |-> Number(r.items[i].value)]
    IN  [function |-> r.function, snd |-> r.from,
         rcv |-> IF r.function = "DCTTransfer" THEN r.to ELSE r.from,
         args |-> CASE r.function = "DCTTransfer" -> <<r.items[1].token, Amounts[1]>> \o r.rest
                    [] r.function = "DCTNFTTransfer" -> ItemArguments(r.items, Amounts) \o <<r.to>> \o r.rest
                    [] OTHER -> <<r.to, Number(Len(r.items))>> \o ItemArguments(r.items, Amounts) \o r.rest]

CallAt(c, place) == [at |-> place, function |-> c.function, snd |-> c.snd, rcv |-> c.rcv, args |-> c.args]

AskRequest(r) ==
    /\ tx = NoTx
    /\ tx' = CallAt(Encoded(r), "sender")
    /\ meant' = Reading(r.to, r.items, r.rest)

AskOther(c) ==
    /\ tx = NoTx
    /\ tx' = CallAt(c, "sender")
    /\ meant' = Refusal

\* The call is executed or refused; if the destination is in the same shard
\* that is all.
EndAtSender ==
    /\ tx.at = "sender"
    /\ tx' = NoTx
    /\ meant' = Refusal

\* For each item it is known whether the shard of the receiver has its metadata.
LeaveSender ==
    LET read == ExecuteAtSender(tx)
    IN  /\ tx.at = "sender"
        /\ read.ok
        /\ \E alreadySent \in [DOMAIN read.items -> BOOLEAN] :
              tx' = [tx EXCEPT !.at = "destination", !.rcv = read.rcv,
                               !.args = TransferMessage(tx, read, alreadySent)]
        /\ meant' = IF meant.ok THEN meant ELSE read

Arrive ==
    /\ tx.at \in {"destination", "back"}
    /\ ExecuteAtDestination(tx).ok
    /\ tx' = NoTx
    /\ meant' = Refusal

\* External: the node sends the transfer back without the call that failed.
TransferPart(c) ==
    CASE c.function = "DCTTransfer" -> SubSeq(c.args, 1, 2)
      [] c.function = "DCTNFTTransfer" -> SubSeq(c.args, 1, 4)
      [] OTHER -> SubSeq(c.args, 1, Uint(3 * Uint(c.args[1].num) + 1))

SendBack ==
    /\ tx.at = "destination"
    /\ tx' = [tx EXCEPT !.at = "back", !.snd = tx.rcv, !.rcv = tx.snd, !.args = TransferPart(tx)]
    /\ meant' = [meant EXCEPT !.rcv = tx.snd, !.rest = <<>>]

TransferBegin == (\E r \in Requests : AskRequest(r)) \/ (\E c \in OtherCalls : AskOther(c))

TransferStep ==
    tx # NoTx /\ (EndAtSender \/ LeaveSender \/ Arrive \/ SendBack)

TransferNext == TransferBegin \/ TransferStep
TransferSpec == TransfersInit /\ [][TransferNext]_transferVars

-----------------------------------------------------------------------------
\* An address that reads as a number of a word is not taken for an address by
\* the parser.
SmallAddress == tx.at = "sender" /\ tx.function = "MultiDCTNFTTransfer" /\ tx.args[1].num < Word

\* Whatever a node executes, the parser says of it: the same receiver, items and
\* call, at the sender, in another shard and when it comes back.
SaidAsExecuted ==
    tx # NoTx /\ Executed(tx).ok /\ ~SmallAddress => Parsed(tx) = Executed(tx)

\* What the user asked for is what the sender's shard executes and, whatever the
\* message leaves out, what the other shard executes, and the first again when
\* it comes back.  Of a message that fails, metadata is kept of just those items
\* that came with theirs.
CameWhole ==
    CASE tx.function = "DCTTransfer" -> {}
      [] tx.function = "DCTNFTTransfer" -> {i \in {1} : tx.args[4].data # -1}
      [] OTHER -> {i \in DOMAIN meant.items : tx.args[3 * i + 1].data # -1}

ReadAsMeant ==
    tx # NoTx /\ meant.ok =>
        /\ tx.at = "sender" /\ Executed(tx).ok => Executed(tx) = meant
        /\ tx.at \in {"destination", "back"} => Executed(tx) = meant
        /\ tx.at = "destination" => Kept(tx) = CameWhole
=============================================================================
