----------------------------- MODULE ArgumentLoops -----------------------------
(***************************************************************************)
(* Functions that loop over their arguments: DCTDeleteMetadata and         *)
(* DCTAddMetadata on the system account (dctDeleteMetadata.go), and        *)
(* SaveKeyValue on an account (keyValueStorage.go).  One iteration is a    *)
(* step, indices and nonces are unsigned and wrap around at Word, and an   *)
(* error on the way leaves the account as the call found it.               *)
(* A byte string is the number that SetBytes makes of it.                  *)
(***************************************************************************)
EXTENDS Words, Sequences

CONSTANTS
    ByteStrings,    \* numbers that stand for arguments and stored values
    TokenIDs,       \* those that ValidateToken accepts
    ProtectedKeys,  \* those that begin with the protected prefix
    Size,           \* Size[x]: the bytes of x
    InitMetadata,   \* what the system account has metadata of at first
    DeleteLists, AddLists, PairLists,  \* argument lists of the calls
    FuncCost, PersistPerByte, StorePerByte,  \* gas costs of SaveKeyValue
    GasLimits       \* gas provided to it

ASSUME LoopAssumption ==
    /\ Word \in Nat /\ Word > 2 /\ Word % 2 = 0
    /\ ByteStrings \subseteq Nat /\ 0 \in ByteStrings
    /\ TokenIDs \subseteq ByteStrings /\ ProtectedKeys \subseteq ByteStrings
    /\ Size \in [ByteStrings -> Nat]
    /\ InitMetadata \subseteq TokenIDs \X (1..(Word - 1))
    /\ DeleteLists \subseteq Seq(ByteStrings)
    /\ AddLists \subseteq Seq(ByteStrings)
    /\ PairLists \subseteq Seq(ByteStrings)
    /\ FuncCost \in Nat /\ PersistPerByte \in Nat /\ StorePerByte \in Nat
    /\ GasLimits \subseteq 0..(Word - 1)

VARIABLES
    metadata,  \* the <<token, nonce>> the saved system account has metadata of
    storage,   \* what the account has saved under each key, 0 when nothing
    loop,      \* the call under execution: its arguments and where it is
    charged    \* the last SaveKeyValue: gas it had, used and left, and whether
               \* its last pair changed the account

loopVars == <<metadata, storage, loop, charged>>

NoLoop == [pc |-> "none"]
NotCharged == [gas |-> 0, used |-> 0, left |-> 0, wrote |-> FALSE]

Entries == TokenIDs \X (1..(Word - 1))
Index == 0..(Word - 1)

\* Where a call can be: at the beginning of a group of intervals, of an
\* interval, at a nonce; at an entry to add; at a pair to save.
AtGroup == [pc : {"group"}, args : DeleteLists, i : Index, entries : SUBSET Entries]
AtInterval ==
    [pc : {"interval"}, args : DeleteLists, i : Index, j : Index, entries : SUBSET Entries]
AtNonce ==
    [pc : {"nonce"}, args : DeleteLists, i : Index, j : Index, nonce : Index,
     entries : SUBSET Entries]
AtEntry == [pc : {"add"}, args : AddLists, i : Nat, entries : SUBSET Entries]
AtPair ==
    [pc : {"pair"}, args : PairLists, i : Nat, used : Nat, gas : Index, wrote : BOOLEAN,
     before : [ByteStrings -> ByteStrings]]

LoopType == {NoLoop} \union AtGroup \union AtInterval \union AtNonce \union AtEntry \union AtPair

LoopTypeOK ==
    /\ metadata \subseteq Entries
    /\ storage \in [ByteStrings -> ByteStrings]
    /\ loop \in LoopType
    /\ charged \in [gas : Index, used : Nat, left : Index, wrote : BOOLEAN]

LoopInit ==
    /\ metadata = InitMetadata
    /\ storage = [k \in ByteStrings |-> 0]
    /\ loop = NoLoop
    /\ charged = NotCharged

-----------------------------------------------------------------------------
\* deleteMetadata: token, number of intervals, intervals (first, last), the
\* next token and so on.  Indices begin at 0, those of a TLA+ sequence at 1.
TokenAt(args, i) == args[i + 1]
CountAt(args, i) == Uint(args[i + 2])
FirstAt(args, j) == Uint(args[j + 1])
LastAt(args, j) == Uint(args[j + 2])

\* i + 2 + numIntervals * 2, in words.
GroupEnd(args, i) == Uint(i + 2 + Uint(2 * CountAt(args, i)))

BeginDelete(args) ==
    /\ loop = NoLoop
    /\ Len(args) >= 4
    /\ loop' = [pc |-> "group", args |-> args, i |-> 0, entries |-> metadata]
    /\ UNCHANGED <<metadata, storage, charged>>

MoreGroups == Uint(loop.i + 1) < Len(loop.args)

GroupRefused ==
    \/ TokenAt(loop.args, loop.i) \notin TokenIDs
    \/ Uint(loop.i + 2) >= Len(loop.args)

ReadGroup ==
    /\ loop.pc = "group"
    /\ MoreGroups
    /\ ~GroupRefused
    /\ loop' = [pc |-> "interval", args |-> loop.args, i |-> loop.i, j |-> Uint(loop.i + 2),
                entries |-> loop.entries]
    /\ UNCHANGED <<metadata, storage, charged>>

\* deleteMetadataForListIntervals: the intervals of one token.
MoreIntervals == loop.j < GroupEnd(loop.args, loop.i)

IntervalAccepted ==
    /\ loop.j <= Len(loop.args) - 2
    /\ FirstAt(loop.args, loop.j) <= LastAt(loop.args, loop.j)
    /\ FirstAt(loop.args, loop.j) # 0

ReadInterval ==
    /\ loop.pc = "interval"
    /\ MoreIntervals
    /\ IntervalAccepted
    /\ loop' = [pc |-> "nonce", args |-> loop.args, i |-> loop.i, j |-> loop.j,
                nonce |-> FirstAt(loop.args, loop.j), entries |-> loop.entries]
    /\ UNCHANGED <<metadata, storage, charged>>

\* deleteMetadataForInterval: up to the last nonce, which may be the largest
\* number there is.
MoreNonces == loop.nonce <= LastAt(loop.args, loop.j)

\* Fault: nonces without metadata are passed over, and the counter with them.
DeleteNonceFound ==
    LET key == <<TokenAt(loop.args, loop.i), loop.nonce>>
    IN  /\ loop.pc = "nonce"
        /\ MoreNonces
        /\ loop' = [loop EXCEPT !.nonce = IF key \in loop.entries THEN Uint(@ + 1) ELSE @,
                                !.entries = @ \ {key}]
        /\ UNCHANGED <<metadata, storage, charged>>

\* Fault: the key is made of the first token, whichever token it is the turn of.
DeleteNonceOfFirst ==
    /\ loop.pc = "nonce"
    /\ MoreNonces
    /\ loop' = [loop EXCEPT !.nonce = Uint(@ + 1),
                            !.entries = @ \ {<<TokenAt(loop.args, 0), loop.nonce>>}]
    /\ UNCHANGED <<metadata, storage, charged>>

DeleteNonce ==
    /\ loop.pc = "nonce"
    /\ MoreNonces
    /\ loop' = [loop EXCEPT !.nonce = Uint(@ + 1),
                            !.entries = @ \ {<<TokenAt(loop.args, loop.i), loop.nonce>>}]
    /\ UNCHANGED <<metadata, storage, charged>>

LeaveInterval ==
    /\ loop.pc = "nonce"
    /\ ~MoreNonces
    /\ loop' = [pc |-> "interval", args |-> loop.args, i |-> loop.i, j |-> Uint(loop.j + 2),
                entries |-> loop.entries]
    /\ UNCHANGED <<metadata, storage, charged>>

LeaveGroup ==
    /\ loop.pc = "interval"
    /\ ~MoreIntervals
    /\ loop' = [pc |-> "group", args |-> loop.args, i |-> GroupEnd(loop.args, loop.i),
                entries |-> loop.entries]
    /\ UNCHANGED <<metadata, storage, charged>>

\* An argument left over at the end is not looked at.  The account is saved.
EndDelete ==
    /\ loop.pc = "group"
    /\ ~MoreGroups
    /\ metadata' = loop.entries
    /\ loop' = NoLoop
    /\ UNCHANGED <<storage, charged>>

\* An error: the loaded account is not saved.
DeleteFails ==
    /\ \/ loop.pc = "group" /\ MoreGroups /\ GroupRefused
       \/ loop.pc = "interval" /\ MoreIntervals /\ ~IntervalAccepted
    /\ loop' = NoLoop
    /\ UNCHANGED <<metadata, storage, charged>>

DeleteStep ==
    ReadGroup \/ ReadInterval \/ DeleteNonce \/ LeaveInterval \/ LeaveGroup \/ EndDelete \/ DeleteFails

-----------------------------------------------------------------------------
\* addMetadata: token, nonce, metadata, the next token and so on.  Of the
\* metadata's bytes only the nonce in it matters.
AddedKey(args, i) == <<args[i + 1], Uint(args[i + 2])>>

BeginAdd(args) ==
    /\ loop = NoLoop
    /\ Len(args) >= 3 /\ Len(args) % 3 = 0
    /\ loop' = [pc |-> "add", args |-> args, i |-> 0, entries |-> metadata]
    /\ UNCHANGED <<metadata, storage, charged>>

\* Fault: whether there is metadata is asked of the account as it was saved.
AddRefusedBySaved ==
    \/ AddedKey(loop.args, loop.i)[2] = 0
    \/ loop.args[loop.i + 1] \notin TokenIDs
    \/ Uint(loop.args[loop.i + 3]) # AddedKey(loop.args, loop.i)[2]
    \/ AddedKey(loop.args, loop.i) \in metadata

EntryRefused ==
    \/ AddedKey(loop.args, loop.i)[2] = 0
    \/ loop.args[loop.i + 1] \notin TokenIDs
    \/ Uint(loop.args[loop.i + 3]) # AddedKey(loop.args, loop.i)[2]
    \/ AddedKey(loop.args, loop.i) \in loop.entries

AddEntry ==
    /\ loop.pc = "add"
    /\ loop.i < Len(loop.args)
    /\ ~EntryRefused
    /\ loop' = [pc |-> "add", args |-> loop.args, i |-> loop.i + 3,
                entries |-> loop.entries \union {AddedKey(loop.args, loop.i)}]
    /\ UNCHANGED <<metadata, storage, charged>>

EndAdd ==
    /\ loop.pc = "add"
    /\ loop.i >= Len(loop.args)
    /\ metadata' = loop.entries
    /\ loop' = NoLoop
    /\ UNCHANGED <<storage, charged>>

AddFails ==
    /\ loop.pc = "add"
    /\ loop.i < Len(loop.args)
    /\ EntryRefused
    /\ loop' = NoLoop
    /\ UNCHANGED <<metadata, storage, charged>>

-----------------------------------------------------------------------------
\* SaveKeyValue: pairs of key and value.
BeginSave(args, gas) ==
    /\ loop = NoLoop
    /\ Len(args) >= 2 /\ Len(args) % 2 = 0
    /\ loop' = [pc |-> "pair", args |-> args, i |-> 0, used |-> FuncCost, gas |-> gas,
                wrote |-> FALSE, before |-> storage]
    /\ UNCHANGED <<metadata, storage, charged>>

Key == loop.args[loop.i + 1]
Value == loop.args[loop.i + 2]
MorePairs == loop.pc = "pair" /\ loop.i < Len(loop.args)

\* The gas used after this pair: its bytes and, if it changes the account, the
\* bytes it adds.  The code adds in words; costs and lengths do not reach them.
PairGas == loop.used + (Size[Key] + Size[Value]) * PersistPerByte
Growth == IF Size[storage[Key]] < Size[Value] THEN Size[Value] - Size[storage[Key]] ELSE 0
ChangeGas == PairGas + StorePerByte * Growth

AfterPair(used, wrote) ==
    [pc |-> "pair", args |-> loop.args, i |-> loop.i + 2, used |-> used, gas |-> loop.gas,
     wrote |-> wrote, before |-> loop.before]

KeepPair ==
    /\ MorePairs
    /\ Key \notin ProtectedKeys
    /\ storage[Key] = Value
    /\ loop' = AfterPair(PairGas, FALSE)
    /\ UNCHANGED <<metadata, storage, charged>>

\* Fault: what is to be paid is compared before the added bytes are counted.
WritePairOnCredit ==
    /\ MorePairs
    /\ Key \notin ProtectedKeys
    /\ storage[Key] # Value
    /\ loop.gas >= PairGas
    /\ storage' = [storage EXCEPT ![Key] = Value]
    /\ loop' = AfterPair(ChangeGas, TRUE)
    /\ UNCHANGED <<metadata, charged>>

WritePair ==
    /\ MorePairs
    /\ Key \notin ProtectedKeys
    /\ storage[Key] # Value
    /\ loop.gas >= ChangeGas
    /\ storage' = [storage EXCEPT ![Key] = Value]
    /\ loop' = AfterPair(ChangeGas, TRUE)
    /\ UNCHANGED <<metadata, charged>>

\* GasRemaining -= useGas, in words.
EndSave ==
    /\ loop.pc = "pair"
    /\ loop.i >= Len(loop.args)
    /\ charged' = [gas |-> loop.gas, used |-> loop.used, left |-> Uint(loop.gas - loop.used),
                   wrote |-> loop.wrote]
    /\ loop' = NoLoop
    /\ UNCHANGED <<metadata, storage>>

\* An error.  External: the node takes back what the call wrote.
SaveFails ==
    /\ MorePairs
    /\ \/ Key \in ProtectedKeys
       \/ storage[Key] # Value /\ loop.gas < ChangeGas
    /\ storage' = loop.before
    /\ loop' = NoLoop
    /\ UNCHANGED <<metadata, charged>>

-----------------------------------------------------------------------------
LoopBegin ==
    \/ \E args \in DeleteLists : BeginDelete(args)
    \/ \E args \in AddLists : BeginAdd(args)
    \/ \E args \in PairLists, gas \in GasLimits : BeginSave(args, gas)

LoopStep ==
    \/ DeleteStep
    \/ AddEntry \/ EndAdd \/ AddFails
    \/ KeepPair \/ WritePair \/ EndSave \/ SaveFails

LoopNext == LoopBegin \/ LoopStep
LoopSpec == LoopInit /\ [][LoopNext]_loopVars
FairLoopSpec == LoopSpec /\ WF_loopVars(LoopStep)

-----------------------------------------------------------------------------
\* The reference: what a list of deletions says, in numbers without a bound.
\* A group begins at 0 and behind the intervals of the group before it.
After(args, p) == p + 2 + 2 * CountAt(args, p)

ClosedUnderAfter(args, S) ==
    \A q \in S : q + 1 < Len(args) /\ After(args, q) <= Len(args) => After(args, q) \in S

GroupStarts(args) ==
    {p \in 0..Len(args) : \A S \in SUBSET (0..Len(args)) :
        0 \in S /\ ClosedUnderAfter(args, S) => p \in S}

\* The nonces of the first k intervals of the group at p.
InGroup(args, p, k) ==
    {e \in Entries : /\ e[1] = TokenAt(args, p)
                     /\ \E x \in 0..(k - 1) :
                           /\ p + 3 + 2 * x < Len(args)
                           /\ FirstAt(args, p + 2 + 2 * x) <= e[2]
                           /\ e[2] <= LastAt(args, p + 2 + 2 * x)}

ListedBefore(args, i) ==
    {e \in Entries : \E p \in GroupStarts(args) :
        p < i /\ p + 1 < Len(args) /\ e \in InGroup(args, p, CountAt(args, p))}

\* The numbers of intervals do not wrap around, and no interval ends at the
\* largest number, after which there is none to stop at.
Fits(args) ==
    /\ Len(args) + 2 < Word
    /\ \A p \in GroupStarts(args) : p + 1 < Len(args) =>
          /\ After(args, p) < Word
          /\ \A x \in 0..(CountAt(args, p) - 1) :
                p + 3 + 2 * x < Len(args) => LastAt(args, p + 2 + 2 * x) < Word - 1

\* The entries a list of additions names before i.
AddedBefore(args, i) == {AddedKey(args, 3 * x) : x \in {y \in 0..Len(args) : 3 * y < i}}

\* A deletion that is not refused takes away exactly the nonces of all its
\* intervals, of every token listed; an addition adds exactly what it lists,
\* nothing of it twice and nothing that was there.
ListsDoneExactly ==
    /\ loop.pc = "group" /\ ~MoreGroups /\ Fits(loop.args) =>
          loop.entries = metadata \ ListedBefore(loop.args, Len(loop.args))
    /\ loop.pc = "add" /\ loop.i >= Len(loop.args) =>
          /\ loop.entries = metadata \union AddedBefore(loop.args, Len(loop.args))
          /\ \A x, y \in 0..(Len(loop.args) - 1) :
                3 * x < Len(loop.args) /\ 3 * y < Len(loop.args) /\ x # y =>
                    AddedKey(loop.args, 3 * x) # AddedKey(loop.args, 3 * y)
          /\ AddedBefore(loop.args, Len(loop.args)) \intersect metadata = {}

\* Whatever SaveKeyValue has written is paid for, pair by pair, and if the last
\* pair wrote something the gas left is what was not used.
WritesArePaid ==
    /\ loop.pc = "pair" /\ loop.wrote => loop.used <= loop.gas
    /\ charged.wrote => charged.left + charged.used = charged.gas

\* A call comes to its end, if no interval of it ends at the largest number.
LoopsEnd == (loop.pc # "none" /\ (loop.pc \in {"group", "interval", "nonce"} => Fits(loop.args)))
                ~> loop.pc = "none"
=============================================================================
