---------------------------- MODULE ArgumentsProofs ----------------------------
(***************************************************************************)
(* That deletions and additions of metadata do exactly what their lists    *)
(* say, that what SaveKeyValue has written is paid for, and that everybody *)
(* who reads the arguments of a transfer reads the same: for any lists and *)
(* any calls, any width of a word and any costs.                           *)
(*                                                                         *)
(* The invariant of the loops follows them: at the beginning of a group    *)
(* the entries lack what the groups before it list, within a group also    *)
(* what its first intervals list, within an interval also its first        *)
(* nonces.  That the index is at the beginning of a group of the reference *)
(* rests on the sizes of groups, which must be words.                      *)
(*                                                                         *)
(* The invariant of the transfers is the shape of a message: that its      *)
(* count is a word and its arguments are as many as it says, and that just *)
(* those amounts are longer than a quantity may be that are tokens.        *)
(***************************************************************************)
EXTENDS ArgumentLoops, TransferArguments, SequenceTheorems, TLAPS

\* Numbers of words.
LEMMA WordRange == \A x \in Int : Uint(x) \in Index
BY LoopAssumption DEF Uint, Index

LEMMA WordSmall == \A x \in Index : Uint(x) = x
BY LoopAssumption DEF Uint, Index

LEMMA WordWraps == \A x \in Word..(2 * Word - 1) : Uint(x) = x - Word
BY LoopAssumption DEF Uint

LEMMA NatProduct == \A x, y \in Nat : x * y \in Nat
OBVIOUS

\* What is read from a list.
LEMMA ListNumbers ==
    ASSUME NEW args \in DeleteLists \union AddLists \union PairLists,
           NEW n \in Nat, n < Len(args)
    PROVE  args[n + 1] \in ByteStrings /\ Uint(args[n + 1]) \in Index
<1>1. args \in Seq(ByteStrings)
  BY LoopAssumption
<1>2. n + 1 \in 1..Len(args)
  BY <1>1
<1>3. args[n + 1] \in ByteStrings
  BY <1>1, <1>2
<1>4. \A x \in ByteStrings : Uint(x) \in Index
  BY LoopAssumption, WordRange
<1>5. QED
  BY <1>3, <1>4

-----------------------------------------------------------------------------
\* Lists are walked in whole pairs and triples, so that no index passes the
\* end; the index of a deletion remains even when it wraps around.
WholeItems ==
    /\ loop.pc \in {"group", "interval", "nonce"} => loop.i % 2 = 0
    /\ loop.pc \in {"interval", "nonce"} => loop.i + 1 < Len(loop.args)
    /\ loop.pc = "nonce" => loop.j + 1 < Len(loop.args)
    /\ loop.pc = "add" => Len(loop.args) % 3 = 0 /\ loop.i % 3 = 0 /\ loop.i <= Len(loop.args)
    /\ loop.pc = "pair" => Len(loop.args) % 2 = 0 /\ loop.i % 2 = 0 /\ loop.i <= Len(loop.args)

TypeInv == LoopTypeOK /\ WholeItems

LEMMA ShapeOfLoop ==
    ASSUME LoopTypeOK
    PROVE  /\ loop.pc = "group" => loop \in AtGroup
           /\ loop.pc = "interval" => loop \in AtInterval
           /\ loop.pc = "nonce" => loop \in AtNonce
           /\ loop.pc = "add" => loop \in AtEntry
           /\ loop.pc = "pair" => loop \in AtPair
BY DEF LoopTypeOK, LoopType, NoLoop, AtGroup, AtInterval, AtNonce, AtEntry, AtPair

LEMMA RestOfType ==
    ASSUME LoopTypeOK
    PROVE  /\ metadata \subseteq Entries
           /\ storage \in [ByteStrings -> ByteStrings]
           /\ charged \in [gas : Index, used : Nat, left : Index, wrote : BOOLEAN]
           /\ Index \subseteq Nat
BY DEF LoopTypeOK, Index

LEMMA InitType == LoopInit => TypeInv
<1> SUFFICES ASSUME LoopInit PROVE TypeInv
  OBVIOUS
<1>1. LoopTypeOK
  BY LoopAssumption DEF LoopInit, LoopTypeOK, LoopType, NoLoop, NotCharged, Index, Entries
<1>2. QED
  BY <1>1 DEF LoopInit, TypeInv, WholeItems, NoLoop

\* The end of a group is a word, and even if the group begins at an even one.
LEMMA EndOfGroup ==
    ASSUME NEW args \in DeleteLists, NEW i \in Index, i % 2 = 0, i + 1 < Len(args)
    PROVE  /\ CountAt(args, i) \in Index
           /\ GroupEnd(args, i) \in Index
           /\ GroupEnd(args, i) % 2 = 0
<1> DEFINE c == CountAt(args, i)
           d == Uint(2 * c)
<1> USE DEF Index
<1>0. Word \in Nat /\ Word > 2 /\ Word % 2 = 0 /\ i <= Word - 2
  BY LoopAssumption
<1>1. c \in Index
  BY ListNumbers, <1>0 DEF CountAt
<1>2. d \in Index /\ d % 2 = 0
  <2>1. CASE 2 * c \in Index
    BY <2>1, <1>1, WordSmall
  <2>2. CASE 2 * c \in Word..(2 * Word - 1)
    <3>1. d = 2 * c - Word
      BY <2>2, WordWraps
    <3>2. QED
      BY <3>1, <2>2, <1>1, <1>0
  <2>3. QED
    BY <2>1, <2>2, <1>1, <1>0
<1>3. GroupEnd(args, i) = Uint(i + 2 + d)
  BY DEF GroupEnd
<1> HIDE DEF d, c
<1>4. CASE i + 2 + d \in Index
  BY <1>1, <1>2, <1>3, <1>4, WordSmall DEF c
<1>5. CASE i + 2 + d \in Word..(2 * Word - 1)
  <2>1. Uint(i + 2 + d) = (i + 2 + d) - Word
    BY <1>5, WordWraps
  <2>2. QED
    BY <2>1, <1>5, <1>3, <1>2, <1>1, <1>0 DEF c
<1>6. QED
  BY <1>4, <1>5, <1>2, <1>0

LEMMA DeleteType == TypeInv /\ DeleteStep => TypeInv'
<1> SUFFICES ASSUME TypeInv, DeleteStep PROVE TypeInv'
  OBVIOUS
<1>0. LoopTypeOK /\ WholeItems
  BY DEF TypeInv
<1> USE <1>0, RestOfType, ShapeOfLoop
<1>1. CASE ReadGroup
  <2>1. loop \in AtGroup /\ loop.i % 2 = 0
    BY <1>1 DEF ReadGroup, WholeItems
  <2>2. loop.i <= Word - 2
    BY <2>1, LoopAssumption DEF AtGroup, Index
  <2>3. loop.i + 1 < Len(loop.args)
    BY <1>1, <2>1, <2>2, WordSmall, LoopAssumption DEF ReadGroup, MoreGroups, AtGroup, Index
  <2>4. Uint(loop.i + 2) \in Index
    BY <2>1, WordRange DEF AtGroup
  <2>5. loop' \in AtInterval
    BY <1>1, <2>1, <2>4 DEF ReadGroup, AtGroup, AtInterval
  <2>6. WholeItems'
    BY <1>1, <2>1, <2>3 DEF ReadGroup, WholeItems
  <2>7. QED
    BY <2>5, <2>6, <1>1 DEF ReadGroup, LoopTypeOK, LoopType, TypeInv
<1>2. CASE ReadInterval
  <2>1. loop \in AtInterval
    BY <1>2 DEF ReadInterval
  <2>2. loop.j \in Nat /\ loop.j + 1 < Len(loop.args)
    BY <1>2, <2>1, LoopAssumption DEF ReadInterval, IntervalAccepted, AtInterval
  <2>3. FirstAt(loop.args, loop.j) \in Index
    <3>1. loop.args \in DeleteLists
      BY <2>1 DEF AtInterval
    <3>2. loop.j \in Nat /\ loop.j < Len(loop.args)
      BY <2>2, <3>1, LoopAssumption
    <3>3. Uint(loop.args[loop.j + 1]) \in Index
      BY <3>1, <3>2, ListNumbers
    <3>4. QED
      BY <3>3 DEF FirstAt
  <2>4. loop' \in AtNonce
    BY <1>2, <2>1, <2>3 DEF ReadInterval, AtInterval, AtNonce
  <2>5. WholeItems'
    BY <1>2, <2>2 DEF ReadInterval, WholeItems
  <2>6. QED
    BY <2>4, <2>5, <1>2 DEF ReadInterval, LoopTypeOK, LoopType, TypeInv
<1>3. CASE DeleteNonce
  <2>1. loop \in AtNonce
    BY <1>3 DEF DeleteNonce
  <2>2. Uint(loop.nonce + 1) \in Index
    BY <2>1, WordRange DEF AtNonce
  <2>3. loop' \in AtNonce /\ loop'.pc = loop.pc /\ loop'.i = loop.i /\ loop'.j = loop.j
        /\ loop'.args = loop.args
    BY <1>3, <2>1, <2>2 DEF DeleteNonce, AtNonce
  <2>4. WholeItems'
    BY <2>3, <1>3 DEF WholeItems, AtNonce
  <2>5. QED
    BY <2>3, <2>4, <1>3 DEF DeleteNonce, LoopTypeOK, LoopType, TypeInv
<1>4. CASE LeaveInterval
  <2>1. loop \in AtNonce
    BY <1>4 DEF LeaveInterval
  <2>2. Uint(loop.j + 2) \in Index
    BY <2>1, WordRange DEF AtNonce
  <2>3. loop' \in AtInterval
    BY <1>4, <2>1, <2>2 DEF LeaveInterval, AtNonce, AtInterval
  <2>4. WholeItems'
    BY <1>4 DEF LeaveInterval, WholeItems
  <2>5. QED
    BY <2>3, <2>4, <1>4 DEF LeaveInterval, LoopTypeOK, LoopType, TypeInv
<1>5. CASE LeaveGroup
  <2>1. loop \in AtInterval
    BY <1>5 DEF LeaveGroup
  <2>2. GroupEnd(loop.args, loop.i) \in Index /\ GroupEnd(loop.args, loop.i) % 2 = 0
    BY <1>5, <2>1, EndOfGroup DEF LeaveGroup, WholeItems, AtInterval
  <2>3. loop' \in AtGroup
    BY <1>5, <2>1, <2>2 DEF LeaveGroup, AtGroup, AtInterval
  <2>4. WholeItems'
    BY <1>5, <2>2 DEF LeaveGroup, WholeItems
  <2>5. QED
    BY <2>3, <2>4, <1>5 DEF LeaveGroup, LoopTypeOK, LoopType, TypeInv
<1>6. CASE EndDelete
  <2>1. loop.entries \subseteq Entries
    BY <1>6 DEF EndDelete, AtGroup
  <2>2. QED
    BY <2>1, <1>6 DEF EndDelete, LoopTypeOK, LoopType, WholeItems, NoLoop, TypeInv
<1>7. CASE DeleteFails
  BY <1>7 DEF DeleteFails, LoopTypeOK, LoopType, WholeItems, NoLoop, TypeInv
<1>8. QED
  BY <1>1, <1>2, <1>3, <1>4, <1>5, <1>6, <1>7 DEF DeleteStep

\* An entry that is added is one of a valid token and nonce.
LEMMA AddType == TypeInv /\ (AddEntry \/ EndAdd \/ AddFails) => TypeInv'
<1> SUFFICES ASSUME TypeInv, AddEntry \/ EndAdd \/ AddFails PROVE TypeInv'
  OBVIOUS
<1>0. LoopTypeOK /\ WholeItems
  BY DEF TypeInv
<1> USE <1>0, RestOfType, ShapeOfLoop
<1>1. CASE AddEntry
  <2>1. loop \in AtEntry
    BY <1>1 DEF AddEntry
  <2>2. loop.args \in AddLists /\ loop.args \in Seq(ByteStrings) /\ loop.i \in Nat
        /\ loop.i + 3 <= Len(loop.args) /\ (loop.i + 3) % 3 = 0 /\ Len(loop.args) % 3 = 0
    <3>1. loop.args \in AddLists /\ loop.args \in Seq(ByteStrings) /\ loop.i \in Nat
      BY <2>1, LoopAssumption DEF AtEntry
    <3>2. loop.i % 3 = 0 /\ Len(loop.args) % 3 = 0 /\ loop.i < Len(loop.args)
      BY <1>1 DEF AddEntry, WholeItems
    <3>3. Len(loop.args) \in Nat
      BY <3>1
    <3>4. \A a, b \in Nat : a % 3 = 0 /\ b % 3 = 0 /\ a < b => a + 3 <= b /\ (a + 3) % 3 = 0
      OBVIOUS
    <3>5. QED
      BY <3>1, <3>2, <3>3, <3>4
  <2>3. Uint(loop.args[loop.i + 2]) \in Index
    <3>1. loop.i + 1 \in Nat /\ loop.i + 1 < Len(loop.args)
      BY <2>2
    <3>2. Uint(loop.args[(loop.i + 1) + 1]) \in Index
      BY <2>2, <3>1, ListNumbers
    <3>3. (loop.i + 1) + 1 = loop.i + 2
      BY <2>2
    <3>4. QED
      BY <3>2, <3>3
  <2>4. AddedKey(loop.args, loop.i) \in Entries
    BY <1>1, <2>3, LoopAssumption DEF AddEntry, EntryRefused, AddedKey, Entries, Index
  <2>5. loop' \in AtEntry /\ loop'.pc = "add" /\ loop'.i = loop.i + 3 /\ loop'.args = loop.args
    BY <1>1, <2>1, <2>4 DEF AddEntry, AtEntry
  <2>6. WholeItems'
    BY <2>5, <2>2 DEF WholeItems
  <2>7. QED
    BY <2>5, <2>6, <1>1 DEF AddEntry, LoopTypeOK, LoopType, TypeInv
<1>2. CASE EndAdd
  <2>1. loop.entries \subseteq Entries
    BY <1>2 DEF EndAdd, AtEntry
  <2>2. QED
    BY <2>1, <1>2 DEF EndAdd, LoopTypeOK, LoopType, WholeItems, NoLoop, TypeInv
<1>3. CASE AddFails
  BY <1>3 DEF AddFails, LoopTypeOK, LoopType, WholeItems, NoLoop, TypeInv
<1>4. QED
  BY <1>1, <1>2, <1>3

\* What a pair costs is a number, and no less than what has been used.
LEMMA PairCosts ==
    ASSUME TypeInv, MorePairs
    PROVE  /\ loop \in AtPair /\ loop.i + 2 <= Len(loop.args)
           /\ Key \in ByteStrings /\ Value \in ByteStrings
           /\ PairGas \in Nat /\ ChangeGas \in Nat /\ PairGas <= ChangeGas
<1>1. loop \in AtPair /\ WholeItems /\ storage \in [ByteStrings -> ByteStrings]
  BY ShapeOfLoop, RestOfType DEF TypeInv, MorePairs
<1>2. loop.args \in PairLists /\ loop.args \in Seq(ByteStrings) /\ loop.i \in Nat
      /\ loop.i + 2 <= Len(loop.args)
  BY <1>1, LoopAssumption, SMTT(20) DEF MorePairs, AtPair, WholeItems
<1>3. Key \in ByteStrings /\ Value \in ByteStrings
  BY <1>2 DEF Key, Value
<1>4. Size[Key] \in Nat /\ Size[Value] \in Nat /\ Size[storage[Key]] \in Nat
  BY <1>1, <1>3, LoopAssumption
<1>5. (Size[Key] + Size[Value]) * PersistPerByte \in Nat
  BY <1>4, NatProduct, LoopAssumption
<1>6. PairGas \in Nat
  BY <1>5, <1>1 DEF PairGas, AtPair
<1>7. Growth \in Nat
  BY <1>4 DEF Growth
<1>8. StorePerByte * Growth \in Nat
  BY <1>7, NatProduct, LoopAssumption
<1>9. QED
  BY <1>1, <1>2, <1>3, <1>6, <1>8 DEF ChangeGas

LEMMA SaveType == TypeInv /\ (KeepPair \/ WritePair \/ EndSave \/ SaveFails) => TypeInv'
<1> SUFFICES ASSUME TypeInv, KeepPair \/ WritePair \/ EndSave \/ SaveFails PROVE TypeInv'
  OBVIOUS
<1>0. LoopTypeOK /\ WholeItems
  BY DEF TypeInv
<1> USE <1>0, RestOfType, ShapeOfLoop
<1>1. CASE KeepPair
  <2>1. loop' \in AtPair /\ loop'.pc = "pair" /\ loop'.i = loop.i + 2 /\ loop'.args = loop.args
    BY <1>1, PairCosts DEF KeepPair, AfterPair, AtPair
  <2>2. WholeItems'
    BY <2>1, <1>1, PairCosts DEF WholeItems, KeepPair, MorePairs, AtPair
  <2>3. QED
    BY <2>1, <2>2, <1>1 DEF KeepPair, LoopTypeOK, LoopType, TypeInv
<1>2. CASE WritePair
  <2>1. loop' \in AtPair /\ loop'.pc = "pair" /\ loop'.i = loop.i + 2 /\ loop'.args = loop.args
    BY <1>2, PairCosts DEF WritePair, AfterPair, AtPair
  <2>2. WholeItems'
    BY <2>1, <1>2, PairCosts DEF WholeItems, WritePair, MorePairs, AtPair
  <2>3. storage' \in [ByteStrings -> ByteStrings]
    BY <1>2, PairCosts DEF WritePair
  <2>4. QED
    BY <2>1, <2>2, <2>3, <1>2 DEF WritePair, LoopTypeOK, LoopType, TypeInv
<1>3. CASE EndSave
  <2>1. loop \in AtPair
    BY <1>3 DEF EndSave
  <2>2. loop.gas - loop.used \in Int
    BY <2>1 DEF AtPair
  <2>3. charged' \in [gas : Index, used : Nat, left : Index, wrote : BOOLEAN]
    BY <1>3, <2>1, <2>2, WordRange DEF EndSave, AtPair
  <2>4. QED
    BY <2>3, <1>3 DEF EndSave, LoopTypeOK, LoopType, WholeItems, NoLoop, TypeInv
<1>4. CASE SaveFails
  <2>1. loop.before \in [ByteStrings -> ByteStrings]
    BY <1>4 DEF SaveFails, MorePairs, AtPair
  <2>2. QED
    BY <2>1, <1>4 DEF SaveFails, LoopTypeOK, LoopType, WholeItems, NoLoop, TypeInv
<1>5. QED
  BY <1>1, <1>2, <1>3, <1>4

LEMMA BeginType == TypeInv /\ LoopBegin => TypeInv'
<1> SUFFICES ASSUME TypeInv, LoopBegin PROVE TypeInv'
  OBVIOUS
<1>0. LoopTypeOK /\ WholeItems /\ 0 \in Index
  BY LoopAssumption DEF TypeInv, Index
<1> USE <1>0, RestOfType
<1>1. CASE \E args \in DeleteLists : BeginDelete(args)
  <2>1. PICK args \in DeleteLists : BeginDelete(args)
    BY <1>1
  <2>2. loop' \in AtGroup
    BY <2>1 DEF BeginDelete, AtGroup
  <2>3. QED
    BY <2>1, <2>2 DEF BeginDelete, LoopTypeOK, LoopType, WholeItems, TypeInv
<1>2. CASE \E args \in AddLists : BeginAdd(args)
  <2>1. PICK args \in AddLists : BeginAdd(args)
    BY <1>2
  <2>2. loop' \in AtEntry
    BY <2>1 DEF BeginAdd, AtEntry
  <2>3. QED
    BY <2>1, <2>2, LoopAssumption DEF BeginAdd, LoopTypeOK, LoopType, WholeItems, TypeInv
<1>3. CASE \E args \in PairLists, gas \in GasLimits : BeginSave(args, gas)
  <2>1. PICK args \in PairLists, gas \in GasLimits : BeginSave(args, gas)
    BY <1>3
  <2>2. loop' \in AtPair
    BY <2>1, LoopAssumption DEF BeginSave, AtPair, Index
  <2>3. QED
    BY <2>1, <2>2, LoopAssumption DEF BeginSave, LoopTypeOK, LoopType, WholeItems, TypeInv
<1>4. QED
  BY <1>1, <1>2, <1>3 DEF LoopBegin

LEMMA StepType == TypeInv /\ [LoopNext]_loopVars => TypeInv'
<1> SUFFICES ASSUME TypeInv, [LoopNext]_loopVars PROVE TypeInv'
  OBVIOUS
<1>1. CASE UNCHANGED loopVars
  BY <1>1 DEF TypeInv, LoopTypeOK, WholeItems, loopVars
<1>2. QED
  BY <1>1, BeginType, DeleteType, AddType, SaveType DEF LoopNext, LoopStep

\* Indices, nonces and gas stay words, entries entries and values values, and
\* no list is read past its end (the loops of dctDeleteMetadata.go and
\* keyValueStorage.go).
THEOREM LoopsTypeCorrect == LoopSpec => []LoopTypeOK
<1>1. TypeInv => LoopTypeOK
  BY DEF TypeInv
<1>2. QED
  BY <1>1, InitType, StepType, PTL DEF LoopSpec

-----------------------------------------------------------------------------
\* The reference: no group begins within another one.
StartsBefore(args, i) ==
    \A q \in GroupStarts(args) : q < i /\ q + 1 < Len(args) => After(args, q) <= i

LEMMA ListLength == \A args \in DeleteLists : args \in Seq(ByteStrings) /\ Len(args) \in Nat
BY LoopAssumption

LEMMA GroupSize ==
    ASSUME NEW args \in DeleteLists, NEW p \in Nat, p + 1 < Len(args)
    PROVE  CountAt(args, p) \in Nat /\ After(args, p) \in Nat /\ After(args, p) >= p + 2
<1>1. p + 1 \in Nat /\ (p + 1) + 1 = p + 2
  OBVIOUS
<1>2. Uint(args[p + 2]) \in Index
  BY <1>1, ListNumbers
<1>3. QED
  BY <1>2 DEF CountAt, After, Index

LEMMA FirstStart ==
    ASSUME NEW args \in DeleteLists
    PROVE  /\ 0 \in GroupStarts(args) /\ StartsBefore(args, 0)
           /\ ListedBefore(args, 0) = {}
           /\ GroupStarts(args) \subseteq 0..Len(args)
BY ListLength DEF GroupStarts, StartsBefore, ListedBefore

LEMMA NextStart ==
    ASSUME NEW args \in DeleteLists, NEW i \in GroupStarts(args), i + 1 < Len(args),
           After(args, i) <= Len(args)
    PROVE  After(args, i) \in GroupStarts(args)
<1>1. i \in Nat /\ After(args, i) \in 0..Len(args)
  BY GroupSize, ListLength, FirstStart
<1>2. SUFFICES ASSUME NEW S \in SUBSET (0..Len(args)), 0 \in S, ClosedUnderAfter(args, S)
               PROVE  After(args, i) \in S
  BY <1>1 DEF GroupStarts
<1>3. i \in S
  BY <1>2 DEF GroupStarts
<1>4. QED
  BY <1>2, <1>3 DEF ClosedUnderAfter

LEMMA NoStartWithin ==
    ASSUME NEW args \in DeleteLists, NEW i \in GroupStarts(args), i + 1 < Len(args),
           After(args, i) <= Len(args), StartsBefore(args, i),
           NEW q \in GroupStarts(args)
    PROVE  q <= i \/ q >= After(args, i)
<1> DEFINE S == {p \in GroupStarts(args) : p <= i} \union {p \in 0..Len(args) : p >= After(args, i)}
<1>1. GroupStarts(args) \subseteq 0..Len(args) /\ Len(args) \in Nat
  BY FirstStart, ListLength
<1>2. S \in SUBSET (0..Len(args)) /\ 0 \in S /\ After(args, i) \in Nat
  BY <1>1, FirstStart, GroupSize
<1>3. ASSUME NEW p \in S, p + 1 < Len(args), After(args, p) <= Len(args)
      PROVE  After(args, p) \in S
  <2>1. p \in Nat /\ After(args, p) \in Nat /\ After(args, p) >= p + 2
    BY <1>1, <1>2, <1>3, GroupSize
  <2>2. CASE p \in GroupStarts(args) /\ p < i
    <3>1. After(args, p) \in GroupStarts(args)
      BY <2>2, <1>3, NextStart
    <3>2. After(args, p) <= i
      BY <2>2, <1>3 DEF StartsBefore
    <3>3. QED
      BY <3>1, <3>2
  <2>3. CASE p = i
    BY <2>1, <2>3, <1>3
  <2>4. CASE p >= After(args, i)
    <3>1. After(args, p) \in 0..Len(args) /\ After(args, p) >= After(args, i)
      BY <2>1, <2>4, <1>3, <1>1, <1>2
    <3>2. QED
      BY <3>1
  <2>5. QED
    BY <2>2, <2>3, <2>4, <2>1, <1>1
<1>4. ClosedUnderAfter(args, S)
  BY <1>3 DEF ClosedUnderAfter
<1>5. q \in S
  BY <1>2, <1>4 DEF GroupStarts
<1>6. QED
  BY <1>5, <1>1

\* What is listed before the next group: what was listed before, and the group.
LEMMA GroupListed ==
    ASSUME NEW args \in DeleteLists, NEW i \in GroupStarts(args), i + 1 < Len(args),
           After(args, i) <= Len(args), StartsBefore(args, i)
    PROVE  /\ StartsBefore(args, After(args, i))
           /\ ListedBefore(args, After(args, i)) =
                 ListedBefore(args, i) \union InGroup(args, i, CountAt(args, i))
<1>1. GroupStarts(args) \subseteq Nat /\ Len(args) \in Nat
  BY FirstStart, ListLength
<1>2. After(args, i) \in Nat /\ i < After(args, i)
  BY <1>1, GroupSize
<1>3. \A q \in GroupStarts(args) : q < After(args, i) => q <= i
  BY NoStartWithin, <1>1, <1>2
<1>4. StartsBefore(args, After(args, i))
  BY <1>1, <1>2, <1>3, GroupSize, SMTT(20) DEF StartsBefore
<1>5. \A p \in GroupStarts(args) : p < After(args, i) <=> p < i \/ p = i
  BY <1>1, <1>2, <1>3
<1>6. InGroup(args, i, CountAt(args, i)) \subseteq Entries
  BY DEF InGroup
<1>7. QED
  BY <1>4, <1>5, <1>6 DEF ListedBefore

\* One more interval of a group.
OfInterval(args, p, k, n) ==
    {e \in Entries : /\ e[1] = TokenAt(args, p)
                     /\ FirstAt(args, p + 2 + 2 * k) <= e[2] /\ e[2] < n}

LEMMA IntervalListed ==
    ASSUME NEW args \in DeleteLists, NEW p \in Nat, NEW k \in Nat, p + 3 + 2 * k < Len(args),
           LastAt(args, p + 2 + 2 * k) \in Nat
    PROVE  InGroup(args, p, k + 1) =
              InGroup(args, p, k) \union OfInterval(args, p, k, LastAt(args, p + 2 + 2 * k) + 1)
<1>1. 0..((k + 1) - 1) = (0..(k - 1)) \union {k}
  OBVIOUS
<1>2. \A e \in Entries : e[2] \in Nat
  BY LoopAssumption DEF Entries
<1>3. \A e \in Entries : e[2] < LastAt(args, p + 2 + 2 * k) + 1
                              <=> e[2] <= LastAt(args, p + 2 + 2 * k)
  BY <1>2
<1>4. QED
  BY <1>1, <1>3 DEF InGroup, OfInterval

-----------------------------------------------------------------------------
\* Where a deletion is and what it has taken away, if its list fits.
GroupInv ==
    /\ loop.i \in GroupStarts(loop.args)
    /\ StartsBefore(loop.args, loop.i)

IntervalAt(k) ==
    /\ k \in 0..CountAt(loop.args, loop.i)
    /\ loop.j = loop.i + 2 + 2 * k
    /\ loop.j <= Len(loop.args)

DeletedSoFar(k) == ListedBefore(loop.args, loop.i) \union InGroup(loop.args, loop.i, k)

DeleteInv ==
    loop.pc \in {"group", "interval", "nonce"} /\ Fits(loop.args) =>
        /\ GroupInv
        /\ loop.pc = "group" => loop.entries = metadata \ ListedBefore(loop.args, loop.i)
        /\ loop.pc = "interval" =>
              \E k \in Nat : IntervalAt(k) /\ loop.entries = metadata \ DeletedSoFar(k)
        /\ loop.pc = "nonce" =>
              \E k \in Nat :
                 /\ IntervalAt(k) /\ k < CountAt(loop.args, loop.i)
                 /\ FirstAt(loop.args, loop.j) <= loop.nonce
                 /\ loop.nonce <= LastAt(loop.args, loop.j) + 1
                 /\ loop.entries =
                       metadata \ (DeletedSoFar(k) \union OfInterval(loop.args, loop.i, k, loop.nonce))

\* What fits does not wrap around.
LEMMA FittingNumbers ==
    ASSUME NEW args \in DeleteLists, Fits(args), NEW i \in GroupStarts(args)
    PROVE  /\ i \in Nat /\ i <= Len(args) /\ Len(args) + 2 < Word /\ Len(args) \in Nat
           /\ Uint(i + 1) = i + 1 /\ Uint(i + 2) = i + 2
           /\ i + 1 < Len(args) => /\ CountAt(args, i) \in Nat
                                   /\ After(args, i) = i + 2 + 2 * CountAt(args, i)
                                   /\ GroupEnd(args, i) = After(args, i)
<1>0. Word \in Nat
  BY LoopAssumption
<1>1. i \in 0..Len(args) /\ Len(args) \in Nat /\ Len(args) + 2 < Word
  BY FirstStart, ListLength DEF Fits
<1>2. Uint(i + 1) = i + 1 /\ Uint(i + 2) = i + 2
  BY <1>0, <1>1, WordSmall DEF Index
<1>3. ASSUME i + 1 < Len(args)
      PROVE  /\ CountAt(args, i) \in Nat /\ After(args, i) = i + 2 + 2 * CountAt(args, i)
             /\ GroupEnd(args, i) = After(args, i)
  <2>1. CountAt(args, i) \in Nat /\ After(args, i) < Word
    BY <1>1, <1>3, GroupSize DEF Fits
  <2>2. After(args, i) = i + 2 + 2 * CountAt(args, i)
    BY DEF After
  <2>3. 2 * CountAt(args, i) \in Index /\ i + 2 + 2 * CountAt(args, i) \in Index
    BY <2>1, <2>2, <1>0, <1>1 DEF Index
  <2>4. QED
    BY <2>1, <2>2, <2>3, WordSmall DEF GroupEnd
<1>4. QED
  BY <1>1, <1>2, <1>3

LEMMA DeleteGroup ==
    ASSUME TypeInv, DeleteInv, ReadGroup \/ LeaveGroup
    PROVE  DeleteInv'
<1>1. CASE ReadGroup
  <2> SUFFICES ASSUME Fits(loop.args) PROVE DeleteInv'
    BY <1>1 DEF ReadGroup, DeleteInv
  <2>1. loop \in AtGroup /\ loop.args \in DeleteLists
    BY <1>1, ShapeOfLoop DEF TypeInv, ReadGroup, AtGroup
  <2>2. GroupInv /\ loop.entries = metadata \ ListedBefore(loop.args, loop.i)
    BY <1>1 DEF ReadGroup, DeleteInv
  <2>3. loop.i + 2 < Len(loop.args)
    BY <1>1, <2>1, <2>2, FittingNumbers DEF ReadGroup, GroupRefused, GroupInv
  <2>4. CountAt(loop.args, loop.i) \in Nat /\ loop.i \in Nat /\ Len(loop.args) \in Nat
        /\ Uint(loop.i + 2) = loop.i + 2
    BY <2>1, <2>2, <2>3, FittingNumbers DEF GroupInv
  <2>5. InGroup(loop.args, loop.i, 0) = {}
    BY DEF InGroup
  <2>6. /\ loop'.args = loop.args /\ loop'.i = loop.i /\ loop'.entries = loop.entries
        /\ loop'.j = loop.i + 2 /\ loop'.pc = "interval" /\ metadata' = metadata
    BY <1>1, <2>4 DEF ReadGroup
  <2>7. GroupInv'
    BY <2>2, <2>6 DEF GroupInv
  <2>8. IntervalAt(0)' /\ loop'.entries = metadata' \ DeletedSoFar(0)'
    BY <2>2, <2>3, <2>4, <2>5, <2>6 DEF IntervalAt, DeletedSoFar
  <2>9. QED
    BY <2>6, <2>7, <2>8 DEF DeleteInv
<1>2. CASE LeaveGroup
  <2> SUFFICES ASSUME Fits(loop.args) PROVE DeleteInv'
    BY <1>2 DEF LeaveGroup, DeleteInv
  <2>1. loop \in AtInterval /\ loop.args \in DeleteLists /\ loop.i + 1 < Len(loop.args)
    BY <1>2, ShapeOfLoop DEF TypeInv, LeaveGroup, AtInterval, WholeItems
  <2>2. GroupInv
    BY <1>2 DEF LeaveGroup, DeleteInv
  <2>3. PICK k \in Nat : IntervalAt(k) /\ loop.entries = metadata \ DeletedSoFar(k)
    BY <1>2 DEF LeaveGroup, DeleteInv
  <2>4. /\ loop.i \in Nat /\ CountAt(loop.args, loop.i) \in Nat
        /\ After(loop.args, loop.i) = loop.i + 2 + 2 * CountAt(loop.args, loop.i)
        /\ GroupEnd(loop.args, loop.i) = After(loop.args, loop.i)
    BY <2>1, <2>2, FittingNumbers DEF GroupInv
  <2>5. k = CountAt(loop.args, loop.i) /\ loop.j = After(loop.args, loop.i)
    BY <1>2, <2>3, <2>4 DEF LeaveGroup, MoreIntervals, IntervalAt
  <2>6. After(loop.args, loop.i) <= Len(loop.args)
    BY <2>3, <2>5 DEF IntervalAt
  <2>7. After(loop.args, loop.i) \in GroupStarts(loop.args)
    BY <2>1, <2>2, <2>6, NextStart DEF GroupInv
  <2>8. /\ StartsBefore(loop.args, After(loop.args, loop.i))
        /\ ListedBefore(loop.args, After(loop.args, loop.i)) = DeletedSoFar(k)
    BY <2>1, <2>2, <2>5, <2>6, GroupListed DEF GroupInv, DeletedSoFar
  <2>9. /\ loop'.args = loop.args /\ loop'.i = After(loop.args, loop.i)
        /\ loop'.entries = loop.entries /\ loop'.pc = "group" /\ metadata' = metadata
    BY <1>2, <2>4 DEF LeaveGroup
  <2>10. QED
    BY <2>3, <2>7, <2>8, <2>9 DEF DeleteInv, GroupInv
<1>3. QED
  BY <1>1, <1>2

\* Within a list that fits, the interval at j, which ends below the largest number.
LEMMA FittingInterval ==
    ASSUME NEW args \in DeleteLists, Fits(args), NEW i \in GroupStarts(args), i + 1 < Len(args),
           NEW k \in Nat, k < CountAt(args, i), i + 3 + 2 * k < Len(args)
    PROVE  /\ FirstAt(args, i + 2 + 2 * k) \in Nat
           /\ LastAt(args, i + 2 + 2 * k) \in Nat
           /\ LastAt(args, i + 2 + 2 * k) < Word - 1
<1>1. i \in Nat /\ CountAt(args, i) \in Nat
  BY FittingNumbers
<1> DEFINE j == i + 2 + 2 * k
<1>2. j \in Nat /\ j < Len(args) /\ j + 1 \in Nat /\ j + 1 < Len(args) /\ (j + 1) + 1 = j + 2
  BY <1>1, ListLength
<1>3. Uint(args[j + 1]) \in Index /\ Uint(args[(j + 1) + 1]) \in Index
  BY <1>2, ListNumbers
<1>4. FirstAt(args, j) \in Nat /\ LastAt(args, j) \in Nat
  BY <1>2, <1>3 DEF FirstAt, LastAt, Index
<1>5. LastAt(args, i + 2 + 2 * k) < Word - 1
  BY <1>1 DEF Fits
<1>6. QED
  BY <1>4, <1>5

LEMMA DeleteInterval ==
    ASSUME TypeInv, DeleteInv, ReadInterval \/ LeaveInterval
    PROVE  DeleteInv'
<1>1. CASE ReadInterval
  <2> SUFFICES ASSUME Fits(loop.args) PROVE DeleteInv'
    BY <1>1 DEF ReadInterval, DeleteInv
  <2>1. loop \in AtInterval /\ loop.args \in DeleteLists /\ loop.i + 1 < Len(loop.args)
    BY <1>1, ShapeOfLoop DEF TypeInv, ReadInterval, AtInterval, WholeItems
  <2>2. GroupInv
    BY <1>1 DEF ReadInterval, DeleteInv
  <2>3. PICK k \in Nat : IntervalAt(k) /\ loop.entries = metadata \ DeletedSoFar(k)
    BY <1>1 DEF ReadInterval, DeleteInv
  <2>4. /\ loop.i \in Nat /\ CountAt(loop.args, loop.i) \in Nat /\ Len(loop.args) \in Nat
        /\ GroupEnd(loop.args, loop.i) = loop.i + 2 + 2 * CountAt(loop.args, loop.i)
    BY <2>1, <2>2, FittingNumbers DEF GroupInv
  <2>5. k < CountAt(loop.args, loop.i) /\ loop.j = loop.i + 2 + 2 * k
    BY <1>1, <2>3, <2>4 DEF ReadInterval, MoreIntervals, IntervalAt
  <2>6. loop.i + 3 + 2 * k < Len(loop.args) /\ FirstAt(loop.args, loop.j) <= LastAt(loop.args, loop.j)
    BY <1>1, <2>4, <2>5 DEF ReadInterval, IntervalAccepted
  <2>7. FirstAt(loop.args, loop.j) \in Nat /\ LastAt(loop.args, loop.j) \in Nat
    BY <2>1, <2>2, <2>5, <2>6, FittingInterval DEF GroupInv
  <2>8. OfInterval(loop.args, loop.i, k, FirstAt(loop.args, loop.j)) = {}
    <3>1. \A e \in Entries : e[2] \in Int
      BY LoopAssumption DEF Entries
    <3>2. QED
      BY <3>1, <2>5, <2>7 DEF OfInterval
  <2>9. /\ loop'.args = loop.args /\ loop'.i = loop.i /\ loop'.j = loop.j
        /\ loop'.nonce = FirstAt(loop.args, loop.j)
        /\ loop'.entries = loop.entries /\ loop'.pc = "nonce" /\ metadata' = metadata
    BY <1>1 DEF ReadInterval
  <2>10. GroupInv' /\ IntervalAt(k)' /\ DeletedSoFar(k)' = DeletedSoFar(k)
    BY <2>2, <2>3, <2>9 DEF GroupInv, IntervalAt, DeletedSoFar
  <2>11. QED
    BY <2>3, <2>5, <2>6, <2>7, <2>8, <2>9, <2>10 DEF DeleteInv
<1>2. CASE LeaveInterval
  <2> SUFFICES ASSUME Fits(loop.args) PROVE DeleteInv'
    BY <1>2 DEF LeaveInterval, DeleteInv
  <2>1. loop \in AtNonce /\ loop.args \in DeleteLists /\ loop.i + 1 < Len(loop.args)
        /\ loop.j + 1 < Len(loop.args)
    BY <1>2, ShapeOfLoop DEF TypeInv, LeaveInterval, AtNonce, WholeItems
  <2>2. GroupInv
    BY <1>2 DEF LeaveInterval, DeleteInv
  <2>3. PICK k \in Nat :
           /\ IntervalAt(k) /\ k < CountAt(loop.args, loop.i)
           /\ FirstAt(loop.args, loop.j) <= loop.nonce
           /\ loop.nonce <= LastAt(loop.args, loop.j) + 1
           /\ loop.entries =
                 metadata \ (DeletedSoFar(k) \union OfInterval(loop.args, loop.i, k, loop.nonce))
    BY <1>2 DEF LeaveInterval, DeleteInv
  <2>4. /\ loop.i \in Nat /\ CountAt(loop.args, loop.i) \in Nat /\ Len(loop.args) \in Nat
        /\ Len(loop.args) + 2 < Word /\ Word \in Nat /\ loop.j \in Nat /\ loop.nonce \in Nat
    BY <2>1, <2>2, FittingNumbers, LoopAssumption DEF GroupInv, AtNonce, Index
  <2>5. loop.j = loop.i + 2 + 2 * k /\ loop.i + 3 + 2 * k < Len(loop.args)
    BY <2>1, <2>3, <2>4 DEF IntervalAt
  <2>6. LastAt(loop.args, loop.i + 2 + 2 * k) \in Nat
    BY <2>1, <2>2, <2>3, <2>5, FittingInterval DEF GroupInv
  <2>7. loop.nonce = LastAt(loop.args, loop.i + 2 + 2 * k) + 1
    <3>1. LastAt(loop.args, loop.j) = LastAt(loop.args, loop.i + 2 + 2 * k)
      BY <2>5
    <3>2. LastAt(loop.args, loop.j) \in Nat
      BY <2>6, <3>1
    <3>3. ~(loop.nonce <= LastAt(loop.args, loop.j))
      BY <1>2 DEF LeaveInterval, MoreNonces
    <3>4. loop.nonce <= LastAt(loop.args, loop.j) + 1
      BY <2>3
    <3>5. loop.nonce = LastAt(loop.args, loop.j) + 1
      BY <3>2, <3>3, <3>4, <2>4
    <3>6. QED
      BY <3>1, <3>5
  <2>8. InGroup(loop.args, loop.i, k + 1) =
           InGroup(loop.args, loop.i, k) \union OfInterval(loop.args, loop.i, k, loop.nonce)
    <3>1. InGroup(loop.args, loop.i, k + 1) =
             InGroup(loop.args, loop.i, k)
               \union OfInterval(loop.args, loop.i, k, LastAt(loop.args, loop.i + 2 + 2 * k) + 1)
      BY <2>1, <2>4, <2>5, <2>6, IntervalListed, ZenonT(40)
    <3>2. QED
      BY <3>1, <2>7
  <2>9. Uint(loop.j + 2) = loop.j + 2
    BY <2>1, <2>4, WordSmall DEF Index
  <2>10. /\ loop'.args = loop.args /\ loop'.i = loop.i /\ loop'.j = loop.j + 2
         /\ loop'.entries = loop.entries /\ loop'.pc = "interval" /\ metadata' = metadata
    BY <1>2, <2>9 DEF LeaveInterval
  <2>11. GroupInv'
    BY <2>2, <2>10 DEF GroupInv
  <2>12. k + 1 \in Nat /\ IntervalAt(k + 1)'
    <3>1. k + 1 \in 0..CountAt(loop.args, loop.i)
      BY <2>3, <2>4
    <3>2. loop.j + 2 = loop.i + 2 + 2 * (k + 1) /\ loop.j + 2 <= Len(loop.args)
      <4>1. \A i, j, l \in Nat : j = i + 2 + 2 * k /\ j + 1 < l =>
                j + 2 = i + 2 + 2 * (k + 1) /\ j + 2 <= l
        OBVIOUS
      <4>2. QED
        BY <4>1, <2>1, <2>4, <2>5
    <3>3. /\ CountAt(loop.args, loop.i)' = CountAt(loop.args, loop.i)
          /\ Len(loop.args)' = Len(loop.args) /\ loop'.i = loop.i /\ loop'.j = loop.j + 2
      BY <2>10 DEF CountAt
    <3>4. QED
      BY <3>1, <3>2, <3>3 DEF IntervalAt
  <2>13. loop'.entries = metadata' \ DeletedSoFar(k + 1)'
    BY <2>3, <2>8, <2>10 DEF DeletedSoFar
  <2>14. QED
    BY <2>10, <2>11, <2>12, <2>13 DEF DeleteInv
<1>3. QED
  BY <1>1, <1>2

LEMMA DeleteOneNonce ==
    ASSUME TypeInv, DeleteInv, DeleteNonce
    PROVE  DeleteInv'
<1>1. loop \in AtNonce /\ loop.args \in DeleteLists /\ loop.i + 1 < Len(loop.args)
      /\ loop.j + 1 < Len(loop.args)
  BY ShapeOfLoop DEF TypeInv, DeleteNonce, AtNonce, WholeItems
<1>2. /\ loop'.pc = "nonce" /\ loop'.args = loop.args /\ loop'.i = loop.i /\ loop'.j = loop.j
      /\ loop'.nonce = Uint(loop.nonce + 1) /\ metadata' = metadata
      /\ loop'.entries = loop.entries \ {<<TokenAt(loop.args, loop.i), loop.nonce>>}
  BY <1>1 DEF DeleteNonce, AtNonce
<1> SUFFICES ASSUME Fits(loop.args) PROVE DeleteInv'
  BY <1>2 DEF DeleteInv
<1>3. GroupInv
  BY DEF DeleteNonce, DeleteInv
<1>4. PICK k \in Nat :
         /\ IntervalAt(k) /\ k < CountAt(loop.args, loop.i)
         /\ FirstAt(loop.args, loop.j) <= loop.nonce
         /\ loop.nonce <= LastAt(loop.args, loop.j) + 1
         /\ loop.entries =
               metadata \ (DeletedSoFar(k) \union OfInterval(loop.args, loop.i, k, loop.nonce))
  BY DEF DeleteNonce, DeleteInv
<1>5. /\ loop.i \in Nat /\ Len(loop.args) \in Nat /\ Word \in Nat /\ loop.nonce \in Nat
      /\ loop.j \in Nat
  BY <1>1, <1>3, FittingNumbers, LoopAssumption DEF GroupInv, AtNonce, Index
<1>6. loop.j = loop.i + 2 + 2 * k /\ loop.i + 3 + 2 * k < Len(loop.args)
  BY <1>1, <1>4, <1>5 DEF IntervalAt
<1>7. /\ FirstAt(loop.args, loop.j) \in Nat /\ LastAt(loop.args, loop.j) \in Nat
      /\ LastAt(loop.args, loop.j) < Word - 1
  BY <1>1, <1>3, <1>4, <1>6, FittingInterval DEF GroupInv
<1>8. loop.nonce <= LastAt(loop.args, loop.j)
  BY DEF DeleteNonce, MoreNonces
<1>9. loop'.nonce = loop.nonce + 1
  BY <1>2, <1>5, <1>7, <1>8, WordSmall DEF Index
<1>10. GroupInv' /\ IntervalAt(k)' /\ DeletedSoFar(k)' = DeletedSoFar(k)
  BY <1>2, <1>3, <1>4 DEF GroupInv, IntervalAt, DeletedSoFar
<1>11. OfInterval(loop.args, loop.i, k, loop.nonce + 1) \intersect metadata =
          (OfInterval(loop.args, loop.i, k, loop.nonce)
             \union {<<TokenAt(loop.args, loop.i), loop.nonce>>}) \intersect metadata
  <2>1. metadata \subseteq Entries
    BY RestOfType DEF TypeInv
  <2>2. \A e \in Entries : e[2] \in Nat /\ e = <<e[1], e[2]>>
    <3>1. ASSUME NEW S, NEW T, NEW e \in S \X T PROVE e[2] \in T /\ e = <<e[1], e[2]>>
      BY <3>1
    <3>2. \A n \in 1..(Word - 1) : n \in Nat
      BY LoopAssumption
    <3>3. QED
      BY <3>1, <3>2 DEF Entries
  <2>3. \A e \in Entries : e[2] < loop.nonce + 1 <=> e[2] < loop.nonce \/ e[2] = loop.nonce
    BY <2>2, <1>5
  <2>4. FirstAt(loop.args, loop.i + 2 + 2 * k) <= loop.nonce
    BY <1>4, <1>6
  <2>5. ASSUME NEW e \in metadata
        PROVE  e \in OfInterval(loop.args, loop.i, k, loop.nonce + 1) <=>
                  \/ e \in OfInterval(loop.args, loop.i, k, loop.nonce)
                  \/ e = <<TokenAt(loop.args, loop.i), loop.nonce>>
    <3>1. e \in Entries /\ e = <<e[1], e[2]>>
      BY <2>1, <2>2, <2>5
    <3>2. e = <<TokenAt(loop.args, loop.i), loop.nonce>> <=>
             e[1] = TokenAt(loop.args, loop.i) /\ e[2] = loop.nonce
      BY <3>1
    <3>3. QED
      BY <3>1, <3>2, <2>3, <2>4 DEF OfInterval
  <2>6. QED
    BY <2>5
<1>12. loop'.entries =
          metadata \ (DeletedSoFar(k) \union OfInterval(loop.args, loop.i, k, loop.nonce + 1))
  BY <1>2, <1>4, <1>11
<1>13. QED
  BY <1>2, <1>4, <1>5, <1>7, <1>8, <1>9, <1>10, <1>12 DEF DeleteInv

LEMMA DeleteKept ==
    ASSUME TypeInv, DeleteInv, [LoopNext]_loopVars
    PROVE  DeleteInv'
<1>1. CASE ReadGroup \/ LeaveGroup
  BY <1>1, DeleteGroup
<1>2. CASE ReadInterval \/ LeaveInterval
  BY <1>2, DeleteInterval
<1>3. CASE DeleteNonce
  BY <1>3, DeleteOneNonce
<1>4. CASE EndDelete \/ DeleteFails \/ EndAdd \/ AddFails \/ EndSave \/ SaveFails
  BY <1>4 DEF DeleteInv, NoLoop, EndDelete, DeleteFails, EndAdd, AddFails, EndSave, SaveFails
<1>5. CASE AddEntry \/ KeepPair \/ WritePair
  BY <1>5 DEF DeleteInv, AddEntry, KeepPair, WritePair, AfterPair
<1>6. CASE \E args \in DeleteLists : BeginDelete(args)
  <2>1. PICK args \in DeleteLists : BeginDelete(args)
    BY <1>6
  <2>2. /\ loop'.pc = "group" /\ loop'.args = args /\ loop'.i = 0 /\ loop'.entries = metadata
        /\ metadata' = metadata
    BY <2>1 DEF BeginDelete
  <2>3. GroupInv' /\ ListedBefore(args, 0) = {}
    BY <2>2, FirstStart DEF GroupInv
  <2>4. QED
    BY <2>2, <2>3 DEF DeleteInv
<1>7. CASE \E args \in AddLists : BeginAdd(args)
  BY <1>7 DEF BeginAdd, DeleteInv
<1>8. CASE \E args \in PairLists, gas \in GasLimits : BeginSave(args, gas)
  BY <1>8 DEF BeginSave, DeleteInv
<1>9. CASE UNCHANGED loopVars
  BY <1>9 DEF loopVars, DeleteInv, GroupInv, IntervalAt, DeletedSoFar
<1>10. QED
  BY <1>1, <1>2, <1>3, <1>4, <1>5, <1>6, <1>7, <1>8, <1>9 DEF LoopNext, LoopBegin, LoopStep, DeleteStep

-----------------------------------------------------------------------------
\* What an addition has added so far: nothing twice, nothing that was there.
AddInv ==
    loop.pc = "add" =>
        /\ loop.entries = metadata \union AddedBefore(loop.args, loop.i)
        /\ AddedBefore(loop.args, loop.i) \intersect metadata = {}
        /\ \A x, y \in Nat : 3 * x < loop.i /\ 3 * y < loop.i /\ x # y =>
               AddedKey(loop.args, 3 * x) # AddedKey(loop.args, 3 * y)

LEMMA NextAdded ==
    ASSUME NEW args, Len(args) \in Nat, NEW c \in Nat, 3 * c < Len(args)
    PROVE  /\ AddedBefore(args, 3 * c + 3) = AddedBefore(args, 3 * c) \union {AddedKey(args, 3 * c)}
           /\ \A x \in Nat : 3 * x < 3 * c => AddedKey(args, 3 * x) \in AddedBefore(args, 3 * c)
<1>1. {y \in 0..Len(args) : 3 * y < 3 * c + 3} = {y \in 0..Len(args) : 3 * y < 3 * c} \union {c}
  OBVIOUS
<1>2. \A x \in Nat : 3 * x < 3 * c => x \in {y \in 0..Len(args) : 3 * y < 3 * c}
  OBVIOUS
<1>3. QED
  BY <1>1, <1>2 DEF AddedBefore

LEMMA AddKept ==
    ASSUME TypeInv, AddInv, [LoopNext]_loopVars
    PROVE  AddInv'
<1>1. CASE AddEntry
  <2>1. loop \in AtEntry /\ loop.args \in AddLists
    BY <1>1, ShapeOfLoop DEF TypeInv, AddEntry, AtEntry
  <2>2. Len(loop.args) \in Nat /\ loop.i \in Nat /\ loop.i % 3 = 0 /\ loop.i < Len(loop.args)
    BY <1>1, <2>1, LoopAssumption DEF TypeInv, WholeItems, AddEntry, AtEntry
  <2>3. PICK c \in Nat : loop.i = 3 * c
    <3>1. \A n \in Nat : n % 3 = 0 => n \div 3 \in Nat /\ n = 3 * (n \div 3)
      OBVIOUS
    <3>2. QED
      BY <2>2, <3>1
  <2>4. /\ AddedBefore(loop.args, loop.i + 3) =
              AddedBefore(loop.args, loop.i) \union {AddedKey(loop.args, loop.i)}
        /\ \A x \in Nat : 3 * x < loop.i =>
              AddedKey(loop.args, 3 * x) \in AddedBefore(loop.args, loop.i)
    BY <2>2, <2>3, NextAdded
  <2>5. AddedKey(loop.args, loop.i) \notin metadata \union AddedBefore(loop.args, loop.i)
    BY <1>1 DEF AddEntry, EntryRefused, AddInv
  <2>6. /\ loop'.pc = "add" /\ loop'.args = loop.args /\ loop'.i = loop.i + 3
        /\ loop'.entries = loop.entries \union {AddedKey(loop.args, loop.i)} /\ metadata' = metadata
    BY <1>1 DEF AddEntry
  <2>7. loop.entries = metadata \union AddedBefore(loop.args, loop.i)
        /\ AddedBefore(loop.args, loop.i) \intersect metadata = {}
    BY <1>1 DEF AddEntry, AddInv
  <2>8. ASSUME NEW x \in Nat, NEW y \in Nat, 3 * x < loop.i + 3, 3 * y < loop.i + 3, x # y
        PROVE  AddedKey(loop.args, 3 * x) # AddedKey(loop.args, 3 * y)
    <3>1. CASE 3 * x < loop.i /\ 3 * y < loop.i
      BY <3>1, <2>8, <1>1 DEF AddEntry, AddInv
    <3>2. CASE 3 * x = loop.i /\ 3 * y < loop.i
      BY <3>2, <2>4, <2>5
    <3>3. CASE 3 * y = loop.i /\ 3 * x < loop.i
      BY <3>3, <2>4, <2>5
    <3>4. QED
      BY <3>1, <3>2, <3>3, <2>8, <2>3
  <2>9. QED
    BY <2>4, <2>5, <2>6, <2>7, <2>8 DEF AddInv
<1>2. CASE \E args \in AddLists : BeginAdd(args)
  <2>1. PICK args \in AddLists : BeginAdd(args)
    BY <1>2
  <2>2. loop'.args = args /\ loop'.i = 0 /\ loop'.entries = metadata /\ metadata' = metadata
    BY <2>1 DEF BeginAdd
  <2>3. AddedBefore(args, 0) = {}
    BY DEF AddedBefore
  <2>4. \A x \in Nat : ~(3 * x < 0)
    OBVIOUS
  <2>5. QED
    BY <2>2, <2>3, <2>4 DEF AddInv
<1>3. CASE EndDelete \/ DeleteFails \/ EndAdd \/ AddFails \/ EndSave \/ SaveFails
  BY <1>3 DEF AddInv, NoLoop, EndDelete, DeleteFails, EndAdd, AddFails, EndSave, SaveFails
<1>4. CASE ReadGroup \/ ReadInterval \/ LeaveInterval \/ LeaveGroup
  BY <1>4 DEF AddInv, ReadGroup, ReadInterval, LeaveInterval, LeaveGroup
<1>5. CASE DeleteNonce
  <2>1. loop'.pc = "nonce"
    BY <1>5, ShapeOfLoop DEF TypeInv, DeleteNonce, AtNonce
  <2>2. QED
    BY <2>1 DEF AddInv
<1>6. CASE KeepPair \/ WritePair
  BY <1>6 DEF AddInv, KeepPair, WritePair, AfterPair
<1>7. CASE \E args \in DeleteLists : BeginDelete(args)
  BY <1>7 DEF BeginDelete, AddInv
<1>8. CASE \E args \in PairLists, gas \in GasLimits : BeginSave(args, gas)
  BY <1>8 DEF BeginSave, AddInv
<1>9. CASE UNCHANGED loopVars
  BY <1>9 DEF loopVars, AddInv
<1>10. QED
  BY <1>1, <1>2, <1>3, <1>4, <1>5, <1>6, <1>7, <1>8, <1>9 DEF LoopNext, LoopBegin, LoopStep, DeleteStep

-----------------------------------------------------------------------------
LEMMA PaidKept ==
    ASSUME TypeInv, WritesArePaid, [LoopNext]_loopVars
    PROVE  WritesArePaid'
<1>1. CASE WritePair
  BY <1>1 DEF WritePair, AfterPair, WritesArePaid
<1>2. CASE KeepPair
  BY <1>2 DEF KeepPair, AfterPair, WritesArePaid
<1>3. CASE EndSave
  <2>1. loop \in AtPair
    BY <1>3, ShapeOfLoop DEF TypeInv, EndSave
  <2>2. ASSUME loop.wrote PROVE Uint(loop.gas - loop.used) + loop.used = loop.gas
    <3>1. loop.gas \in 0..(Word - 1) /\ loop.used \in Nat /\ Word \in Nat
      BY <2>1, LoopAssumption DEF AtPair, Index
    <3>2. loop.used <= loop.gas
      BY <2>2, <1>3 DEF WritesArePaid, EndSave
    <3>3. loop.gas - loop.used \in Index
      BY <3>1, <3>2 DEF Index
    <3>4. Uint(loop.gas - loop.used) = loop.gas - loop.used
      BY <3>3, WordSmall
    <3>5. QED
      BY <3>1, <3>4
  <2>3. QED
    BY <1>3, <2>2 DEF EndSave, WritesArePaid, NoLoop
<1>4. CASE EndDelete \/ DeleteFails \/ EndAdd \/ AddFails \/ SaveFails
  BY <1>4 DEF WritesArePaid, NoLoop, EndDelete, DeleteFails, EndAdd, AddFails, SaveFails
<1>5. CASE ReadGroup \/ ReadInterval \/ LeaveInterval \/ LeaveGroup \/ AddEntry
  BY <1>5 DEF WritesArePaid, ReadGroup, ReadInterval, LeaveInterval, LeaveGroup, AddEntry
<1>6. CASE DeleteNonce
  <2>1. loop'.pc = "nonce" /\ charged' = charged
    BY <1>6, ShapeOfLoop DEF TypeInv, DeleteNonce, AtNonce
  <2>2. QED
    BY <2>1 DEF WritesArePaid
<1>7. CASE LoopBegin
  BY <1>7 DEF LoopBegin, BeginDelete, BeginAdd, BeginSave, WritesArePaid
<1>8. CASE UNCHANGED loopVars
  BY <1>8 DEF loopVars, WritesArePaid
<1>9. QED
  BY <1>1, <1>2, <1>3, <1>4, <1>5, <1>6, <1>7, <1>8 DEF LoopNext, LoopStep, DeleteStep

-----------------------------------------------------------------------------
IInv == TypeInv /\ DeleteInv /\ AddInv /\ WritesArePaid

LEMMA InitInv == LoopInit => IInv
BY InitType DEF LoopInit, IInv, DeleteInv, AddInv, WritesArePaid, NoLoop, NotCharged

LEMMA StepInv == IInv /\ [LoopNext]_loopVars => IInv'
BY StepType, DeleteKept, AddKept, PaidKept DEF IInv

LEMMA ListsDone == IInv => ListsDoneExactly
<1> SUFFICES ASSUME IInv PROVE ListsDoneExactly
  OBVIOUS
<1>1. ASSUME loop.pc = "group", ~MoreGroups, Fits(loop.args)
      PROVE  loop.entries = metadata \ ListedBefore(loop.args, Len(loop.args))
  <2>1. loop.args \in DeleteLists
    BY <1>1, ShapeOfLoop DEF IInv, TypeInv, AtGroup
  <2>2. loop.i \in GroupStarts(loop.args) /\ loop.entries = metadata \ ListedBefore(loop.args, loop.i)
    BY <1>1 DEF IInv, DeleteInv, GroupInv
  <2>3. loop.i \in Nat /\ loop.i <= Len(loop.args) /\ Len(loop.args) \in Nat
        /\ Uint(loop.i + 1) = loop.i + 1
    BY <1>1, <2>1, <2>2, FittingNumbers
  <2>4. loop.i + 1 >= Len(loop.args)
    BY <1>1, <2>3 DEF MoreGroups
  <2>5. \A p \in GroupStarts(loop.args) : p \in Nat
    BY <2>1, <2>3, FirstStart
  <2>6. \A p \in GroupStarts(loop.args) :
           p < loop.i /\ p + 1 < Len(loop.args) <=> p < Len(loop.args) /\ p + 1 < Len(loop.args)
    BY <2>3, <2>4, <2>5
  <2>7. ListedBefore(loop.args, loop.i) = ListedBefore(loop.args, Len(loop.args))
    BY <2>6 DEF ListedBefore
  <2>8. QED
    BY <2>2, <2>7
<1>2. ASSUME loop.pc = "add", loop.i >= Len(loop.args)
      PROVE  /\ loop.entries = metadata \union AddedBefore(loop.args, Len(loop.args))
             /\ \A x, y \in 0..(Len(loop.args) - 1) :
                   3 * x < Len(loop.args) /\ 3 * y < Len(loop.args) /\ x # y =>
                       AddedKey(loop.args, 3 * x) # AddedKey(loop.args, 3 * y)
             /\ AddedBefore(loop.args, Len(loop.args)) \intersect metadata = {}
  <2>1. loop \in AtEntry /\ loop.args \in AddLists
    BY <1>2, ShapeOfLoop DEF IInv, TypeInv, AtEntry
  <2>2. loop.i \in Nat /\ Len(loop.args) \in Nat
    BY <2>1, LoopAssumption DEF AtEntry
  <2>3. loop.i = Len(loop.args)
    BY <1>2, <2>2 DEF IInv, TypeInv, WholeItems
  <2>4. QED
    BY <1>2, <2>2, <2>3 DEF IInv, AddInv
<1>3. QED
  BY <1>1, <1>2 DEF ListsDoneExactly

\* A deletion that comes to its end has taken away the nonces of all its
\* intervals and no others, if the sizes in its list are words; an addition has
\* added its entries, each once (dctDeleteMetadata.go, deleteMetadata and
\* addMetadata).
THEOREM ListsAreDone == LoopSpec => []ListsDoneExactly
BY InitInv, StepInv, ListsDone, PTL DEF LoopSpec

\* SaveKeyValue does not write what is not paid for; if its last pair was
\* written, the gas remaining does not wrap around (keyValueStorage.go).
THEOREM WrittenIsPaid == LoopSpec => []WritesArePaid
<1>1. IInv => WritesArePaid
  BY DEF IInv
<1>2. QED
  BY <1>1, InitInv, StepInv, PTL DEF LoopSpec

-----------------------------------------------------------------------------
\* Places of a call, and numbers that are words.
AtSender == [at : {"sender"}, function : TransferFunctions, snd : Given, rcv : Given,
             args : Seq(Given)]
Sent == [at : {"destination", "back"}, function : TransferFunctions, snd : Argument,
         rcv : Argument, args : Seq(Argument)]

\* Numbers that are words, from the assumption of the transfers.
LEMMA SmallWord == \A x \in 0..(Word - 1) : Uint(x) = x
<1>1. Word \in Nat /\ Word > 2
  BY TransferAssumption
<1>2. QED
  BY <1>1 DEF Uint

LEMMA WordIs == Word \in Nat /\ Word > 2 /\ MaxNumber \in Nat /\ MaxNumber >= Word
BY TransferAssumption

LEMMA AnyWord == \A x \in Nat : Uint(x) \in 0..(Word - 1) /\ Uint(x) \in Nat
<1>1. Word \in Nat /\ Word > 2
  BY TransferAssumption
<1>2. QED
  BY <1>1 DEF Uint

\* What users write are arguments, and so are the numbers and tokens of a message.
LEMMA GivenIsArgument == Given \subseteq Argument /\ GivenItem \subseteq [token : Given, nonce : 0..(Word - 1), value : Nat]
BY TransferAssumption DEF Given, Argument, GivenItem

LEMMA GivenArguments == \A s \in Seq(Given) : s \in Seq(Argument)
BY GivenIsArgument, SeqMonotonic

LEMMA NumbersAreGiven ==
    /\ \A v \in 0..MaxNumber : Number(v) \in Given /\ Number(v).num = v /\ Number(v).data = -1
    /\ \A v \in 0..(Word - 1) : v \in 0..MaxNumber
    /\ ZeroByte \in Given /\ ZeroByte.num = 0 /\ ZeroByte.data = -1
BY TransferAssumption DEF Number, Given, ZeroByte

LEMMA MarshalledIsArgument ==
    \A v \in Nat : /\ Marshalled(v) \in Argument /\ Marshalled(v).data = v
                   /\ Marshalled(v) # ZeroByte /\ Marshalled(v).len > MaxLength
BY TransferAssumption DEF Marshalled, Argument, ZeroByte

\* The three arguments of each item.
GivenAs(s, S, items, amounts) ==
    /\ s \in Seq(S)
    /\ Len(s) = 3 * Len(items)
    /\ \A i \in 1..Len(items) :
          /\ s[3 * i - 2] = items[i].token
          /\ s[3 * i - 1] = IF items[i].nonce > 0 THEN Number(items[i].nonce) ELSE ZeroByte
          /\ s[3 * i] = amounts[i]

\* ItemArguments gives each item its three arguments.
LEMMA ArgumentsOfItems ==
    ASSUME NEW S, Given \subseteq S, NEW I, NEW items \in Seq(I), NEW amounts \in [1..Len(items) -> S],
           \A x \in I : x.token \in S /\ x.nonce \in 0..(Word - 1)
    PROVE  GivenAs(ItemArguments(items, amounts), S, items, amounts)
<1> DEFINE n == Len(items)
           Arg(k) == CASE k % 3 = 1 -> items[(k + 2) \div 3].token
                       [] k % 3 = 2 -> IF items[(k + 2) \div 3].nonce > 0
                                       THEN Number(items[(k + 2) \div 3].nonce) ELSE ZeroByte
                       [] OTHER -> amounts[(k + 2) \div 3]
           given == [k \in 1..(3 * n) |-> Arg(k)]
<1>1. n \in Nat /\ 3 * n \in Nat
  OBVIOUS
<1>2. ItemArguments(items, amounts) = given
  BY DEF ItemArguments
<1>3. \A i \in 1..n : items[i] \in I
  OBVIOUS
<1>4. ASSUME NEW k \in 1..(3 * n) PROVE Arg(k) \in S
  <2>1. (k + 2) \div 3 \in 1..n
    BY <1>1
  <2>2. items[(k + 2) \div 3] \in I /\ amounts[(k + 2) \div 3] \in S
    BY <2>1, <1>3
  <2> DEFINE j == (k + 2) \div 3
  <2> HIDE DEF j
  <2>3. items[j].token \in S /\ Number(items[j].nonce) \in S /\ ZeroByte \in S /\ amounts[j] \in S
    BY <2>2, NumbersAreGiven DEF j
  <2> QED
    BY <2>3 DEF j
<1>5. given \in Seq(S) /\ Len(given) = 3 * n
  <2> HIDE DEF Arg
  <2>1. given \in [1..(3 * n) -> S]
    BY <1>4
  <2> QED
    BY <2>1, <1>1
<1>6. ASSUME NEW i \in 1..n
      PROVE  /\ given[3 * i - 2] = items[i].token
             /\ given[3 * i - 1] = IF items[i].nonce > 0 THEN Number(items[i].nonce) ELSE ZeroByte
             /\ given[3 * i] = amounts[i]
  <2>1. /\ 3 * i - 2 \in 1..(3 * n) /\ (3 * i - 2) % 3 = 1 /\ ((3 * i - 2) + 2) \div 3 = i
        /\ 3 * i - 1 \in 1..(3 * n) /\ (3 * i - 1) % 3 = 2 /\ ((3 * i - 1) + 2) \div 3 = i
        /\ 3 * i \in 1..(3 * n) /\ (3 * i) % 3 = 0 /\ (3 * i + 2) \div 3 = i
    BY <1>1
  <2>2. Arg(3 * i - 2) = items[i].token
    BY <2>1
  <2>3. Arg(3 * i - 1) = IF items[i].nonce > 0 THEN Number(items[i].nonce) ELSE ZeroByte
    BY <2>1
  <2>4. Arg(3 * i) = amounts[i]
    <3> DEFINE k == 3 * i
    <3>1. k % 3 = 0 /\ (k + 2) \div 3 = i
      BY <2>1
    <3> HIDE DEF k
    <3>2. Arg(k) = amounts[(k + 2) \div 3]
      BY <3>1
    <3> QED
      BY <3>1, <3>2 DEF k
  <2> HIDE DEF Arg
  <2> QED
    BY <2>1, <2>2, <2>3, <2>4
<1> HIDE DEF given
<1> QED
  BY <1>2, <1>5, <1>6 DEF GivenAs

\* A sequence between others.
Joined(s, S, a, b, c) ==
    /\ s \in Seq(S)
    /\ Len(s) = Len(a) + Len(b) + Len(c)
    /\ \A i \in 1..Len(a) : s[i] = a[i]
    /\ \A i \in 1..Len(b) : s[Len(a) + i] = b[i]
    /\ RestAfter(s, Len(a) + Len(b)) = c

\* Each of three sequences that are joined is found at its place.
LEMMA Between ==
    ASSUME NEW S, NEW a \in Seq(S), NEW b \in Seq(S), NEW c \in Seq(S)
    PROVE  Joined(a \o b \o c, S, a, b, c)
<1>1. a \o b \in Seq(S) /\ Len(a \o b) = Len(a) + Len(b)
  BY ConcatProperties
<1>2. \A i \in 1..(Len(a) + Len(b)) : (a \o b)[i] = IF i <= Len(a) THEN a[i] ELSE b[i - Len(a)]
  BY ConcatProperties
<1> DEFINE s == (a \o b) \o c
<1>3. s \in Seq(S) /\ Len(s) = Len(a) + Len(b) + Len(c)
  BY <1>1, ConcatProperties
<1>4. \A i \in 1..Len(s) : s[i] = IF i <= Len(a \o b) THEN (a \o b)[i] ELSE c[i - Len(a \o b)]
  BY <1>1, <1>3, ConcatProperties
<1> HIDE DEF s
<1>5. /\ \A i \in 1..Len(a) : s[i] = a[i]
      /\ \A i \in 1..Len(b) : s[Len(a) + i] = b[i]
      /\ \A i \in 1..Len(c) : s[Len(a) + Len(b) + i] = c[i]
  <2>1. Len(a) \in Nat /\ Len(b) \in Nat /\ Len(c) \in Nat
    OBVIOUS
  <2>2. ASSUME NEW i \in 1..Len(a) PROVE s[i] = a[i]
    BY <2>1, <1>1, <1>2, <1>3, <1>4
  <2>3. ASSUME NEW i \in 1..Len(b) PROVE s[Len(a) + i] = b[i]
    <3>1. /\ Len(a) + i \in 1..Len(s) /\ Len(a) + i \in 1..(Len(a) + Len(b))
          /\ Len(a) + i <= Len(a \o b) /\ ~(Len(a) + i <= Len(a)) /\ (Len(a) + i) - Len(a) = i
      BY <2>1, <1>1, <1>3
    <3>2. s[Len(a) + i] = (a \o b)[Len(a) + i]
      BY <3>1, <1>4
    <3>3. (a \o b)[Len(a) + i] = b[(Len(a) + i) - Len(a)]
      BY <3>1, <1>2
    <3> QED
      BY <3>1, <3>2, <3>3
  <2>4. ASSUME NEW i \in 1..Len(c) PROVE s[Len(a) + Len(b) + i] = c[i]
    <3> DEFINE p == Len(a) + Len(b) + i
    <3>1. p \in 1..Len(s) /\ ~(p <= Len(a \o b)) /\ p - Len(a \o b) = i
      BY <2>1, <1>1, <1>3
    <3>2. s[p] = c[p - Len(a \o b)]
      BY <3>1, <1>4
    <3> QED
      BY <3>1, <3>2
  <2> QED
    BY <2>2, <2>3, <2>4
<1>6. RestAfter(s, Len(a) + Len(b)) = c
  <2> DEFINE m == Len(a) + Len(b)
             t == SubSeq(s, m + 1, Len(s))
  <2>1. m \in Nat /\ Len(s) = m + Len(c) /\ Len(c) \in Nat
    BY <1>3
  <2>2. \A i \in (m + 1)..Len(s) : s[i] \in S
    BY <1>3, <2>1
  <2>3. t \in Seq(S) /\ Len(t) = Len(c) /\ \A i \in 1..Len(c) : t[i] = s[m + i]
    <3>1. /\ t \in Seq(S) /\ Len(t) = IF m + 1 <= Len(s) THEN Len(s) - (m + 1) + 1 ELSE 0
          /\ \A i \in 1..(Len(s) - (m + 1) + 1) : t[i] = s[(m + 1) + i - 1]
      BY <2>1, <2>2, SubSeqProperties
    <3> QED
      BY <3>1, <2>1
  <2> HIDE DEF t, m
  <2>4. \A i \in 1..Len(c) : t[i] = c[i]
    BY <2>3, <1>5 DEF m
  <2>5. t = c
    BY <2>3, <2>4, SeqEqual
  <2> QED
    BY <2>5 DEF t, m, RestAfter
<1> QED
  BY <1>3, <1>5, <1>6 DEF s, Joined

-----------------------------------------------------------------------------
\* Requests, and what a client makes of them.
RequestShape(r) ==
    /\ r.function \in TransferFunctions /\ r.from \in Given /\ r.to \in Given
    /\ r.items \in Seq(GivenItem) /\ r.rest \in Seq(Given)
    /\ Len(r.items) \in Nat /\ Len(r.items) > 0 /\ 3 * Len(r.items) + 2 < Word
    /\ r.function # "MultiDCTNFTTransfer" => Len(r.items) = 1
    /\ r.function = "DCTTransfer" => r.items[1].nonce = 0
    /\ \A i \in 1..Len(r.items) :
          /\ r.items[i].token \in Given
          /\ r.items[i].nonce \in 0..(Word - 1)
          /\ r.items[i].value \in 0..MaxNumber
          /\ r.items[i] = [token |-> r.items[i].token, nonce |-> r.items[i].nonce,
                           value |-> r.items[i].value]

\* Every request has that shape.
LEMMA RequestTypes == \A r \in Requests : RequestShape(r)
<1> TAKE r \in Requests
<1>1. r \in Request
  BY TransferAssumption
<1>2. /\ r.function \in TransferFunctions /\ r.from \in Given /\ r.to \in Given
      /\ r.items \in Seq(GivenItem) /\ r.rest \in Seq(Given)
  BY <1>1 DEF Request
<1>3. /\ Len(r.items) > 0 /\ 3 * Len(r.items) + 2 < Word
      /\ r.function # "MultiDCTNFTTransfer" => Len(r.items) = 1
      /\ r.function = "DCTTransfer" => r.items[1].nonce = 0
  BY TransferAssumption
<1>4. \A i \in 1..Len(r.items) : r.items[i] \in GivenItem
  BY <1>2
<1>5. \A x \in GivenItem :
         /\ x.token \in Given /\ x.nonce \in 0..(Word - 1) /\ x.value \in 0..MaxNumber
         /\ x = [token |-> x.token, nonce |-> x.nonce, value |-> x.value]
  BY DEF GivenItem
<1>6. Len(r.items) \in Nat
  BY <1>2
<1> HIDE DEF GivenItem
<1> QED
  BY <1>2, <1>3, <1>4, <1>5, <1>6 DEF RequestShape

\* The arguments of the items of a request.
LEMMA RequestArguments ==
    ASSUME NEW r \in Requests
    PROVE  LET items == ItemArguments(r.items, [i \in DOMAIN r.items |-> Number(r.items[i].value)])
           IN  /\ items \in Seq(Given)
               /\ Len(items) = 3 * Len(r.items)
               /\ \A i \in 1..Len(r.items) :
                     /\ items[3 * i - 2] = r.items[i].token
                     /\ items[3 * i - 1].num = r.items[i].nonce
                     /\ items[3 * i].num = r.items[i].value
<1> DEFINE amounts == [i \in DOMAIN r.items |-> Number(r.items[i].value)]
           items == ItemArguments(r.items, amounts)
<1>0. RequestShape(r)
  BY RequestTypes
<1>1. r.items \in Seq(GivenItem) /\ DOMAIN r.items = 1..Len(r.items)
  BY <1>0 DEF RequestShape
<1>2. amounts \in [1..Len(r.items) -> Given]
  BY <1>0, <1>1, NumbersAreGiven DEF RequestShape
<1>3. \A x \in GivenItem : x.token \in Given /\ x.nonce \in 0..(Word - 1)
  BY DEF GivenItem
<1>4. \A i \in 1..Len(r.items) : amounts[i] = Number(r.items[i].value)
  BY <1>1
<1> HIDE DEF amounts
<1>5. /\ items \in Seq(Given)
      /\ Len(items) = 3 * Len(r.items)
      /\ \A i \in 1..Len(r.items) :
            /\ items[3 * i - 2] = r.items[i].token
            /\ items[3 * i - 1] = IF r.items[i].nonce > 0 THEN Number(r.items[i].nonce) ELSE ZeroByte
            /\ items[3 * i] = amounts[i]
  <2>1. Given \subseteq Given /\ r.items \in Seq(GivenItem)
    BY <1>1
  <2>2. GivenAs(ItemArguments(r.items, amounts), Given, r.items, amounts)
    BY <2>1, <1>2, <1>3, ArgumentsOfItems
  <2> QED
    BY <2>2 DEF GivenAs
<1> HIDE DEF items
<1>6. ASSUME NEW i \in 1..Len(r.items)
      PROVE  items[3 * i - 1].num = r.items[i].nonce /\ items[3 * i].num = r.items[i].value
  <2>1. r.items[i].nonce \in 0..(Word - 1) /\ r.items[i].value \in 0..MaxNumber
    BY <1>0 DEF RequestShape
  <2>2. Number(r.items[i].nonce).num = r.items[i].nonce /\ Number(r.items[i].value).num = r.items[i].value
    BY <2>1, NumbersAreGiven
  <2>3. CASE r.items[i].nonce > 0
    BY <2>2, <2>3, <1>4, <1>5
  <2>4. CASE r.items[i].nonce = 0
    BY <2>2, <2>4, <1>4, <1>5, NumbersAreGiven
  <2> QED
    BY <2>1, <2>3, <2>4
<1> QED
  BY <1>5, <1>6 DEF items, amounts

FitsAtSender(c) == c.function = "MultiDCTNFTTransfer" => CountFits(c.args, 2)

\* The sender's shard executes what was asked for, or nothing.
LEMMA RequestIsRead ==
    ASSUME NEW r \in Requests
    PROVE  LET c == CallAt(Encoded(r), "sender")
           IN  /\ c \in AtSender
               /\ FitsAtSender(c)
               /\ ExecuteAtSender(c).ok => ExecuteAtSender(c) = Reading(r.to, r.items, r.rest)
<1> DEFINE c == CallAt(Encoded(r), "sender")
           amounts == [i \in DOMAIN r.items |-> Number(r.items[i].value)]
           items == ItemArguments(r.items, amounts)
           n == Len(r.items)
<1>0. RequestShape(r)
  BY RequestTypes
<1>1. /\ items \in Seq(Given) /\ Len(items) = 3 * n
      /\ \A i \in 1..n : /\ items[3 * i - 2] = r.items[i].token
                         /\ items[3 * i - 1].num = r.items[i].nonce
                         /\ items[3 * i].num = r.items[i].value
  BY RequestArguments
<1>2. /\ c.at = "sender" /\ c.function = r.function /\ c.snd = r.from
      /\ c.rcv = IF r.function = "DCTTransfer" THEN r.to ELSE r.from
      /\ c.args = CASE r.function = "DCTTransfer" -> <<r.items[1].token, amounts[1]>> \o r.rest
                    [] r.function = "DCTNFTTransfer" -> items \o <<r.to>> \o r.rest
                    [] OTHER -> <<r.to, Number(n)>> \o items \o r.rest
      /\ c = [at |-> c.at, function |-> c.function, snd |-> c.snd, rcv |-> c.rcv, args |-> c.args]
  BY DEF CallAt, Encoded
<1>3. n \in Nat /\ n > 0 /\ 3 * n + 2 < Word /\ n \in 0..(Word - 1) /\ Word \in Nat
  BY <1>0, TransferAssumption DEF RequestShape
<1>4. /\ \A i \in 1..n : amounts[i] = Number(r.items[i].value) /\ amounts[i] \in Given
      /\ \A i \in 1..n : amounts[i].num = r.items[i].value
  <2>1. DOMAIN r.items = 1..n
    BY <1>0 DEF RequestShape
  <2> QED
    BY <1>0, <2>1, NumbersAreGiven DEF RequestShape
<1>5. \A i \in 1..n : Uint(r.items[i].nonce) = r.items[i].nonce
  BY <1>0, SmallWord DEF RequestShape
<1> HIDE DEF c, amounts, items
<1>6. c.args \in Seq(Given) => c \in AtSender
  <2>1. c.function \in TransferFunctions /\ c.snd \in Given /\ c.rcv \in Given
    BY <1>0, <1>2 DEF RequestShape
  <2> QED
    BY <1>2, <2>1 DEF AtSender
<1>7. CASE r.function = "DCTTransfer"
  <2> DEFINE a == <<r.items[1].token, amounts[1]>>
  <2>1. n = 1 /\ r.items[1].token \in Given /\ amounts[1] \in Given /\ amounts[1].num = r.items[1].value
    <3>1. n = 1
      BY <1>0, <1>7 DEF RequestShape
    <3>2. 1 \in 1..n
      BY <3>1
    <3>3. amounts[1] \in Given /\ amounts[1].num = r.items[1].value
      BY <3>2, <1>4
    <3>4. r.items[1].token \in Given
      BY <3>2, <1>0 DEF RequestShape
    <3> QED
      BY <3>1, <3>3, <3>4
  <2>2. a \in Seq(Given) /\ Len(a) = 2 /\ a[1] = r.items[1].token /\ a[2] = amounts[1]
    BY <2>1
  <2>3. <<>> \in Seq(Given) /\ Len(<<>>) = 0
    BY EmptySeq
  <2> HIDE DEF a
  <2>4. c.args = a \o <<>> \o r.rest
    BY <1>2, <1>7, <2>2, ConcatEmptySeq DEF a
  <2>5. /\ c.args \in Seq(Given) /\ c.args[1] = a[1] /\ c.args[2] = a[2]
        /\ RestAfter(c.args, 2) = r.rest
    <3>1. r.rest \in Seq(Given)
      BY <1>0 DEF RequestShape
    <3>2. Joined(c.args, Given, a, <<>>, r.rest)
      BY <3>1, <2>2, <2>3, <2>4, Between
    <3> QED
      BY <3>2, <2>2, <2>3 DEF Joined
  <2>6. /\ ExecuteDCTTransfer(c.rcv, c.args).ok =>
            ExecuteDCTTransfer(c.rcv, c.args) =
                Reading(r.to, <<[token |-> r.items[1].token, nonce |-> 0,
                                 value |-> r.items[1].value]>>, r.rest)
    BY <1>2, <1>7, <2>1, <2>2, <2>5 DEF ExecuteDCTTransfer, Refusal
  <2>7. r.items = <<[token |-> r.items[1].token, nonce |-> 0, value |-> r.items[1].value]>>
    BY <1>0, <1>7, <2>1 DEF RequestShape
  <2>8. ExecuteAtSender(c) = ExecuteDCTTransfer(c.rcv, c.args) /\ FitsAtSender(c)
    BY <1>2, <1>7 DEF ExecuteAtSender, FitsAtSender
  <2> QED
    BY <1>6, <2>5, <2>6, <2>7, <2>8 DEF c
<1>8. CASE r.function = "DCTNFTTransfer"
  <2> DEFINE b == <<r.to>>
  <2>1. n = 1 /\ 1 \in 1..n
    BY <1>0, <1>8 DEF RequestShape
  <2>2. b \in Seq(Given) /\ Len(b) = 1 /\ b[1] = r.to /\ r.rest \in Seq(Given)
    BY <1>0 DEF RequestShape
  <2> HIDE DEF b
  <2>3. c.args = items \o b \o r.rest
    BY <1>2, <1>8 DEF b
  <2>4. Joined(c.args, Given, items, b, r.rest)
    BY <1>1, <2>2, <2>3, Between
  <2>5. Len(items) = 3 /\ Len(items) + 1 = 4 /\ Len(items) + Len(b) = 4
    BY <1>1, <2>1, <2>2
  <2>6. /\ c.args \in Seq(Given)
        /\ c.args[1] = items[1] /\ c.args[2] = items[2] /\ c.args[3] = items[3]
        /\ c.args[4] = r.to /\ RestAfter(c.args, 4) = r.rest
    BY <2>2, <2>4, <2>5 DEF Joined
  <2>7. /\ 3 * 1 - 2 = 1 /\ 3 * 1 - 1 = 2 /\ 3 * 1 = 3
        /\ items[3 * 1 - 2] = r.items[1].token /\ items[3 * 1 - 1].num = r.items[1].nonce
        /\ items[3 * 1].num = r.items[1].value /\ Uint(r.items[1].nonce) = r.items[1].nonce
    BY <1>1, <1>5, <2>1
  <2>8. /\ c.args[1] = r.items[1].token /\ Uint(c.args[2].num) = r.items[1].nonce
        /\ c.args[3].num = r.items[1].value
    BY <2>6, <2>7
  <2>9. r.items = <<[token |-> r.items[1].token, nonce |-> r.items[1].nonce,
                     value |-> r.items[1].value]>>
    BY <1>0, <2>1 DEF RequestShape
  <2>10. ExecuteNFTAtSender(c).ok => ExecuteNFTAtSender(c) = Reading(r.to, r.items, r.rest)
    BY <2>6, <2>8, <2>9 DEF ExecuteNFTAtSender, Refusal
  <2>11. ExecuteAtSender(c) = ExecuteNFTAtSender(c) /\ FitsAtSender(c)
    BY <1>2, <1>8 DEF ExecuteAtSender, FitsAtSender
  <2> QED
    BY <1>6, <2>6, <2>10, <2>11 DEF c
<1>9. CASE r.function = "MultiDCTNFTTransfer"
  <2> DEFINE a == <<r.to, Number(n)>>
  <2>1. Number(n) \in Given /\ Number(n).num = n
    BY <1>3, NumbersAreGiven
  <2>2. /\ a \in Seq(Given) /\ Len(a) = 2 /\ a[1] = r.to /\ a[2] = Number(n)
        /\ r.rest \in Seq(Given)
    BY <1>0, <2>1 DEF RequestShape
  <2> HIDE DEF a
  <2>3. c.args = a \o items \o r.rest
    BY <1>2, <1>9 DEF a
  <2>4. Joined(c.args, Given, a, items, r.rest)
    BY <1>1, <2>2, <2>3, Between
  <2>5. /\ c.args \in Seq(Given) /\ c.args[1] = r.to /\ c.args[2] = Number(n)
        /\ Len(c.args) >= 3 * n + 2 /\ RestAfter(c.args, 3 * n + 2) = r.rest
        /\ \A i \in 1..(3 * n) : c.args[2 + i] = items[i]
    <3>1. Len(items) = 3 * n /\ Len(a) + Len(items) = 3 * n + 2 /\ Len(r.rest) \in Nat
      BY <1>1, <1>3, <2>2
    <3>2. 1 \in 1..Len(a) /\ 2 \in 1..Len(a)
      BY <2>2
    <3>3. c.args[1] = r.to /\ c.args[2] = Number(n)
      BY <3>2, <2>2, <2>4 DEF Joined
    <3>4. Len(c.args) = 2 + 3 * n + Len(r.rest)
      BY <3>1, <2>2, <2>4 DEF Joined
    <3>5. c.args \in Seq(Given) /\ RestAfter(c.args, Len(a) + Len(items)) = r.rest
      BY <2>4 DEF Joined
    <3>6. \A i \in 1..Len(items) : c.args[Len(a) + i] = items[i]
      BY <2>4 DEF Joined
    <3>7. Len(c.args) >= 3 * n + 2
      <4> DEFINE more == Len(r.rest)
                 k == n
      <4>1. more \in Nat /\ k \in Nat /\ Len(c.args) = 2 + 3 * k + more
        BY <1>3, <3>1, <3>4
      <4> HIDE DEF more, k
      <4>2. Len(c.args) >= 3 * k + 2
        BY <4>1
      <4> QED
        BY <4>2 DEF k
    <3>8. RestAfter(c.args, 3 * n + 2) = r.rest
      BY <3>1, <3>5
    <3>9. Len(a) = 2 /\ 1..Len(items) = 1..(3 * n)
      BY <3>1, <2>2
    <3>10. \A i \in 1..(3 * n) : c.args[2 + i] = items[i]
      BY <3>6, <3>9
    <3> QED
      BY <3>3, <3>5, <3>7, <3>8, <3>10
  <2>6. Uint(c.args[2].num) = n /\ Uint(3 * n + 2) = 3 * n + 2
    BY <1>3, <2>1, <2>5, SmallWord
  <2>7. ASSUME NEW i \in 1..n
        PROVE  [token |-> c.args[3 * i], nonce |-> Uint(c.args[3 * i + 1].num),
                value |-> c.args[3 * i + 2].num] = r.items[i]
    <3>1. /\ 3 * i - 2 \in 1..(3 * n) /\ 2 + (3 * i - 2) = 3 * i
          /\ 3 * i - 1 \in 1..(3 * n) /\ 2 + (3 * i - 1) = 3 * i + 1
          /\ 3 * i \in 1..(3 * n) /\ 2 + 3 * i = 3 * i + 2
      BY <1>3
    <3>2. /\ c.args[3 * i] = items[3 * i - 2] /\ c.args[3 * i + 1] = items[3 * i - 1]
          /\ c.args[3 * i + 2] = items[3 * i]
      BY <2>5, <3>1
    <3>3. /\ c.args[3 * i] = r.items[i].token /\ c.args[3 * i + 1].num = r.items[i].nonce
          /\ c.args[3 * i + 2].num = r.items[i].value
      BY <1>1, <3>2
    <3>4. r.items[i] = [token |-> r.items[i].token, nonce |-> r.items[i].nonce,
                        value |-> r.items[i].value]
      BY <1>0 DEF RequestShape
    <3> QED
      BY <1>5, <3>3, <3>4
  <2>8. [i \in 1..n |-> [token |-> c.args[3 * i], nonce |-> Uint(c.args[3 * i + 1].num),
                         value |-> c.args[3 * i + 2].num]] = r.items
    <3>1. r.items = [i \in 1..n |-> r.items[i]]
      BY <1>0 DEF RequestShape
    <3> QED
      BY <2>7, <3>1
  <2>9. ExecuteMultiAtSender(c).ok => ExecuteMultiAtSender(c) = Reading(r.to, r.items, r.rest)
    BY <2>5, <2>6, <2>8 DEF ExecuteMultiAtSender, Refusal
  <2>10. ExecuteAtSender(c) = ExecuteMultiAtSender(c)
    BY <1>2, <1>9 DEF ExecuteAtSender
  <2>11. FitsAtSender(c)
    BY <1>3, <2>6 DEF FitsAtSender, CountFits
  <2> QED
    BY <1>6, <2>5, <2>9, <2>10, <2>11 DEF c
<1> QED
  BY <1>0, <1>7, <1>8, <1>9 DEF c, RequestShape, TransferFunctions

-----------------------------------------------------------------------------
\* What the sender's shard reads.
ReadShape(c, rcv, items, rest) ==
    /\ rcv \in Given /\ items \in Seq(GivenItem) /\ rest \in Seq(Given)
    /\ Len(items) \in Nat /\ Len(items) > 0
    /\ c.function # "MultiDCTNFTTransfer" => Len(items) = 1
    /\ c.function # "DCTTransfer" => rcv # c.snd
    /\ c.function = "MultiDCTNFTTransfer" => 3 * Len(items) + 2 < Word

ReadAs(c, read) ==
    /\ read = Reading(read.rcv, read.items, read.rest)
    /\ ReadShape(c, read.rcv, read.items, read.rest)

\* What follows the transfer are arguments of the call.
LEMMA RestIsGiven ==
    ASSUME NEW S, NEW s \in Seq(S), NEW n \in Nat, n <= Len(s)
    PROVE  RestAfter(s, n) \in Seq(S)
<1>1. n + 1 \in Int /\ Len(s) \in Int /\ \A i \in (n + 1)..Len(s) : s[i] \in S
  OBVIOUS
<1>2. QED
  BY <1>1, SubSeqProperties DEF RestAfter

\* The arguments of a call at its sender.
LEMMA SenderArguments ==
    ASSUME NEW c \in AtSender
    PROVE  /\ c.function \in TransferFunctions /\ c.snd \in Given /\ c.rcv \in Given
           /\ c.args \in Seq(Given) /\ Len(c.args) \in Nat
           /\ \A i \in 1..Len(c.args) :
                 c.args[i] \in Given /\ c.args[i].num \in 0..MaxNumber /\ c.args[i].num \in Nat
<1>1. /\ c.function \in TransferFunctions /\ c.snd \in Given /\ c.rcv \in Given
      /\ c.args \in Seq(Given)
  BY DEF AtSender
<1>2. \A i \in 1..Len(c.args) : c.args[i] \in Given
  BY <1>1
<1>3. \A x \in Given : x.num \in 0..MaxNumber /\ x.num \in Nat
  BY TransferAssumption DEF Given
<1> QED
  BY <1>1, <1>2, <1>3

\* A reading is known by its fields.
LEMMA ReadingFields ==
    ASSUME NEW c, NEW read, NEW rcv, NEW items, NEW rest,
           read = Reading(rcv, items, rest), ReadShape(c, rcv, items, rest)
    PROVE  ReadAs(c, read)
<1>1. read.rcv = rcv /\ read.items = items /\ read.rest = rest
  BY DEF Reading
<1> QED
  BY <1>1 DEF ReadAs

\* Whatever the sender's shard executes has that shape.
LEMMA SenderReads ==
    ASSUME NEW c \in AtSender, FitsAtSender(c), ExecuteAtSender(c).ok
    PROVE  ReadAs(c, ExecuteAtSender(c))
<1> DEFINE args == c.args
<1>1. CASE c.function = "DCTTransfer"
  <2>1. ExecuteAtSender(c) = ExecuteDCTTransfer(c.rcv, args)
    BY <1>1 DEF ExecuteAtSender
  <2>2. Len(args) >= 2 /\ 1 \in 1..Len(args) /\ 2 \in 1..Len(args)
    BY <2>1, SenderArguments DEF ExecuteDCTTransfer, Refusal
  <2> DEFINE items == <<[token |-> args[1], nonce |-> 0, value |-> args[2].num]>>
  <2>3. ExecuteAtSender(c) = Reading(c.rcv, items, RestAfter(args, 2))
    BY <2>1 DEF ExecuteDCTTransfer, Refusal
  <2>4. [token |-> args[1], nonce |-> 0, value |-> args[2].num] \in GivenItem
    BY <2>2, SenderArguments, TransferAssumption DEF GivenItem
  <2>5. items \in Seq(GivenItem) /\ Len(items) = 1
    BY <2>4
  <2>6. RestAfter(args, 2) \in Seq(Given)
    BY <2>2, SenderArguments, RestIsGiven
  <2>7. c.rcv \in Given
    BY SenderArguments
  <2> HIDE DEF items
  <2>8. ReadShape(c, c.rcv, items, RestAfter(args, 2))
    BY <1>1, <2>5, <2>6, <2>7 DEF ReadShape
  <2> QED
    BY <2>3, <2>8, ReadingFields
<1>2. CASE c.function = "DCTNFTTransfer"
  <2>1. ExecuteAtSender(c) = ExecuteNFTAtSender(c)
    BY <1>2 DEF ExecuteAtSender
  <2>2. Len(args) >= 4 /\ args[4] # c.snd /\ 1 \in 1..Len(args) /\ 2 \in 1..Len(args)
        /\ 3 \in 1..Len(args) /\ 4 \in 1..Len(args)
    BY <2>1, SenderArguments DEF ExecuteNFTAtSender, Refusal
  <2> DEFINE items == <<[token |-> args[1], nonce |-> Uint(args[2].num), value |-> args[3].num]>>
  <2>3. ExecuteAtSender(c) = Reading(args[4], items, RestAfter(args, 4))
    BY <2>1 DEF ExecuteNFTAtSender, Refusal
  <2>4. [token |-> args[1], nonce |-> Uint(args[2].num), value |-> args[3].num] \in GivenItem
    BY <2>2, SenderArguments, AnyWord DEF GivenItem
  <2>5. items \in Seq(GivenItem) /\ Len(items) = 1
    BY <2>4
  <2>6. RestAfter(args, 4) \in Seq(Given)
    BY <2>2, SenderArguments, RestIsGiven
  <2>7. args[4] \in Given
    BY <2>2, SenderArguments
  <2> HIDE DEF items
  <2>8. ReadShape(c, args[4], items, RestAfter(args, 4))
    BY <1>2, <2>2, <2>5, <2>6, <2>7 DEF ReadShape
  <2> QED
    BY <2>3, <2>8, ReadingFields
<1>3. CASE c.function = "MultiDCTNFTTransfer"
  <2> DEFINE n == Uint(args[2].num)
             Item1(i) == [token |-> args[3 * i], nonce |-> Uint(args[3 * i + 1].num),
                          value |-> args[3 * i + 2].num]
             items == [i \in 1..n |-> Item1(i)]
  <2>1. ExecuteAtSender(c) = ExecuteMultiAtSender(c)
    BY <1>3 DEF ExecuteAtSender
  <2>2. Len(args) >= 4 /\ args[1] # c.snd /\ n # 0 /\ Len(args) >= Uint(3 * n + 2)
    <3>1. args \in Seq(Given) /\ Len(args) \in Nat
      BY SenderArguments
    <3> DEFINE end == Uint(3 * n + 2)
    <3>2. end \in Nat
      <4>1. \A i \in 1..Len(args) : args[i].num \in Nat
        BY SenderArguments
      <4>2. Len(args) >= 4
        BY <2>1, <3>1 DEF ExecuteMultiAtSender, Refusal
      <4>3. args[2].num \in Nat
        BY <3>1, <4>1, <4>2
      <4>4. n \in Nat
        BY <4>3, AnyWord
      <4> HIDE DEF n
      <4>5. 3 * n + 2 \in Nat
        BY <4>4
      <4> QED
        BY <4>5, AnyWord
    <3>3. ~(Len(args) < 4 \/ args[1] = c.snd \/ n = 0 \/ Len(args) < end)
      BY <2>1 DEF ExecuteMultiAtSender, Refusal
    <3> HIDE DEF n, end
    <3>4. Len(args) >= 4 /\ args[1] # c.snd /\ n # 0 /\ Len(args) >= end
      BY <3>1, <3>2, <3>3
    <3> QED
      BY <3>4 DEF end
  <2>3. ExecuteAtSender(c) = Reading(args[1], items, RestAfter(args, Uint(3 * n + 2)))
    BY <2>1 DEF ExecuteMultiAtSender, Refusal
  <2>4. n \in 0..(Word - 1) /\ 3 * n + 2 < Word /\ Word \in Nat
    <3>1. 2 \in 1..Len(args)
      BY <2>2, SenderArguments
    <3>2. args[2].num \in Nat
      BY <3>1, SenderArguments
    <3>3. n \in 0..(Word - 1)
      BY <3>2, AnyWord
    <3>4. 3 * n + 2 < Word
      BY <1>3, <2>2 DEF FitsAtSender, CountFits
    <3> QED
      BY <3>3, <3>4, TransferAssumption
  <2> HIDE DEF n
  <2>5. n \in Nat /\ n > 0 /\ Uint(3 * n + 2) = 3 * n + 2 /\ 3 * n + 2 \in Nat
    BY <2>2, <2>4, SmallWord
  <2>6. \A i \in 1..n : Item1(i) \in GivenItem
    <3> TAKE i \in 1..n
    <3>0. Len(args) \in Nat /\ Len(args) >= 3 * n + 2
      BY <2>2, <2>5, SenderArguments
    <3>1. 3 * i \in 1..Len(args) /\ 3 * i + 1 \in 1..Len(args) /\ 3 * i + 2 \in 1..Len(args)
      BY <2>5, <3>0
    <3>2. /\ args[3 * i] \in Given /\ Uint(args[3 * i + 1].num) \in 0..(Word - 1)
          /\ args[3 * i + 2].num \in 0..MaxNumber
      BY <3>1, SenderArguments, AnyWord
    <3> QED
      BY <3>2 DEF GivenItem
  <2>7. items \in Seq(GivenItem) /\ Len(items) = n
    <3> HIDE DEF Item1
    <3>1. items \in [1..n -> GivenItem]
      BY <2>6
    <3> QED
      BY <3>1, <2>5
  <2>8. RestAfter(args, 3 * n + 2) \in Seq(Given)
    BY <2>2, <2>5, SenderArguments, RestIsGiven
  <2>9. args[1] \in Given
    BY <2>2, SenderArguments
  <2> HIDE DEF items
  <2>10. ReadShape(c, args[1], items, RestAfter(args, 3 * n + 2))
    BY <1>3, <2>2, <2>4, <2>5, <2>7, <2>8, <2>9 DEF ReadShape
  <2>11. ExecuteAtSender(c) = Reading(args[1], items, RestAfter(args, 3 * n + 2))
    BY <2>3, <2>5
  <2> QED
    BY <2>10, <2>11, ReadingFields
<1> QED
  BY <1>1, <1>2, <1>3, SenderArguments DEF TransferFunctions

-----------------------------------------------------------------------------
\* Messages, and what remains of them when they come back.
MessageShape(c) ==
    LET n == c.args[1].num
    IN  /\ c.function = "DCTTransfer" => Len(c.args) >= 2
        /\ c.function = "DCTNFTTransfer" =>
              /\ c.snd # c.rcv
              /\ Len(c.args) >= 4
              /\ c.args[4] = ZeroByte \/ (c.args[4].data # -1 /\ c.args[4].data = c.args[3].num)
        /\ c.function = "MultiDCTNFTTransfer" =>
              /\ Len(c.args) >= 4
              /\ n \in Nat /\ n > 0 /\ 3 * n + 2 < Word /\ Len(c.args) >= 3 * n + 1
              /\ \A i \in 1..n : OptimisedAt(c.args, 3 * i - 1) <=> c.args[3 * i + 1].data # -1

Message(place, c, snd, rcv, args) ==
    [at |-> place, function |-> c.function, snd |-> snd, rcv |-> rcv, args |-> args]

\* Written and read as was read at the sender.
MessageReads(m, read) ==
    /\ m \in Sent
    /\ MessageShape(m)
    /\ ExecuteAtDestination(m) = read

\* The fields of a message.
LEMMA MessageFields ==
    ASSUME NEW c, NEW snd, NEW rcv, NEW args, NEW place, NEW m, m = Message(place, c, snd, rcv, args)
    PROVE  /\ m.at = place /\ m.function = c.function /\ m.snd = snd /\ m.rcv = rcv /\ m.args = args
           /\ ( /\ place \in {"destination", "back"} /\ c.function \in TransferFunctions
                /\ snd \in Argument /\ rcv \in Argument /\ args \in Seq(Argument) ) => m \in Sent
BY DEF Message, Sent

\* The message of DCTTransfer, the call itself, is read as the call.
LEMMA FungibleMessage ==
    ASSUME NEW c \in AtSender, c.function = "DCTTransfer", ExecuteAtSender(c).ok,
           NEW alreadySent
    PROVE  LET read == ExecuteAtSender(c)
           IN  MessageReads(Message("destination", c, c.snd, read.rcv, TransferMessage(c, read, alreadySent)), read)
<1> DEFINE read == ExecuteAtSender(c)
           m == Message("destination", c, c.snd, read.rcv, TransferMessage(c, read, alreadySent))
<1>1. TransferMessage(c, read, alreadySent) = c.args
  BY DEF TransferMessage
<1>2. read = ExecuteDCTTransfer(c.rcv, c.args)
  BY DEF ExecuteAtSender
<1>3. read.rcv = c.rcv
  BY <1>2 DEF ExecuteDCTTransfer, Reading, Refusal
<1>4. /\ c.snd \in Argument /\ c.rcv \in Argument /\ c.args \in Seq(Argument)
      /\ c.function \in TransferFunctions /\ Len(c.args) \in Nat
  BY SenderArguments, GivenIsArgument, GivenArguments
<1>5. Len(c.args) >= 2
  BY <1>2, <1>4 DEF ExecuteDCTTransfer, Refusal
<1> HIDE DEF read
<1>6. /\ m \in Sent
      /\ m.function = c.function /\ m.rcv = c.rcv /\ m.args = c.args
  BY <1>1, <1>3, <1>4, MessageFields
<1> HIDE DEF m
<1>7. MessageShape(m)
  BY <1>5, <1>6 DEF MessageShape
<1>8. ExecuteAtDestination(m) = read
  BY <1>2, <1>6 DEF ExecuteAtDestination
<1> QED
  BY <1>6, <1>7, <1>8 DEF m, read, MessageReads

\* The message of DCTNFTTransfer, with or without the token, is read as the call.
LEMMA NFTMessageReads ==
    ASSUME NEW c \in AtSender, c.function = "DCTNFTTransfer", FitsAtSender(c), ExecuteAtSender(c).ok,
           NEW alreadySent \in [DOMAIN ExecuteAtSender(c).items -> BOOLEAN]
    PROVE  LET read == ExecuteAtSender(c)
           IN  MessageReads(Message("destination", c, c.snd, read.rcv, TransferMessage(c, read, alreadySent)), read)
<1> DEFINE read == ExecuteAtSender(c)
           x == read.items[1]
           fourth == IF WholeNFT(x, alreadySent[1]) THEN Marshalled(x.value) ELSE ZeroByte
           a == SubSeq(c.args, 1, 3)
           b == <<fourth>>
           args == a \o b \o read.rest
           m == Message("destination", c, c.snd, read.rcv, args)
<1>1. TransferMessage(c, read, alreadySent) = args
  BY DEF TransferMessage, NFTMessage
<1>2. ReadAs(c, read)
  BY SenderReads
<1>3. read = ExecuteNFTAtSender(c)
  BY DEF ExecuteAtSender
<1>4. /\ c.args \in Seq(Given) /\ Len(c.args) \in Nat
      /\ c.snd \in Argument /\ c.function \in TransferFunctions
      /\ \A i \in 1..Len(c.args) : c.args[i] \in Given /\ c.args[i].num \in Nat
  BY SenderArguments, GivenIsArgument
<1>5. /\ Len(c.args) >= 4
      /\ read = Reading(c.args[4],
                   <<[token |-> c.args[1], nonce |-> Uint(c.args[2].num), value |-> c.args[3].num]>>,
                   RestAfter(c.args, 4))
  BY <1>3, <1>4 DEF ExecuteNFTAtSender, Refusal
<1>6. /\ read.items = <<[token |-> c.args[1], nonce |-> Uint(c.args[2].num), value |-> c.args[3].num]>>
      /\ x.value = c.args[3].num /\ x.value \in Nat
  <2>1. read.items = <<[token |-> c.args[1], nonce |-> Uint(c.args[2].num), value |-> c.args[3].num]>>
    BY <1>5 DEF Reading
  <2>2. 3 \in 1..Len(c.args)
    BY <1>4, <1>5
  <2>3. x.value = c.args[3].num
    BY <2>1
  <2> HIDE DEF x
  <2> QED
    BY <2>1, <2>2, <2>3, <1>4
<1>7. /\ read = Reading(read.rcv, read.items, read.rest)
      /\ read.rcv \in Argument /\ read.rcv # c.snd /\ read.rest \in Seq(Argument)
  BY <1>2, GivenIsArgument, GivenArguments DEF ReadAs, ReadShape
<1> HIDE DEF read, x
<1>8. /\ fourth \in Argument
      /\ fourth = ZeroByte \/ (fourth # ZeroByte /\ fourth.data = c.args[3].num /\ fourth.data # -1)
  <2>1. Marshalled(x.value) \in Argument /\ Marshalled(x.value) # ZeroByte
        /\ Marshalled(x.value).data = x.value /\ x.value # -1
    BY <1>6, MarshalledIsArgument
  <2>2. ZeroByte \in Argument
    BY NumbersAreGiven, GivenIsArgument
  <2> QED
    BY <2>1, <2>2, <1>6
<1> HIDE DEF fourth
<1>9. a \in Seq(Argument) /\ Len(a) = 3 /\ a[1] = c.args[1] /\ a[2] = c.args[2] /\ a[3] = c.args[3]
  <2>1. \A i \in 1..3 : c.args[i] \in Argument
    BY <1>4, <1>5, GivenIsArgument
  <2> QED
    BY <2>1, <1>4, <1>5, SubSeqProperties
<1>10. b \in Seq(Argument) /\ Len(b) = 1 /\ b[1] = fourth
  BY <1>8
<1> HIDE DEF a, b
<1>11. /\ args \in Seq(Argument) /\ Len(args) >= 4
       /\ args[1] = c.args[1] /\ args[2] = c.args[2] /\ args[3] = c.args[3] /\ args[4] = fourth
       /\ RestAfter(args, 4) = read.rest
  <2>1. Joined(args, Argument, a, b, read.rest)
    BY <1>7, <1>9, <1>10, Between
  <2> HIDE DEF args
  <2>2. Len(read.rest) \in Nat
    BY <1>7
  <2> QED
    BY <2>1, <2>2, <1>9, <1>10 DEF Joined
<1> HIDE DEF args
<1>12. /\ m \in Sent /\ m.function = "DCTNFTTransfer" /\ m.snd = c.snd
       /\ m.rcv = read.rcv /\ m.args = args
  BY <1>4, <1>7, <1>11, MessageFields
<1> HIDE DEF m
<1>13. MessageShape(m)
  BY <1>7, <1>8, <1>11, <1>12 DEF MessageShape
<1>14. ExecuteAtDestination(m) = ExecuteNFTAtDestination(read.rcv, args)
  BY <1>12 DEF ExecuteAtDestination
<1>15. ~(Len(args) < 4 \/ (args[4] # ZeroByte /\ args[4].data = -1))
  <2>1. Len(args) \in Nat
    BY <1>11
  <2> QED
    BY <2>1, <1>8, <1>11
<1>16. (IF args[4] = ZeroByte THEN args[3].num ELSE args[4].data) = c.args[3].num
  BY <1>8, <1>11
<1>17. ExecuteNFTAtDestination(read.rcv, args) = read
  BY <1>6, <1>7, <1>11, <1>15, <1>16 DEF ExecuteNFTAtDestination
<1> QED
  BY <1>1, <1>12, <1>13, <1>14, <1>17 DEF m, read, MessageReads

\* The arguments of a message of several items.
MultiShape(args, items, rest) ==
    /\ args \in Seq(Argument) /\ Len(args) \in Nat /\ Len(args) >= 3 * Len(items) + 1
    /\ args[1].num = Len(items)
    /\ RestAfter(args, 3 * Len(items) + 1) = rest
    /\ \A i \in 1..Len(items) :
          /\ args[3 * i - 1] = items[i].token
          /\ Uint(args[3 * i].num) = items[i].nonce
          /\ OptimisedAt(args, 3 * i - 1) <=> args[3 * i + 1].data # -1
          /\ OptimisedAt(args, 3 * i - 1) => args[3 * i + 1].data = items[i].value
          /\ ~OptimisedAt(args, 3 * i - 1) => args[3 * i + 1].num = items[i].value

\* The message of MultiDCTNFTTransfer has that shape: an amount is longer than a
\* quantity may be just when it is a token.
LEMMA MultiArguments ==
    ASSUME NEW items \in Seq(GivenItem), NEW rest \in Seq(Argument), 3 * Len(items) + 2 < Word,
           NEW alreadySent
    PROVE  MultiShape(MultiMessage(items, rest, alreadySent), items, rest)
<1> DEFINE n == Len(items)
           amounts == [i \in DOMAIN items |->
                         IF WholeItem(items[i], alreadySent[i]) THEN Marshalled(items[i].value)
                         ELSE Number(items[i].value)]
           a == <<Number(n)>>
           b == ItemArguments(items, amounts)
           args == a \o b \o rest
<1>1. MultiMessage(items, rest, alreadySent) = args
  BY DEF MultiMessage
<1>2. n \in Nat /\ n \in 0..(Word - 1) /\ DOMAIN items = 1..n
  BY WordIs
<1>3. /\ \A x \in GivenItem : /\ x.token \in Argument /\ x.nonce \in 0..(Word - 1) /\ x.nonce \in Nat
                              /\ x.value \in 0..MaxNumber /\ x.value \in Nat
      /\ \A i \in 1..n : items[i] \in GivenItem
  <2>1. \A x \in GivenItem : x.token \in Given /\ x.nonce \in 0..(Word - 1) /\ x.value \in 0..MaxNumber
    BY DEF GivenItem
  <2> QED
    BY <2>1, GivenIsArgument, WordIs
<1>4. \A i \in 1..n :
         /\ amounts[i] \in Argument
         /\ amounts[i] = IF WholeItem(items[i], alreadySent[i]) THEN Marshalled(items[i].value)
                         ELSE Number(items[i].value)
  <2> TAKE i \in 1..n
  <2>1. amounts[i] = IF WholeItem(items[i], alreadySent[i]) THEN Marshalled(items[i].value)
                     ELSE Number(items[i].value)
    BY <1>2
  <2>2. Marshalled(items[i].value) \in Argument /\ Number(items[i].value) \in Argument
    BY <1>3, MarshalledIsArgument, NumbersAreGiven, GivenIsArgument
  <2> HIDE DEF amounts
  <2> QED
    BY <2>1, <2>2
<1>5. amounts \in [1..n -> Argument]
  BY <1>2, <1>4
<1> HIDE DEF amounts
<1>6. GivenAs(b, Argument, items, amounts)
  <2>1. \A x \in GivenItem : x.token \in Argument /\ x.nonce \in 0..(Word - 1)
    BY <1>3
  <2>2. Given \subseteq Argument
    BY GivenIsArgument
  <2> QED
    BY <1>5, <2>1, <2>2, ArgumentsOfItems
<1> HIDE DEF b
<1>7. a \in Seq(Argument) /\ Len(a) = 1 /\ a[1] = Number(n) /\ Number(n).num = n
  <2>1. n \in 0..MaxNumber
    BY <1>2, NumbersAreGiven
  <2>2. Number(n) \in Argument /\ Number(n).num = n
    BY <2>1, NumbersAreGiven, GivenIsArgument
  <2> QED
    BY <2>2
<1> HIDE DEF a
<1>8. Joined(args, Argument, a, b, rest) /\ b \in Seq(Argument) /\ Len(b) = 3 * n
  <2>1. b \in Seq(Argument) /\ Len(b) = 3 * n
    BY <1>6 DEF GivenAs
  <2> QED
    BY <1>7, <2>1, Between
<1> HIDE DEF args
<1>9. /\ args \in Seq(Argument) /\ args[1] = Number(n) /\ Len(args) = 1 + 3 * n + Len(rest)
      /\ RestAfter(args, 1 + 3 * n) = rest
      /\ \A j \in 1..(3 * n) : args[1 + j] = b[j]
  BY <1>7, <1>8 DEF Joined
<1>10. Len(args) \in Nat /\ Len(args) >= 3 * n + 1 /\ 3 * n + 1 = 1 + 3 * n
  <2> DEFINE more == Len(rest)
             k == n
  <2>1. more \in Nat /\ k \in Nat /\ Len(args) = 1 + 3 * k + more
    BY <1>2, <1>9
  <2> HIDE DEF more, k
  <2>2. Len(args) \in Nat /\ Len(args) >= 3 * k + 1 /\ 3 * k + 1 = 1 + 3 * k
    BY <2>1
  <2> QED
    BY <2>2 DEF k
<1>11. ASSUME NEW i \in 1..n
       PROVE  /\ args[3 * i - 1] = items[i].token
              /\ Uint(args[3 * i].num) = items[i].nonce
              /\ OptimisedAt(args, 3 * i - 1) <=> args[3 * i + 1].data # -1
              /\ OptimisedAt(args, 3 * i - 1) => args[3 * i + 1].data = items[i].value
              /\ ~OptimisedAt(args, 3 * i - 1) => args[3 * i + 1].num = items[i].value
  <2> DEFINE x == items[i]
  <2>1. /\ 3 * i - 2 \in 1..(3 * n) /\ 1 + (3 * i - 2) = 3 * i - 1
        /\ 3 * i - 1 \in 1..(3 * n) /\ 1 + (3 * i - 1) = 3 * i
        /\ 3 * i \in 1..(3 * n) /\ 1 + 3 * i = 3 * i + 1
        /\ (3 * i - 1) + 1 = 3 * i /\ (3 * i - 1) + 2 = 3 * i + 1
    BY <1>2
  <2>2. args[3 * i - 1] = b[3 * i - 2] /\ args[3 * i] = b[3 * i - 1] /\ args[3 * i + 1] = b[3 * i]
    BY <1>9, <2>1
  <2>3. /\ args[3 * i - 1] = x.token
        /\ args[3 * i] = (IF x.nonce > 0 THEN Number(x.nonce) ELSE ZeroByte)
        /\ args[3 * i + 1] = amounts[i]
    BY <1>6, <2>2 DEF GivenAs
  <2>4. /\ x.nonce \in 0..(Word - 1) /\ x.nonce \in Nat /\ x.value \in 0..MaxNumber /\ x.value \in Nat
    BY <1>3
  <2>5. args[3 * i].num = x.nonce
    <3>1. x.nonce \in 0..MaxNumber
      BY <2>4, NumbersAreGiven
    <3>2. Number(x.nonce).num = x.nonce /\ ZeroByte.num = 0
      BY <3>1, NumbersAreGiven
    <3> HIDE DEF x
    <3> QED
      BY <2>3, <2>4, <3>2
  <2>6. Uint(args[3 * i].num) = x.nonce
    BY <2>4, <2>5, SmallWord
  <2>7. amounts[i] = IF WholeItem(x, alreadySent[i]) THEN Marshalled(x.value) ELSE Number(x.value)
    BY <1>4
  <2>8. OptimisedAt(args, 3 * i - 1) <=> x.nonce > 0 /\ amounts[i].len > MaxLength
    BY <2>1, <2>3, <2>6 DEF OptimisedAt
  <2> HIDE DEF x
  <2>9. CASE WholeItem(x, alreadySent[i])
    <3>1. amounts[i].len > MaxLength /\ amounts[i].data = x.value /\ x.value # -1
      BY <2>4, <2>7, <2>9, MarshalledIsArgument
    <3>2. x.nonce > 0
      BY <2>9 DEF WholeItem
    <3> QED
      BY <2>3, <2>6, <2>8, <3>1, <3>2 DEF x
  <2>10. CASE ~WholeItem(x, alreadySent[i])
    <3>1. amounts[i] = Number(x.value) /\ amounts[i].data = -1 /\ amounts[i].num = x.value
      BY <2>4, <2>7, <2>10, NumbersAreGiven
    <3>2. amounts[i].len = ByteCount[x.value]
      BY <3>1 DEF Number
    <3>3. ~(x.nonce > 0 /\ amounts[i].len > MaxLength)
      BY <2>10, <3>2 DEF WholeItem
    <3> QED
      BY <2>3, <2>6, <2>8, <3>1, <3>3 DEF x
  <2> QED
    BY <2>9, <2>10
<1>12. args[1].num = n /\ RestAfter(args, 3 * n + 1) = rest
  BY <1>7, <1>9, <1>10
<1> QED
  BY <1>1, <1>9, <1>10, <1>11, <1>12 DEF MultiShape

\* What is read of arguments of that shape.
LEMMA MultiShapeReads ==
    ASSUME NEW args, NEW items \in Seq(GivenItem), NEW rest, NEW rcv,
           MultiShape(args, items, rest), Len(items) > 0, 3 * Len(items) + 2 < Word
    PROVE  ExecuteMultiAtDestination(rcv, args) = Reading(rcv, items, rest)
<1> DEFINE n == Len(items)
           Read(i) == [token |-> args[3 * i - 1], nonce |-> Uint(args[3 * i].num),
                       value |-> IF OptimisedAt(args, 3 * i - 1)
                                 THEN args[3 * i + 1].data ELSE args[3 * i + 1].num]
<1>1. n \in Nat /\ n > 0 /\ 3 * n + 1 \in 0..(Word - 1) /\ n \in 0..(Word - 1) /\ n # 0
  BY WordIs
<1>2. Uint(args[1].num) = n /\ Uint(3 * n + 1) = 3 * n + 1
  BY <1>1, SmallWord DEF MultiShape
<1>3. Len(args) \in Nat /\ Len(args) >= 3 * n + 1 /\ RestAfter(args, 3 * n + 1) = rest
  BY DEF MultiShape
<1>4. \A i \in 1..n : ~(OptimisedAt(args, 3 * i - 1) /\ args[3 * i + 1].data = -1)
  BY DEF MultiShape
<1>5. \A i \in 1..n : Read(i) = items[i]
  <2> TAKE i \in 1..n
  <2>1. /\ args[3 * i - 1] = items[i].token
        /\ Uint(args[3 * i].num) = items[i].nonce
        /\ (IF OptimisedAt(args, 3 * i - 1)
            THEN args[3 * i + 1].data ELSE args[3 * i + 1].num) = items[i].value
    BY DEF MultiShape
  <2>2. items[i] = [token |-> items[i].token, nonce |-> items[i].nonce, value |-> items[i].value]
    <3>1. items[i] \in GivenItem
      OBVIOUS
    <3> QED
      BY <3>1 DEF GivenItem
  <2> QED
    BY <2>1, <2>2
<1>6. [i \in 1..n |-> Read(i)] = items
  <2> HIDE DEF Read
  <2>1. items = [i \in 1..n |-> items[i]]
    OBVIOUS
  <2> QED
    BY <1>5, <2>1
<1>7. ~(Len(args) < 4) /\ ~(Len(args) < 3 * n + 1)
  BY <1>1, <1>3
<1> HIDE DEF n
<1> QED
  BY <1>1, <1>2, <1>3, <1>4, <1>6, <1>7 DEF ExecuteMultiAtDestination, n

\* The message of MultiDCTNFTTransfer is read as the call.
LEMMA MultiMessageReads ==
    ASSUME NEW c \in AtSender, c.function = "MultiDCTNFTTransfer", FitsAtSender(c), ExecuteAtSender(c).ok,
           NEW alreadySent \in [DOMAIN ExecuteAtSender(c).items -> BOOLEAN]
    PROVE  LET read == ExecuteAtSender(c)
           IN  MessageReads(Message("destination", c, c.snd, read.rcv, TransferMessage(c, read, alreadySent)), read)
<1> DEFINE read == ExecuteAtSender(c)
           items == read.items
           args == MultiMessage(items, read.rest, alreadySent)
           m == Message("destination", c, c.snd, read.rcv, args)
<1>1. TransferMessage(c, read, alreadySent) = args
  BY DEF TransferMessage
<1>2. ReadAs(c, read)
  BY SenderReads
<1>3. c.snd \in Argument /\ c.function \in TransferFunctions
  BY SenderArguments, GivenIsArgument
<1> HIDE DEF read
<1>4. /\ read = Reading(read.rcv, items, read.rest)
      /\ read.rcv \in Argument /\ read.rest \in Seq(Argument)
      /\ items \in Seq(GivenItem) /\ Len(items) \in Nat /\ Len(items) > 0 /\ 3 * Len(items) + 2 < Word
  BY <1>2, GivenIsArgument, GivenArguments DEF ReadAs, ReadShape
<1> HIDE DEF items
<1>5. MultiShape(args, items, read.rest)
  BY <1>4, MultiArguments
<1> HIDE DEF args
<1>6. ExecuteMultiAtDestination(read.rcv, args) = read
  BY <1>4, <1>5, MultiShapeReads
<1>7. args \in Seq(Argument) /\ Len(args) \in Nat /\ args[1].num = Len(items) /\ Len(args) >= 3 * Len(items) + 1
  BY <1>5 DEF MultiShape
<1>8. /\ m \in Sent /\ m.function = "MultiDCTNFTTransfer" /\ m.snd = c.snd
      /\ m.rcv = read.rcv /\ m.args = args
  BY <1>3, <1>4, <1>7, MessageFields
<1> HIDE DEF m
<1>9. MessageShape(m)
  <2> DEFINE n == args[1].num
  <2>1. n \in Nat /\ n > 0 /\ 3 * n + 2 < Word /\ Len(args) >= 3 * n + 1 /\ n = Len(items)
    BY <1>4, <1>7
  <2>2. \A i \in 1..n : OptimisedAt(args, 3 * i - 1) <=> args[3 * i + 1].data # -1
    BY <1>5, <2>1 DEF MultiShape
  <2> HIDE DEF n
  <2>3. Len(args) >= 4
    BY <1>7, <2>1
  <2> QED
    BY <1>8, <2>1, <2>2, <2>3 DEF MessageShape, n
<1>10. ExecuteAtDestination(m) = ExecuteMultiAtDestination(read.rcv, args)
  BY <1>8 DEF ExecuteAtDestination
<1> QED
  BY <1>1, <1>6, <1>8, <1>9, <1>10 DEF m, args, items, read, MessageReads

-----------------------------------------------------------------------------
\* The first arguments of a message.
LEMMA Prefix ==
    ASSUME NEW s \in Seq(Argument), NEW n \in Nat, n <= Len(s)
    PROVE  /\ SubSeq(s, 1, n) \in Seq(Argument) /\ Len(SubSeq(s, 1, n)) = n
           /\ \A i \in 1..n : SubSeq(s, 1, n)[i] = s[i]
           /\ RestAfter(SubSeq(s, 1, n), n) = <<>>
<1> DEFINE t == SubSeq(s, 1, n)
<1>1. /\ t \in Seq(Argument) /\ Len(t) = n /\ \A i \in 1..n : t[i] = s[i]
  <2>1. 1 \in Int /\ n \in Int /\ \A i \in 1..n : s[i] \in Argument
    OBVIOUS
  <2>2. /\ t \in Seq(Argument)
        /\ Len(t) = IF 1 <= n THEN n - 1 + 1 ELSE 0
        /\ \A i \in 1..(n - 1 + 1) : t[i] = s[1 + i - 1]
    BY <2>1, SubSeqProperties
  <2> HIDE DEF t
  <2> QED
    BY <2>2
<1> HIDE DEF t
<1>2. RestAfter(t, n) = <<>>
  <2> DEFINE u == SubSeq(t, n + 1, n)
  <2>1. n + 1 \in Int /\ n \in Int /\ \A i \in (n + 1)..n : t[i] \in Argument
    OBVIOUS
  <2>2. u \in Seq(Argument) /\ Len(u) = 0
    BY <2>1, SubSeqProperties
  <2> HIDE DEF u
  <2>3. u = <<>>
    BY <2>2, EmptySeq
  <2> QED
    BY <1>1, <2>3 DEF u, RestAfter
<1> QED
  BY <1>1, <1>2 DEF t

\* The arguments of a message.
LEMMA SentArguments ==
    ASSUME NEW c \in Sent
    PROVE  /\ c.at \in {"destination", "back"} /\ c.function \in TransferFunctions
           /\ c.snd \in Argument /\ c.rcv \in Argument
           /\ c.args \in Seq(Argument) /\ Len(c.args) \in Nat
           /\ \A i \in 1..Len(c.args) :
                 c.args[i] \in Argument /\ c.args[i].num \in Nat
           /\ c = [at |-> c.at, function |-> c.function, snd |-> c.snd, rcv |-> c.rcv, args |-> c.args]
<1>1. /\ c.at \in {"destination", "back"} /\ c.function \in TransferFunctions
      /\ c.snd \in Argument /\ c.rcv \in Argument
      /\ c.args \in Seq(Argument)
      /\ c = [at |-> c.at, function |-> c.function, snd |-> c.snd, rcv |-> c.rcv, args |-> c.args]
  BY DEF Sent
<1>2. \A i \in 1..Len(c.args) : c.args[i] \in Argument
  BY <1>1
<1>3. \A x \in Argument : x.num \in Nat
  BY DEF Argument
<1> QED
  BY <1>1, <1>2, <1>3

\* The shape of a message of one item.
LEMMA Shapes ==
    ASSUME NEW m
    PROVE  /\ m.function = "DCTTransfer" /\ Len(m.args) >= 2 => MessageShape(m)
           /\ ( /\ m.function = "DCTNFTTransfer" /\ m.snd # m.rcv /\ Len(m.args) >= 4
                /\ m.args[4] = ZeroByte \/ (m.args[4].data # -1 /\ m.args[4].data = m.args[3].num)
              ) => MessageShape(m)
BY DEF MessageShape

\* The message that comes back is read as the first was, without the call.
Returned(c) == Message("back", c, c.rcv, c.snd, TransferPart(c))

LEMMA FungibleReturned ==
    ASSUME NEW c \in Sent, c.function = "DCTTransfer", MessageShape(c),
           NEW read, read = ExecuteAtDestination(c), read.ok
    PROVE  MessageReads(Returned(c), Reading(c.snd, read.items, <<>>))
<1> DEFINE args == SubSeq(c.args, 1, 2)
           m == Returned(c)
<1>1. Len(c.args) >= 2 /\ c.args \in Seq(Argument) /\ Len(c.args) \in Nat /\ 2 \in Nat /\ 2 <= Len(c.args)
  BY SentArguments DEF MessageShape
<1>2. /\ args \in Seq(Argument) /\ Len(args) = 2 /\ \A i \in 1..2 : args[i] = c.args[i]
      /\ RestAfter(args, 2) = <<>>
  BY <1>1, Prefix
<1>3. args[1] = c.args[1] /\ args[2] = c.args[2]
  BY <1>2
<1> HIDE DEF args
<1>4. TransferPart(c) = args
  BY DEF TransferPart, args
<1>5. m = Message("back", c, c.rcv, c.snd, args)
  BY <1>4 DEF Returned
<1>6. m \in Sent /\ m.function = c.function /\ m.rcv = c.snd /\ m.args = args
  BY <1>2, <1>5, SentArguments, MessageFields
<1> HIDE DEF m
<1>7. MessageShape(m)
  <2>1. m.function = "DCTTransfer"
    BY <1>6
  <2>2. m.args = args /\ Len(args) = 2
    BY <1>2, <1>6
  <2>3. Len(m.args) >= 2
    BY <2>2
  <2> QED
    BY <2>1, <2>3, Shapes
<1>8. read = ExecuteDCTTransfer(c.rcv, c.args)
  BY DEF ExecuteAtDestination
<1>9. c.args[2].num # 0 /\ read.items = <<[token |-> c.args[1], nonce |-> 0, value |-> c.args[2].num]>>
  BY <1>8 DEF ExecuteDCTTransfer, Reading, Refusal
<1>10. ExecuteDCTTransfer(c.snd, args) = Reading(c.snd, read.items, <<>>)
  BY <1>2, <1>3, <1>9 DEF ExecuteDCTTransfer
<1>11. ExecuteAtDestination(m) = ExecuteDCTTransfer(c.snd, args)
  BY <1>6 DEF ExecuteAtDestination
<1> QED
  BY <1>6, <1>7, <1>10, <1>11 DEF m, MessageReads

LEMMA NFTReturned ==
    ASSUME NEW c \in Sent, c.function = "DCTNFTTransfer", MessageShape(c),
           NEW read, read = ExecuteAtDestination(c), read.ok
    PROVE  MessageReads(Returned(c), Reading(c.snd, read.items, <<>>))
<1> DEFINE args == SubSeq(c.args, 1, 4)
           m == Returned(c)
<1>1. Len(c.args) >= 4 /\ c.args \in Seq(Argument) /\ Len(c.args) \in Nat /\ 4 \in Nat /\ 4 <= Len(c.args)
  BY SentArguments DEF MessageShape
<1>2. /\ args \in Seq(Argument) /\ Len(args) = 4 /\ \A i \in 1..4 : args[i] = c.args[i]
      /\ RestAfter(args, 4) = <<>>
  BY <1>1, Prefix
<1>3. args[1] = c.args[1] /\ args[2] = c.args[2] /\ args[3] = c.args[3] /\ args[4] = c.args[4]
  BY <1>2
<1> HIDE DEF args
<1>4. TransferPart(c) = args
  BY DEF TransferPart, args
<1>5. m = Message("back", c, c.rcv, c.snd, args)
  BY <1>4 DEF Returned
<1>6. m \in Sent /\ m.function = c.function /\ m.snd = c.rcv /\ m.rcv = c.snd /\ m.args = args
  BY <1>2, <1>5, SentArguments, MessageFields
<1> HIDE DEF m
<1>7. MessageShape(m)
  <2>1. /\ c.snd # c.rcv
        /\ c.args[4] = ZeroByte \/ (c.args[4].data # -1 /\ c.args[4].data = c.args[3].num)
    BY DEF MessageShape
  <2>2. m.function = "DCTNFTTransfer" /\ m.snd # m.rcv /\ m.args = args
    BY <2>1, <1>6
  <2>3. Len(args) = 4
    BY <1>2
  <2>4. Len(m.args) >= 4
    BY <2>2, <2>3
  <2>5. m.args[4] = c.args[4] /\ m.args[3] = c.args[3]
    BY <1>3, <1>6
  <2>6. m.args[4] = ZeroByte \/ (m.args[4].data # -1 /\ m.args[4].data = m.args[3].num)
    BY <2>1, <2>5
  <2> QED
    BY <2>2, <2>4, <2>6, Shapes
<1>8. read = ExecuteNFTAtDestination(c.rcv, c.args)
  BY DEF ExecuteAtDestination
<1>9. /\ ~(args[4] # ZeroByte /\ args[4].data = -1)
      /\ read.items = <<[token |-> args[1], nonce |-> Uint(args[2].num),
                         value |-> IF args[4] = ZeroByte THEN args[3].num ELSE args[4].data]>>
  BY <1>3, <1>8 DEF ExecuteNFTAtDestination, Reading, Refusal
<1>10. ExecuteNFTAtDestination(c.snd, args) = Reading(c.snd, read.items, <<>>)
  BY <1>2, <1>9 DEF ExecuteNFTAtDestination
<1>11. ExecuteAtDestination(m) = ExecuteNFTAtDestination(c.snd, args)
  BY <1>6 DEF ExecuteAtDestination
<1> QED
  BY <1>6, <1>7, <1>10, <1>11 DEF m, MessageReads

LEMMA MultiReturned ==
    ASSUME NEW c \in Sent, c.function = "MultiDCTNFTTransfer", MessageShape(c),
           NEW read, read = ExecuteAtDestination(c), read.ok
    PROVE  MessageReads(Returned(c), Reading(c.snd, read.items, <<>>))
<1> DEFINE n == c.args[1].num
           end == 3 * n + 1
           args == SubSeq(c.args, 1, end)
           m == Returned(c)
           Read(s, i) == [token |-> s[3 * i - 1], nonce |-> Uint(s[3 * i].num),
                          value |-> IF OptimisedAt(s, 3 * i - 1)
                                    THEN s[3 * i + 1].data ELSE s[3 * i + 1].num]
           Bad(s) == \E i \in 1..n : OptimisedAt(s, 3 * i - 1) /\ s[3 * i + 1].data = -1
<1>1. /\ n \in Nat /\ n > 0 /\ 3 * n + 2 < Word /\ Len(c.args) >= end
      /\ \A i \in 1..n : OptimisedAt(c.args, 3 * i - 1) <=> c.args[3 * i + 1].data # -1
      /\ c.args \in Seq(Argument) /\ Len(c.args) \in Nat
  BY SentArguments DEF MessageShape
<1>2. end \in Nat /\ end <= Len(c.args) /\ end >= 4 /\ 1 \in 1..end /\ Uint(n) = n /\ Uint(end) = end
  <2>1. n \in 0..(Word - 1) /\ end \in 0..(Word - 1)
    BY <1>1, WordIs
  <2> QED
    BY <1>1, <2>1, SmallWord
<1>3. /\ args \in Seq(Argument) /\ Len(args) = end /\ \A i \in 1..end : args[i] = c.args[i]
      /\ RestAfter(args, end) = <<>>
  BY <1>1, <1>2, Prefix
<1> HIDE DEF args
<1>4. args[1].num = n
  BY <1>2, <1>3
<1>5. \A i \in 1..n :
         /\ args[3 * i - 1] = c.args[3 * i - 1] /\ args[3 * i] = c.args[3 * i] /\ args[3 * i + 1] = c.args[3 * i + 1]
         /\ OptimisedAt(args, 3 * i - 1) = OptimisedAt(c.args, 3 * i - 1)
  <2> TAKE i \in 1..n
  <2>0. n \in Nat
    BY <1>1
  <2>1. /\ 3 * i - 1 \in 1..end /\ 3 * i \in 1..end /\ 3 * i + 1 \in 1..end
        /\ (3 * i - 1) + 1 = 3 * i /\ (3 * i - 1) + 2 = 3 * i + 1
    <3> HIDE DEF n
    <3> QED
      BY <2>0
  <2>2. args[3 * i - 1] = c.args[3 * i - 1] /\ args[3 * i] = c.args[3 * i] /\ args[3 * i + 1] = c.args[3 * i + 1]
    BY <1>3, <2>1
  <2> QED
    BY <2>1, <2>2 DEF OptimisedAt
<1>6. TransferPart(c) = args
  BY <1>2 DEF TransferPart, args
<1>7. m = Message("back", c, c.rcv, c.snd, args)
  BY <1>6 DEF Returned
<1>8. m \in Sent /\ m.function = c.function /\ m.snd = c.rcv /\ m.rcv = c.snd /\ m.args = args
  BY <1>3, <1>7, SentArguments, MessageFields
<1> HIDE DEF m
<1>9. MessageShape(m)
  <2>1. \A i \in 1..n : OptimisedAt(args, 3 * i - 1) <=> args[3 * i + 1].data # -1
    BY <1>1, <1>5
  <2>2. Len(args) >= 4 /\ Len(args) >= 3 * n + 1
    BY <1>2, <1>3
  <2> HIDE DEF n
  <2> QED
    BY <1>1, <1>4, <1>8, <2>1, <2>2 DEF MessageShape
<1>10. read = ExecuteMultiAtDestination(c.rcv, c.args)
  BY DEF ExecuteAtDestination
<1>11. /\ ~Bad(c.args) /\ n # 0 /\ read.items = [i \in 1..n |-> Read(c.args, i)]
  BY <1>2, <1>10 DEF ExecuteMultiAtDestination, Reading, Refusal
<1>12. \A i \in 1..n : Read(args, i) = Read(c.args, i)
  BY <1>5
<1>13. ~Bad(args)
  BY <1>5, <1>11
<1>14. [i \in 1..n |-> Read(args, i)] = read.items
  <2> HIDE DEF Read, n
  <2> QED
    BY <1>11, <1>12
<1>15. ExecuteMultiAtDestination(c.snd, args) = Reading(c.snd, read.items, <<>>)
  <2>1. ~(Len(args) < 4) /\ ~(Len(args) < end)
    BY <1>2, <1>3
  <2> HIDE DEF n
  <2> QED
    BY <1>2, <1>3, <1>4, <1>11, <1>13, <1>14, <2>1 DEF ExecuteMultiAtDestination
<1>16. ExecuteAtDestination(m) = ExecuteMultiAtDestination(c.snd, args)
  BY <1>8 DEF ExecuteAtDestination
<1> QED
  BY <1>8, <1>9, <1>15, <1>16 DEF m, MessageReads

-----------------------------------------------------------------------------
\* What the parser says, at the sender and of a message.
MultiFrom(rcv, args, atSender) ==
    LET start == IF atSender THEN 2 ELSE 1
        n == Uint(args[start].num)
        end == Uint(3 * n + start)
        At(i) == start + 3 * i - 2
    IN  IF \/ Len(args) < 4
           \/ Len(args) < end
           \/ ~atSender /\ \E i \in 1..n : OptimisedAt(args, At(i)) /\ args[At(i) + 2].data = -1
        THEN Refusal
        ELSE Reading(IF atSender THEN args[1] ELSE rcv,
                     [i \in 1..n |-> ParsedItem(args, At(i), atSender)], RestAfter(args, end))

\* The parser knows where it reads from the first argument.
LEMMA ParsedMulti ==
    ASSUME NEW rcv, NEW args, NEW atSender \in BOOLEAN,
           atSender <=> args[1].len = rcv.len /\ args[1].num >= Word
    PROVE  ParseMulti(rcv, args) = MultiFrom(rcv, args, atSender)
<1> DEFINE A == args[1].len = rcv.len /\ args[1].num >= Word
<1>1. ParseMulti(rcv, args) = MultiFrom(rcv, args, A)
  BY DEF ParseMulti, MultiFrom
<1>2. A = atSender
  OBVIOUS
<1> HIDE DEF A
<1> QED
  BY <1>1, <1>2

\* At the sender the parser says what is executed, unless the address is small.
LEMMA SaidAtSender ==
    ASSUME NEW c \in AtSender, ExecuteAtSender(c).ok,
           c.function = "MultiDCTNFTTransfer" => c.args[1].num >= Word
    PROVE  Parsed(c) = ExecuteAtSender(c)
<1> DEFINE args == c.args
<1>1. CASE c.function = "DCTTransfer"
  <2>1. ExecuteAtSender(c) = ExecuteDCTTransfer(c.rcv, args) /\ Parsed(c) = ParseDCTTransfer(c.rcv, args)
    BY <1>1 DEF ExecuteAtSender, Parsed
  <2> QED
    BY <2>1 DEF ExecuteDCTTransfer, ParseDCTTransfer, Refusal
<1>2. CASE c.function = "DCTNFTTransfer"
  <2>1. ExecuteAtSender(c) = ExecuteNFTAtSender(c) /\ Parsed(c) = ParseDCTNFTTransfer(c.snd, c.rcv, args)
    BY <1>2 DEF ExecuteAtSender, Parsed
  <2>2. ~(Len(args) < 4) /\ c.snd = c.rcv
    BY <2>1 DEF ExecuteNFTAtSender, Refusal
  <2> QED
    BY <2>1, <2>2 DEF ExecuteNFTAtSender, ParseDCTNFTTransfer, Refusal
<1>3. CASE c.function = "MultiDCTNFTTransfer"
  <2> DEFINE n == Uint(args[2].num)
             end == Uint(3 * n + 2)
             Executes(i) == [token |-> args[3 * i], nonce |-> Uint(args[3 * i + 1].num),
                             value |-> args[3 * i + 2].num]
             Says(i) == ParsedItem(args, 2 + 3 * i - 2, TRUE)
  <2>1. ExecuteAtSender(c) = ExecuteMultiAtSender(c) /\ Parsed(c) = ParseMulti(c.rcv, args)
    BY <1>3 DEF ExecuteAtSender, Parsed
  <2>2. /\ ~(Len(args) < 4) /\ c.snd = c.rcv /\ args[1].len = c.snd.len /\ ~(Len(args) < end)
        /\ ExecuteMultiAtSender(c) = Reading(args[1], [i \in 1..n |-> Executes(i)], RestAfter(args, end))
    BY <2>1 DEF ExecuteMultiAtSender, Refusal
  <2>3. TRUE <=> args[1].len = c.rcv.len /\ args[1].num >= Word
    BY <1>3, <2>2
  <2>4. ParseMulti(c.rcv, args) = MultiFrom(c.rcv, args, TRUE)
    BY <2>3, ParsedMulti
  <2>5. MultiFrom(c.rcv, args, TRUE) = Reading(args[1], [i \in 1..n |-> Says(i)], RestAfter(args, end))
    BY <2>2 DEF MultiFrom
  <2>6. n \in Nat
    <3>1. Len(args) \in Nat
      BY SenderArguments
    <3>2. 2 \in 1..Len(args)
      BY <2>2, <3>1
    <3>3. args[2].num \in Nat
      BY <3>2, SenderArguments
    <3> QED
      BY <3>3, AnyWord
  <2> HIDE DEF n
  <2>7. \A i \in 1..n : Says(i) = Executes(i)
    <3> TAKE i \in 1..n
    <3>1. 2 + 3 * i - 2 = 3 * i
      BY <2>6
    <3> QED
      BY <3>1 DEF ParsedItem
  <2> HIDE DEF Says, Executes
  <2>8. [i \in 1..n |-> Says(i)] = [i \in 1..n |-> Executes(i)]
    BY <2>7
  <2> QED
    BY <2>1, <2>2, <2>4, <2>5, <2>8
<1> QED
  BY <1>1, <1>2, <1>3, SenderArguments DEF TransferFunctions

\* Of a message it says what is executed.
LEMMA SaidOfMessage ==
    ASSUME NEW c \in Sent, MessageShape(c), ExecuteAtDestination(c).ok
    PROVE  Parsed(c) = ExecuteAtDestination(c)
<1> DEFINE args == c.args
<1>1. CASE c.function = "DCTTransfer"
  <2>1. ExecuteAtDestination(c) = ExecuteDCTTransfer(c.rcv, args) /\ Parsed(c) = ParseDCTTransfer(c.rcv, args)
    BY <1>1 DEF ExecuteAtDestination, Parsed
  <2> QED
    BY <2>1 DEF ExecuteDCTTransfer, ParseDCTTransfer, Refusal
<1>2. CASE c.function = "DCTNFTTransfer"
  <2>1. /\ ExecuteAtDestination(c) = ExecuteNFTAtDestination(c.rcv, args)
        /\ Parsed(c) = ParseDCTNFTTransfer(c.snd, c.rcv, args)
    BY <1>2 DEF ExecuteAtDestination, Parsed
  <2>2. ~(Len(args) < 4) /\ ~(args[4] # ZeroByte /\ args[4].data = -1)
    BY <2>1 DEF ExecuteNFTAtDestination, Refusal
  <2>3. c.snd # c.rcv /\ (IF args[4] = ZeroByte THEN args[3].num ELSE args[4].data) = args[3].num
    BY <1>2 DEF MessageShape
  <2> QED
    BY <2>1, <2>2, <2>3 DEF ExecuteNFTAtDestination, ParseDCTNFTTransfer
<1>3. CASE c.function = "MultiDCTNFTTransfer"
  <2> DEFINE n == Uint(args[1].num)
             end == Uint(3 * n + 1)
             Executes(i) == [token |-> args[3 * i - 1], nonce |-> Uint(args[3 * i].num),
                             value |-> IF OptimisedAt(args, 3 * i - 1)
                                       THEN args[3 * i + 1].data ELSE args[3 * i + 1].num]
             Says(i) == ParsedItem(args, 1 + 3 * i - 2, FALSE)
             Bad == \E i \in 1..n : OptimisedAt(args, 3 * i - 1) /\ args[3 * i + 1].data = -1
             BadSaid == \E i \in 1..n : OptimisedAt(args, 1 + 3 * i - 2) /\ args[1 + 3 * i - 2 + 2].data = -1
  <2>1. ExecuteAtDestination(c) = ExecuteMultiAtDestination(c.rcv, args) /\ Parsed(c) = ParseMulti(c.rcv, args)
    BY <1>3 DEF ExecuteAtDestination, Parsed
  <2>2. /\ ~(Len(args) < 4) /\ ~(Len(args) < end) /\ ~Bad
        /\ ExecuteMultiAtDestination(c.rcv, args)
             = Reading(c.rcv, [i \in 1..n |-> Executes(i)], RestAfter(args, end))
    BY <2>1 DEF ExecuteMultiAtDestination, Refusal
  <2>3. args[1].num \in Nat /\ args[1].num < Word
    <3>1. args[1].num \in Nat /\ 3 * args[1].num + 2 < Word
      BY <1>3 DEF MessageShape
    <3> DEFINE k == args[1].num
    <3> HIDE DEF k
    <3>2. k \in Nat /\ 3 * k + 2 < Word
      BY <3>1 DEF k
    <3>3. k < Word
      BY <3>2, WordIs
    <3> QED
      BY <3>1, <3>3 DEF k
  <2>4. FALSE <=> args[1].len = c.rcv.len /\ args[1].num >= Word
    <3>1. ~(args[1].num >= Word)
      BY <2>3, WordIs
    <3> QED
      BY <3>1
  <2>5. ParseMulti(c.rcv, args) = MultiFrom(c.rcv, args, FALSE)
    BY <2>4, ParsedMulti
  <2>6. n \in Nat
    BY <2>3, AnyWord
  <2>7. \A i \in 1..n : 1 + 3 * i - 2 = 3 * i - 1 /\ 1 + 3 * i - 2 + 2 = 3 * i + 1 /\ (3 * i - 1) + 1 = 3 * i
                        /\ (3 * i - 1) + 2 = 3 * i + 1
    <3> HIDE DEF n
    <3> QED
      BY <2>6
  <2>8. ~BadSaid
    <3> HIDE DEF n
    <3> QED
      BY <2>2, <2>7
  <2>9. MultiFrom(c.rcv, args, FALSE) = Reading(c.rcv, [i \in 1..n |-> Says(i)], RestAfter(args, end))
    BY <2>2, <2>8 DEF MultiFrom
  <2> HIDE DEF n
  <2>10. \A i \in 1..n : Says(i) = Executes(i)
    <3> TAKE i \in 1..n
    <3>1. 1 + 3 * i - 2 = 3 * i - 1 /\ (3 * i - 1) + 1 = 3 * i /\ (3 * i - 1) + 2 = 3 * i + 1
      BY <2>7
    <3>2. Says(i) = ParsedItem(args, 3 * i - 1, FALSE)
      BY <3>1
    <3>3. OptimisedAt(args, 3 * i - 1) <=> Uint(args[3 * i].num) > 0 /\ args[3 * i + 1].len > MaxLength
      BY <3>1 DEF OptimisedAt
    <3> HIDE DEF Says
    <3> QED
      BY <3>1, <3>2 DEF ParsedItem
  <2> HIDE DEF Says, Executes
  <2>11. [i \in 1..n |-> Says(i)] = [i \in 1..n |-> Executes(i)]
    BY <2>10
  <2> QED
    BY <2>1, <2>2, <2>5, <2>9, <2>11
<1> QED
  BY <1>1, <1>2, <1>3, SentArguments DEF TransferFunctions

\* Of a message that came whole, metadata is kept of the items that came with theirs.
LEMMA KeptOfMessage ==
    ASSUME NEW c \in Sent, MessageShape(c), ExecuteAtDestination(c).ok
    PROVE  Kept(c) = CASE c.function = "DCTTransfer" -> {}
                       [] c.function = "DCTNFTTransfer" -> {i \in {1} : c.args[4].data # -1}
                       [] OTHER -> {i \in DOMAIN ExecuteAtDestination(c).items : c.args[3 * i + 1].data # -1}
<1> DEFINE args == c.args
<1>1. CASE c.function = "DCTTransfer"
  BY <1>1 DEF Kept
<1>2. CASE c.function = "DCTNFTTransfer"
  <2>1. ~(Len(args) < 4)
    BY <1>2 DEF ExecuteAtDestination, ExecuteNFTAtDestination, Refusal
  <2>2. Kept(c) = IF args[4].data = -1 THEN {} ELSE {1}
    BY <1>2, <2>1 DEF Kept
  <2> QED
    BY <1>2, <2>2
<1>3. CASE c.function = "MultiDCTNFTTransfer"
  <2> DEFINE n == Uint(args[1].num)
             Whole == {i \in 1..n : OptimisedAt(args, 3 * i - 1)}
             Came == {i \in 1..n : args[3 * i + 1].data # -1}
  <2>1. ExecuteAtDestination(c) = ExecuteMultiAtDestination(c.rcv, args)
    BY <1>3 DEF ExecuteAtDestination
  <2>2. /\ ~(Len(args) < 4) /\ ~(Len(args) < Uint(3 * n + 1))
        /\ DOMAIN ExecuteAtDestination(c).items = 1..n
    BY <2>1 DEF ExecuteMultiAtDestination, Refusal, Reading
  <2>3. \A i \in 1..n : OptimisedAt(args, 3 * i - 1) <=> args[3 * i + 1].data # -1
    <3>1. /\ args[1].num \in Nat /\ 3 * args[1].num + 2 < Word
          /\ \A i \in 1..args[1].num : OptimisedAt(args, 3 * i - 1) <=> args[3 * i + 1].data # -1
      BY <1>3 DEF MessageShape
    <3>2. args[1].num \in 0..(Word - 1)
      <4> DEFINE k == args[1].num
      <4> HIDE DEF k
      <4>1. k \in Nat /\ 3 * k + 2 < Word
        BY <3>1 DEF k
      <4>2. k \in 0..(Word - 1)
        BY <4>1, WordIs
      <4> QED
        BY <4>2 DEF k
    <3>3. n = args[1].num
      BY <3>2, SmallWord
    <3> QED
      BY <3>1, <3>3
  <2>4. Kept(c) = {i \in Whole : \A k \in Whole : k <= i => args[3 * k + 1].data # -1}
    BY <1>3, <2>2 DEF Kept
  <2> HIDE DEF n
  <2>5. {i \in Whole : \A k \in Whole : k <= i => args[3 * k + 1].data # -1} = Came
    BY <2>3
  <2> QED
    BY <1>3, <2>2, <2>4, <2>5
<1> QED
  BY <1>1, <1>2, <1>3, SentArguments DEF TransferFunctions

-----------------------------------------------------------------------------
\* The invariant: at the sender what was asked for is read, or nothing; a message
\* has its shape and is read as was meant.
TransferInv ==
    /\ meant \in ReadingType
    /\ \/ tx = NoTx
       \/ /\ tx \in AtSender /\ FitsAtSender(tx)
          /\ meant.ok /\ ExecuteAtSender(tx).ok => ExecuteAtSender(tx) = meant
       \/ MessageReads(tx, meant) /\ meant.ok

\* Readings are told from refusals.
LEMMA Readings ==
    /\ Refusal \in ReadingType /\ ~Refusal.ok
    /\ \A rcv \in Argument, rest \in Seq(Argument) :
          \A items \in Seq(GivenItem) \union Seq(Item) :
             /\ Reading(rcv, items, rest) \in ReadingType /\ Reading(rcv, items, rest).ok
             /\ Reading(rcv, items, rest).items = items
<1>1. GivenItem \subseteq Item
  BY GivenIsArgument DEF Item, GivenItem
<1>2. \A items \in Seq(GivenItem) : items \in Seq(Item)
  BY <1>1, SeqMonotonic
<1> QED
  BY <1>2 DEF Reading, ReadingType, Refusal

\* The place of a call says whether it is a message.
LEMMA PlacesOfCalls == ~(NoTx.at \in {"sender", "destination", "back"}) /\ (\A c \in AtSender : c # NoTx /\ c.at = "sender")
                       /\ (\A c \in Sent : c # NoTx /\ c.at \in {"destination", "back"})
BY DEF NoTx, AtSender, Sent

\* The steps of a transfer keep the invariant.
LEMMA TransferInvInit == TransfersInit => TransferInv
BY Readings DEF TransfersInit, TransferInv

LEMMA AskRequestInv == TransferInv /\ (\E r \in Requests : AskRequest(r)) => TransferInv'
<1> SUFFICES ASSUME NEW r \in Requests, AskRequest(r) PROVE TransferInv'
  OBVIOUS
<1> DEFINE c == CallAt(Encoded(r), "sender")
<1>1. /\ c \in AtSender /\ FitsAtSender(c)
      /\ ExecuteAtSender(c).ok => ExecuteAtSender(c) = Reading(r.to, r.items, r.rest)
  BY RequestIsRead
<1>2. tx' = c /\ meant' = Reading(r.to, r.items, r.rest)
  BY DEF AskRequest
<1> HIDE DEF c
<1>3. Reading(r.to, r.items, r.rest) \in ReadingType
  <2>1. RequestShape(r)
    BY RequestTypes
  <2>2. r.to \in Argument /\ r.rest \in Seq(Argument) /\ r.items \in Seq(GivenItem)
    BY <2>1, GivenIsArgument, GivenArguments DEF RequestShape
  <2> QED
    BY <2>2, Readings
<1> QED
  BY <1>1, <1>2, <1>3 DEF TransferInv

LEMMA AskOtherInv == TransferInv /\ (\E c \in OtherCalls : AskOther(c)) => TransferInv'
<1> SUFFICES ASSUME NEW c \in OtherCalls, AskOther(c) PROVE TransferInv'
  OBVIOUS
<1> DEFINE m == CallAt(c, "sender")
<1>1. c \in Call /\ (c.function = "MultiDCTNFTTransfer" => CountFits(c.args, 2))
  BY TransferAssumption
<1>2. m \in AtSender /\ m.function = c.function /\ m.args = c.args
  BY <1>1 DEF Call, CallAt, AtSender
<1>3. tx' = m /\ meant' = Refusal
  BY DEF AskOther
<1> HIDE DEF m
<1>4. FitsAtSender(m)
  BY <1>1, <1>2 DEF FitsAtSender
<1> QED
  BY <1>2, <1>3, <1>4, Readings DEF TransferInv

LEMMA LeaveSenderInv == TransferInv /\ LeaveSender => TransferInv'
<1> SUFFICES ASSUME TransferInv, LeaveSender PROVE TransferInv'
  OBVIOUS
<1> DEFINE read == ExecuteAtSender(tx)
<1>1. tx.at = "sender" /\ read.ok /\ (meant' = IF meant.ok THEN meant ELSE read)
  BY DEF LeaveSender
<1>2. PICK alreadySent \in [DOMAIN read.items -> BOOLEAN] :
         tx' = [tx EXCEPT !.at = "destination", !.rcv = read.rcv,
                          !.args = TransferMessage(tx, read, alreadySent)]
  BY DEF LeaveSender
<1>3. tx # NoTx /\ ~(tx \in Sent)
  BY <1>1, PlacesOfCalls
<1>4. /\ tx \in AtSender /\ FitsAtSender(tx)
      /\ meant.ok => read = meant
      /\ meant \in ReadingType
  BY <1>1, <1>3 DEF TransferInv, MessageReads
<1>5. meant' = read
  BY <1>1, <1>4
<1> DEFINE args == TransferMessage(tx, read, alreadySent)
<1>6. tx' = Message("destination", tx, tx.snd, read.rcv, args)
  <2> HIDE DEF read, args
  <2>1. tx' = [tx EXCEPT !.at = "destination", !.rcv = read.rcv, !.args = args]
    BY <1>2 DEF args, read
  <2> QED
    BY <2>1, <1>4 DEF Message, AtSender
<1>7. MessageReads(Message("destination", tx, tx.snd, read.rcv, args), read)
  <2>1. tx.function \in TransferFunctions
    BY <1>4, SenderArguments
  <2>2. CASE tx.function = "DCTTransfer"
    BY <1>1, <1>4, <2>2, FungibleMessage
  <2>3. CASE tx.function = "DCTNFTTransfer"
    BY <1>1, <1>4, <2>3, NFTMessageReads
  <2>4. CASE tx.function = "MultiDCTNFTTransfer"
    BY <1>1, <1>4, <2>4, MultiMessageReads
  <2> QED
    BY <2>1, <2>2, <2>3, <2>4 DEF TransferFunctions
<1>8. read \in ReadingType
  <2>1. ReadAs(tx, read)
    BY <1>1, <1>4, SenderReads
  <2> HIDE DEF read
  <2>2. /\ read = Reading(read.rcv, read.items, read.rest)
        /\ read.rcv \in Argument /\ read.items \in Seq(GivenItem) /\ read.rest \in Seq(Argument)
    BY <2>1, GivenIsArgument, GivenArguments DEF ReadAs, ReadShape
  <2>3. Reading(read.rcv, read.items, read.rest) \in ReadingType
    BY <2>2, Readings
  <2> QED
    BY <2>2, <2>3
<1> HIDE DEF read, args
<1> QED
  BY <1>1, <1>5, <1>6, <1>7, <1>8 DEF TransferInv

LEMMA SendBackInv == TransferInv /\ SendBack => TransferInv'
<1> SUFFICES ASSUME TransferInv, SendBack PROVE TransferInv'
  OBVIOUS
<1>1. /\ tx.at = "destination"
      /\ tx' = [tx EXCEPT !.at = "back", !.snd = tx.rcv, !.rcv = tx.snd, !.args = TransferPart(tx)]
      /\ meant' = [meant EXCEPT !.rcv = tx.snd, !.rest = <<>>]
  BY DEF SendBack
<1>2. tx # NoTx /\ ~(tx \in AtSender)
  BY <1>1, PlacesOfCalls
<1>3. MessageReads(tx, meant) /\ meant.ok /\ meant \in ReadingType
  BY <1>2 DEF TransferInv
<1>4. tx \in Sent /\ MessageShape(tx) /\ ExecuteAtDestination(tx) = meant
  BY <1>3 DEF MessageReads
<1>5. tx' = Returned(tx)
  BY <1>1, <1>4 DEF Sent, Returned, Message
<1>6. MessageReads(Returned(tx), Reading(tx.snd, meant.items, <<>>))
  <2>1. tx.function \in TransferFunctions
    BY <1>4, SentArguments
  <2>2. CASE tx.function = "DCTTransfer"
    BY <1>3, <1>4, <2>2, FungibleReturned
  <2>3. CASE tx.function = "DCTNFTTransfer"
    BY <1>3, <1>4, <2>3, NFTReturned
  <2>4. CASE tx.function = "MultiDCTNFTTransfer"
    BY <1>3, <1>4, <2>4, MultiReturned
  <2> QED
    BY <2>1, <2>2, <2>3, <2>4 DEF TransferFunctions
<1>7. meant \in [ok : {TRUE}, rcv : Argument, items : Seq(Item), rest : Seq(Argument)]
  BY <1>3, Readings DEF ReadingType
<1>8. meant' = Reading(tx.snd, meant.items, <<>>)
  BY <1>1, <1>7 DEF Reading
<1>9. meant.items \in Seq(Item) /\ tx.snd \in Argument /\ <<>> \in Seq(Argument)
  BY <1>4, <1>7, SentArguments
<1>10. meant' \in ReadingType /\ meant'.ok
  BY <1>8, <1>9, Readings
<1> QED
  BY <1>5, <1>6, <1>8, <1>10 DEF TransferInv

LEMMA TransferInvNext == TransferInv /\ [TransferNext]_transferVars => TransferInv'
<1>1. TransferInv /\ TransferBegin => TransferInv'
  BY AskRequestInv, AskOtherInv DEF TransferBegin
<1>2. TransferInv /\ TransferStep => TransferInv'
  <2>1. TransferInv /\ (EndAtSender \/ Arrive) => TransferInv'
    BY Readings DEF EndAtSender, Arrive, TransferInv
  <2> QED
    BY <2>1, LeaveSenderInv, SendBackInv DEF TransferStep
<1>3. TransferInv /\ UNCHANGED transferVars => TransferInv'
  BY DEF TransferInv, transferVars
<1> QED
  BY <1>1, <1>2, <1>3 DEF TransferNext

LEMMA TransferInvAlways == TransferSpec => []TransferInv
BY TransferInvInit, TransferInvNext, PTL DEF TransferSpec

\* What it implies.
LEMMA InvGivesTypes == TransferInv => TransfersTypeOK
<1> SUFFICES ASSUME TransferInv PROVE tx \in TxType /\ meant \in ReadingType
  BY DEF TransfersTypeOK
<1>1. ASSUME tx \in AtSender PROVE tx \in TxType
  <2>1. /\ tx.snd \in Argument /\ tx.rcv \in Argument /\ tx.args \in Seq(Argument)
        /\ tx.function \in TransferFunctions
    BY <1>1, SenderArguments, GivenIsArgument, GivenArguments
  <2>2. tx = [at |-> "sender", function |-> tx.function, snd |-> tx.snd, rcv |-> tx.rcv, args |-> tx.args]
    BY <1>1 DEF AtSender
  <2> QED
    BY <2>1, <2>2 DEF TxType
<1>2. ASSUME tx \in Sent PROVE tx \in TxType
  BY <1>2 DEF TxType, Sent
<1> QED
  BY <1>1, <1>2 DEF TransferInv, MessageReads, TxType

LEMMA InvGivesSaid == TransferInv => SaidAsExecuted
<1> SUFFICES ASSUME TransferInv, tx # NoTx, Executed(tx).ok, ~SmallAddress
             PROVE  Parsed(tx) = Executed(tx)
  BY DEF SaidAsExecuted
<1>1. CASE tx \in AtSender
  <2>1. tx.at = "sender" /\ Executed(tx) = ExecuteAtSender(tx)
    BY <1>1, PlacesOfCalls DEF Executed
  <2>2. tx.function = "MultiDCTNFTTransfer" => tx.args[1].num >= Word
    <3> SUFFICES ASSUME tx.function = "MultiDCTNFTTransfer" PROVE tx.args[1].num >= Word
      OBVIOUS
    <3>1. ~(tx.args[1].num < Word)
      BY <2>1 DEF SmallAddress
    <3>2. tx.args[1].num \in Nat
      <4>1. ExecuteMultiAtSender(tx).ok
        BY <2>1 DEF ExecuteAtSender
      <4>2. ~(Len(tx.args) < 4)
        BY <4>1 DEF ExecuteMultiAtSender, Refusal
      <4>3. Len(tx.args) \in Nat
        BY <1>1, SenderArguments
      <4>4. 1 \in 1..Len(tx.args)
        BY <4>2, <4>3
      <4> QED
        BY <1>1, <4>4, SenderArguments
    <3> QED
      BY <3>1, <3>2, WordIs
  <2> QED
    BY <1>1, <2>1, <2>2, SaidAtSender
<1>2. CASE MessageReads(tx, meant)
  <2>1. tx \in Sent /\ MessageShape(tx)
    BY <1>2 DEF MessageReads
  <2>2. tx.at # "sender"
    BY <2>1, PlacesOfCalls
  <2>3. Executed(tx) = ExecuteAtDestination(tx)
    BY <2>2 DEF Executed
  <2> QED
    BY <2>1, <2>3, SaidOfMessage
<1> QED
  BY <1>1, <1>2 DEF TransferInv

LEMMA InvGivesMeant == TransferInv => ReadAsMeant
<1> SUFFICES ASSUME TransferInv, tx # NoTx, meant.ok
             PROVE  /\ tx.at = "sender" /\ Executed(tx).ok => Executed(tx) = meant
                    /\ tx.at \in {"destination", "back"} => Executed(tx) = meant
                    /\ tx.at = "destination" => Kept(tx) = CameWhole
  BY DEF ReadAsMeant
<1>1. CASE tx \in AtSender /\ (meant.ok /\ ExecuteAtSender(tx).ok => ExecuteAtSender(tx) = meant)
  BY <1>1, PlacesOfCalls DEF Executed
<1>2. CASE MessageReads(tx, meant)
  <2>1. tx \in Sent /\ MessageShape(tx) /\ ExecuteAtDestination(tx) = meant
    BY <1>2 DEF MessageReads
  <2>2. tx.at # "sender" /\ Executed(tx) = meant
    BY <2>1, PlacesOfCalls DEF Executed
  <2>3. Kept(tx) = CameWhole
    BY <2>1, KeptOfMessage DEF CameWhole
  <2> QED
    BY <2>2, <2>3
<1> QED
  BY <1>1, <1>2 DEF TransferInv

\* The arguments of a message are byte strings and what is read of them are items,
\* at every place (multiDCTNFTTransfer.go, dctNFTTransfer.go).
THEOREM TransfersTypeCorrect == TransferSpec => []TransfersTypeOK
BY TransferInvAlways, InvGivesTypes, PTL

\* The parser says of a transfer what the node executes: at the sender, in the
\* other shard and when it comes back (dctTransferParser.go).
THEOREM TransfersAreSaid == TransferSpec => []SaidAsExecuted
BY TransferInvAlways, InvGivesSaid, PTL

\* What the user asked for is what each shard executes, whatever the message leaves
\* out, and metadata is kept of the items that came with theirs
\* (createDCTNFTOutputTransfers, addMetaDataToSystemAccountFromMultiTransfer).
THEOREM TransfersArriveAsMeant == TransferSpec => []ReadAsMeant
BY TransferInvAlways, InvGivesMeant, PTL
=============================================================================
