---------------------------- MODULE NonceSequence ----------------------------
(***************************************************************************)
(* What the create role of a token with one creator promises: the nonces   *)
(* of the collection form one sequence.  At any time at most one account   *)
(* may take the next number; the right to do so is passed on, possibly     *)
(* with a time in between when nobody has it, and the numbering goes on    *)
(* where it was.                                                           *)
(***************************************************************************)
EXTENDS Naturals

CONSTANTS
    Accounts,
    Nobody,   \* not an account
    First     \* the account that begins

VARIABLES
    holder,  \* the account that may take the next nonce, or Nobody
    last     \* the last nonce taken

Init == holder = First /\ last = 0

TakeNonce == holder # Nobody /\ last' = last + 1 /\ UNCHANGED holder

PassOn == holder # Nobody /\ holder' \in Accounts /\ UNCHANGED last

Release == holder # Nobody /\ holder' = Nobody /\ UNCHANGED last

Acquire == holder = Nobody /\ holder' \in Accounts /\ UNCHANGED last

Next == TakeNonce \/ PassOn \/ Release \/ Acquire

\* The right is never in nobody's hands for good.
SequenceSpec == Init /\ [][Next]_<<holder, last>>
FairSequenceSpec == SequenceSpec /\ WF_<<holder, last>>(Acquire)
=============================================================================
