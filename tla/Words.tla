--------------------------------- MODULE Words ---------------------------------
(***************************************************************************)
(* Unsigned numbers of the width of a word.                                *)
(***************************************************************************)
EXTENDS Integers

CONSTANT Word  \* 2^64 in the code: unsigned numbers are 0..Word - 1

\* Uint64 of a big number, and every sum and product of unsigned numbers.
Uint(x) == x % Word
=============================================================================
