----------------------------- MODULE EnableEpochs -----------------------------
(***************************************************************************)
(* The enable epochs handler the built-in functions ask which behaviours   *)
(* are switched on.  It is an interface the node implements; the flags     *)
(* below are those the modelled code reads.                                *)
(***************************************************************************)
EXTENDS Naturals

CONSTANTS
    InitFlags,   \* flags enabled at the start
    LaterFlags   \* flags a later epoch enables, in any order

SaveToSystemAccount == "SaveToSystemAccount"
SendAlways == "SendAlways"
FixOldTokenLiquidity == "FixOldTokenLiquidity"
WipeLiquidityDecrease == "WipeSingleNFTLiquidityDecrease"
CheckFrozenCollection == "CheckFrozenCollection"
CheckTransfer == "CheckTransfer"
CheckCorrectTokenID == "CheckCorrectTokenIDForTransferRole"
FixAsyncCallbackCheck == "FixAsyncCallbackCheck"

AllFlags == {SaveToSystemAccount, SendAlways, FixOldTokenLiquidity, WipeLiquidityDecrease,
             CheckFrozenCollection, CheckTransfer, CheckCorrectTokenID, FixAsyncCallbackCheck}

ASSUME FlagsAssumption == InitFlags \subseteq AllFlags /\ LaterFlags \subseteq AllFlags

VARIABLE flags   \* the flags enabled in the current epoch

FlagsTypeOK == flags \subseteq InitFlags \union LaterFlags

FlagsInit == flags = InitFlags

On(f) == f \in flags

\* A new epoch enables a flag; none is ever disabled.
EnableFlag(f) == f \in LaterFlags \ flags /\ flags' = flags \union {f}
=============================================================================
