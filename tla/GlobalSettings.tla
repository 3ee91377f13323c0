---------------------------- MODULE GlobalSettings ----------------------------
(***************************************************************************)
(* What the system account of each shard keeps for a token: the global     *)
(* settings (dctGlobalSettings.go) and the list of addresses with a        *)
(* transfer role (dctTransferRole.go).  The system SC changes them with    *)
(* one call per shard, so shards differ while the calls are on their way.  *)
(***************************************************************************)
EXTENDS ShardCoordinator, EnableEpochs, FiniteSets

CONSTANT MaxTransferAddresses   \* limit of the list, from the creator's arguments

ASSUME SettingsAssumption == MaxTransferAddresses \in Nat \ {0}

VARIABLES
    settings,          \* shard -> the DCTGlobalMetadata of the token
    transferAddresses  \* shard -> addresses with the transfer role

settingsVars == <<settings, transferAddresses>>

SettingNames == {"paused", "limitedTransfer", "burnRoleForAll"}

SettingsTypeOK ==
    /\ settings \in [Shards -> [SettingNames -> BOOLEAN]]
    /\ transferAddresses \in [Shards -> SUBSET Accounts]

SettingsInit ==
    /\ settings = [s \in Shards |-> [x \in SettingNames |-> FALSE]]
    /\ transferAddresses = [s \in Shards |-> {}]

\* ProcessBuiltinFunction of pause, limited transfer, burn role for all and
\* their opposites.  The last pair is active only with the flag SendAlways.
ToggleSetting(s, x, v) ==
    /\ x = "burnRoleForAll" => On(SendAlways)
    /\ settings' = [settings EXCEPT ![s][x] = v]
    /\ UNCHANGED transferAddresses

\* DCTTransferRoleAddAddress: an address already listed is not added again,
\* and a list that would be too long is not saved.
AddTransferAddresses(s, new) ==
    /\ On(SendAlways)
    /\ Cardinality(transferAddresses[s] \union new) <= MaxTransferAddresses
    /\ transferAddresses' = [transferAddresses EXCEPT ![s] = @ \union new]
    /\ UNCHANGED settings

DeleteTransferAddresses(s, old) ==
    /\ On(SendAlways)
    /\ transferAddresses' = [transferAddresses EXCEPT ![s] = @ \ old]
    /\ UNCHANGED settings

\* IsSenderOrDestinationWithTransferRole: the handler the transfers use is the
\* one of DCTPause, which is always active.
Listed(s, sender, destination) == {sender, destination} \cap transferAddresses[s] # {}
=============================================================================
