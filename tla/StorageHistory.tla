---- MODULE StorageHistory ----
(***************************************************************************)
(* StorageApp with two history variables, for the properties that compare  *)
(* the flash with the pools of earlier calls when operations may fail.     *)
(***************************************************************************)
EXTENDS StorageApp

VARIABLES
    called,     \* the pools when the running paramsSave was called
    written     \* the pools of the last write session on each region

historyVars == <<appVars, called, written>>

HistoryInit ==
    /\ AppInit
    /\ called = ErasedContent
    /\ written = [r \in Roms |-> ErasedContent]

\* paramsSave is called.
SaveStarts == pc = "idle" /\ pc' = "begin"

\* romBeginWrite has just opened a write session for _save.
SessionOpens == pc = "begin" /\ pc' = "ints" /\ ~rom'[Target].write_protected

HistoryNext ==
    /\ AppNext
    /\ called' = IF SaveStarts THEN Pools
                 ELSE IF pc' = "idle" THEN ErasedContent ELSE called
    /\ written' = IF SessionOpens /\ rom[Target].inited
                  THEN [written EXCEPT ![Target] = Pools] ELSE written

HistorySpec == HistoryInit /\ [][HistoryNext]_historyVars

----------------------------------------------------------------------------
(* Properties                                                              *)

\* When paramsSave fails the pools are as before the call: the CRC cell is
\* restored on each error path of _save.
FailedSaveRestoresPools ==
    [][SaveReturns /\ res' # "OK" => Pools' = called]_historyVars

\* A region whose checksum matches holds, as a whole, the pools of the last
\* write session on it, never a mixture of two saves: paramsIsCrcValid
\* detects every save that was torn by a power loss or a failed write.
ValidCopiesAreWhole ==
    UseCrc => \A r \in Roms : CrcMatches(flash[r]) => Image(flash[r]) = Image(written[r])

\* However operations fail, a device whose active region is intact reboots
\* into a whole image: the active one, or the one the last write session put
\* into the other region (a failed paramsSave may have stored everything).
RecoversAWholeSave ==
    standby_rom # NoRom /\ CrcMatches(flash[active_rom])
        => Recovered(flash) \in {Image(flash[active_rom]), Image(written[standby_rom])}
====
