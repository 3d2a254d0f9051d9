-------------------------------- MODULE Saves --------------------------------
(***************************************************************************)
(* EmulationSaves beside Artifacts.  They share no table and no file: a    *)
(* step is a step of one of them.                                          *)
(***************************************************************************)
EXTENDS EmulationSaves, Integers

CONSTANTS Artifacts, Games, GameOf, Friends, Limit  \* of Artifacts

VARIABLES used, bakRows, bakUploaded, frozen, bakDisk, bakLanding, shares, handler

Bak == INSTANCE Artifacts
    WITH rows <- bakRows, uploaded <- bakUploaded, disk <- bakDisk, landing <- bakLanding,
         Handlers <- Requests

emuVars == vars
bakVars == <<used, bakRows, bakUploaded, frozen, bakDisk, bakLanding, shares, handler>>
allVars == <<emuVars, bakVars>>

SavesInit == Init /\ Bak!Init

EmulationStep == Next /\ UNCHANGED bakVars
BackupsStep == Bak!Next /\ UNCHANGED emuVars
SavesNext == EmulationStep \/ BackupsStep

SavesSpec == SavesInit /\ [][SavesNext]_allVars

-----------------------------------------------------------------------------
(* Creations pass the per-game limit only by racing each other.            *)
OverLimitOnlyByRacing == Bak!OverLimitOnlyByRacing

(* A shared backup can be downloaded.                                      *)
SharedIsDownloadable == Bak!SharedIsDownloadable
=============================================================================
