------------------------------- MODULE WinSync -------------------------------
(***************************************************************************)
(* A sync's local side on Windows: the change notifier of WinDirNotify and *)
(* the folder scans of WinDirScan, run by the same client thread. A scan  *)
(* is under way at the start (the initial scan); when the sync sees       *)
(* DirNotify::error it clears it and starts a new scan once the previous  *)
(* one's WinFileAccess and WinDirAccess are gone (spec, section 6).       *)
(***************************************************************************)
EXTENDS WinDirNotify, WinDirScan

syncvars == <<vars, scanvars>>

SyncInit == Init /\ ScanInit

\* the notifier's steps leave the scan alone, and the other way round
NotifierStep == (Change \/ Destroy) /\ UNCHANGED scanvars
KernelComplete == Complete /\ UNCHANGED scanvars
RunCompletion == Completion /\ UNCHANGED scanvars
RunParse == ParseEntry /\ UNCHANGED scanvars
Rescan == ClearError /\ ScanBegin
ScanOnly == ScanStep /\ UNCHANGED vars

SyncNext ==
    \/ NotifierStep \/ KernelComplete \/ RunCompletion \/ RunParse
    \/ Rescan \/ ScanOnly

\* The kernel completes an armed read that has changes to return; the
\* client's thread waits alertably on every turn of its loop, so a queued
\* completion routine runs, and process() parses to the last entry. The
\* filesystem, the destruction, the scan's calls and the rescan get no
\* fairness.
SyncSpec ==
    /\ SyncInit /\ [][SyncNext]_syncvars
    /\ WF_syncvars(KernelComplete) /\ WF_syncvars(RunCompletion) /\ WF_syncvars(RunParse)

====
