----------------------------- MODULE WinDirScan -----------------------------
(***************************************************************************)
(* A scan of one folder on Windows (win32/fs.cpp): the sync opens the path *)
(* with a WinFileAccess (fopen for reading), hands its find handle to a    *)
(* WinDirAccess (dopen) and reads the entries with dnext until it returns *)
(* false; both objects are deleted in either order. fopen is split where  *)
(* another process can act: GetFileAttributesExW, CreateFileW with        *)
(* GetFileInformationByHandle, and FindFirstFileW with CloseHandle.       *)
(*                                                                         *)
(* The filesystem object at the path may be replaced by another process   *)
(* (Replace), except while a handle from CreateFileW is open on it: that  *)
(* handle does not share delete access, so Windows refuses to rename or   *)
(* delete the object. The OS handles are "hf" (CreateFileW) and "hs"      *)
(* (FindFirstFileW); os maps each to the object it is open on, or Closed. *)
(* The order in which the sync calls these functions is not under src/   *)
(* and is modelled from the spec (section 6, the local scan).             *)
(***************************************************************************)
EXTENDS Integers, Sequences, SequencesExt, Bitwise

CONSTANTS
    Objs,           \* filesystem objects
    Attrs,          \* dwFileAttributes of each object
    Listing,        \* the entries FindFirstFileW/FindNextFileW return for a folder
    Path0,          \* the object at the scanned path at first
    Replacements,   \* the objects (or NoObj) another process may put there
    MaxReplace,     \* bound on replacements
    NoObj, NoH, Closed

\* FILE_ATTRIBUTE_* (winnt.h)
FILE_ATTRIBUTE_HIDDEN == 2
FILE_ATTRIBUTE_SYSTEM == 4
FILE_ATTRIBUTE_DIRECTORY == 16
FILE_ATTRIBUTE_TEMPORARY == 256
FILE_ATTRIBUTE_REPARSE_POINT == 1024
FILE_ATTRIBUTE_OFFLINE == 4096

HandleIds == {"hf", "hs"}

VARIABLES
    pathobj,    \* the object at the path now
    replaced,   \* replacements so far
    fa,         \* the WinFileAccess
    da,         \* the WinDirAccess
    os,         \* the OS handle table
    badclose,   \* history: a handle was closed that was not open
    listed      \* the entries dnext returned: [n, type]

scanvars == <<pathobj, replaced, fa, da, os, badclose, listed>>

NoFA == [live |-> FALSE, st |-> "none", type |-> "none", retry |-> FALSE,
         hFile |-> NoH, hFind |-> NoH, pos |-> 0, fsid |-> NoObj]
NoDA == [live |-> FALSE, hFind |-> NoH, ffdvalid |-> FALSE, pos |-> 0,
         obj |-> NoObj, ended |-> FALSE]

\* nodetype_t
FILENODE == "file"
FOLDERNODE == "folder"

IsDir(a) == (a & FILE_ATTRIBUTE_DIRECTORY) # 0

\* mutant: any hidden or system entry is skipped
skipattributesEither(a) ==
    \/ (a & (FILE_ATTRIBUTE_REPARSE_POINT | FILE_ATTRIBUTE_TEMPORARY | FILE_ATTRIBUTE_OFFLINE)) # 0
    \/ (a & (FILE_ATTRIBUTE_SYSTEM | FILE_ATTRIBUTE_HIDDEN)) # 0

\* WinFileAccess::skipattributes: reparse points, temporary and offline
\* files, and files both SYSTEM and HIDDEN are not synced
skipattributes(a) ==
    \/ (a & (FILE_ATTRIBUTE_REPARSE_POINT | FILE_ATTRIBUTE_TEMPORARY | FILE_ATTRIBUTE_OFFLINE)) # 0
    \/ (a & (FILE_ATTRIBUTE_SYSTEM | FILE_ATTRIBUTE_HIDDEN))
           = (FILE_ATTRIBUTE_SYSTEM | FILE_ATTRIBUTE_HIDDEN)

\* WinFileSystemAccess::istransient
istransient(e) ==
    e \in {"ERROR_ACCESS_DENIED", "ERROR_TOO_MANY_OPEN_FILES", "ERROR_NOT_ENOUGH_MEMORY",
           "ERROR_OUTOFMEMORY", "ERROR_WRITE_PROTECT", "ERROR_LOCK_VIOLATION",
           "ERROR_SHARING_VIOLATION"}

\* dnext's test on ffd: not skipped, and not a folder named "." or ".."
\* (cFileName is NUL-terminated: n[k] exists when the name is that long)
Returned(e) ==
    /\ ~skipattributes(e.attrs)
    /\ \/ ~IsDir(e.attrs)
       \/ e.n[1] # "."
       \/ Len(e.n) > 1 /\ (e.n[2] # "." \/ Len(e.n) > 2)

\* the handle table after CloseHandle/FindClose of h
Close(h) == os' = [os EXCEPT ![h] = Closed] /\ badclose' = (badclose \/ os[h] = Closed)

-----------------------------------------------------------------------------
(* Operations                                                              *)

\* new WinFileAccess for the next scan (constructor: both handles invalid)
ScanBegin ==
    /\ ~fa.live /\ ~da.live
    /\ fa' = [NoFA EXCEPT !.live = TRUE, !.st = "new"]
    /\ da' = NoDA /\ listed' = <<>>
    /\ UNCHANGED <<pathobj, replaced, os, badclose>>

\* fopen, up to GetFileAttributesExW: a missing path fails (not transient),
\* an object skipattributes rejects fails without retry; else the type
\* is taken from the attributes
FOpenAttrs ==
    /\ fa.live /\ fa.st = "new"
    /\ fa' = CASE pathobj = NoObj ->
                    [fa EXCEPT !.st = "failed", !.retry = istransient("ERROR_FILE_NOT_FOUND")]
             []   skipattributes(Attrs[pathobj]) ->
                    [fa EXCEPT !.st = "failed", !.retry = FALSE]
             []   OTHER ->
                    [fa EXCEPT !.st = "attrs",
                               !.type = IF IsDir(Attrs[pathobj]) THEN FOLDERNODE ELSE FILENODE]
    /\ UNCHANGED <<pathobj, replaced, da, os, badclose, listed>>

\* fopen's CreateFileW (OPEN_EXISTING; backup semantics for a folder) on
\* whatever is at the path now, and GetFileInformationByHandle for fsid.
\* A folder opened as a file fails with ERROR_ACCESS_DENIED.
FOpenCreate ==
    /\ fa.live /\ fa.st = "attrs"
    /\ \/ /\ pathobj = NoObj
          /\ fa' = [fa EXCEPT !.st = "failed", !.retry = istransient("ERROR_FILE_NOT_FOUND")]
          /\ UNCHANGED <<os, badclose>>
       \/ /\ pathobj # NoObj /\ fa.type = FILENODE /\ IsDir(Attrs[pathobj])
          /\ fa' = [fa EXCEPT !.st = "failed", !.retry = istransient("ERROR_ACCESS_DENIED")]
          /\ UNCHANGED <<os, badclose>>
       \/ /\ pathobj # NoObj /\ (fa.type = FOLDERNODE \/ ~IsDir(Attrs[pathobj]))
          /\ os' = [os EXCEPT !["hf"] = pathobj] /\ UNCHANGED badclose
          /\ fa' = [fa EXCEPT !.hFile = "hf", !.fsid = pathobj,
                              !.st = IF fa.type = FOLDERNODE THEN "created" ELSE "open"]
    /\ UNCHANGED <<pathobj, replaced, da, listed>>

\* fopen of a folder: FindFirstFileW(name\*) keeps the first entry in ffd
\* and closes hFile; if the path is not a folder it fails and hFile stays
\* open in the WinFileAccess
FOpenFind ==
    /\ fa.live /\ fa.st = "created"
    /\ \/ /\ pathobj = NoObj \/ ~IsDir(Attrs[pathobj])
          /\ fa' = [fa EXCEPT !.st = "failed", !.retry = istransient("ERROR_PATH_NOT_FOUND")]
          /\ UNCHANGED <<os, badclose>>
       \/ /\ pathobj # NoObj /\ IsDir(Attrs[pathobj])
          /\ os' = [os EXCEPT !["hs"] = pathobj, !["hf"] = Closed]
          /\ badclose' = (badclose \/ os["hf"] = Closed)
          /\ fa' = [fa EXCEPT !.hFind = "hs", !.pos = 1, !.hFile = NoH,
                              !.retry = FALSE, !.st = "open"]
    /\ UNCHANGED <<pathobj, replaced, da, listed>>

\* mutant: dopen copies the find handle but leaves it in the WinFileAccess
DOpenNoReset ==
    /\ fa.live /\ fa.st = "open" /\ fa.type = FOLDERNODE /\ ~da.live
    /\ da' = [NoDA EXCEPT !.live = TRUE, !.hFind = fa.hFind, !.pos = fa.pos,
                          !.ffdvalid = fa.hFind # NoH, !.obj = os[fa.hFind]]
    /\ fa' = [fa EXCEPT !.st = "handed"]
    /\ UNCHANGED <<pathobj, replaced, os, badclose, listed>>

\* new WinDirAccess, then dopen(name, f, false): the find handle and ffd
\* move from the WinFileAccess to the WinDirAccess
DOpen ==
    /\ fa.live /\ fa.st = "open" /\ fa.type = FOLDERNODE /\ ~da.live
    /\ da' = [NoDA EXCEPT !.live = TRUE, !.hFind = fa.hFind, !.pos = fa.pos,
                          !.ffdvalid = fa.hFind # NoH, !.obj = os[fa.hFind]]
    /\ fa' = [fa EXCEPT !.hFind = NoH, !.st = "handed"]
    /\ UNCHANGED <<pathobj, replaced, os, badclose, listed>>

\* dnext: return ffd if it passes the test, else FindNextFileW until an
\* entry does or the listing ends (then false)
DNext ==
    /\ da.live /\ ~da.ended
    /\ LET L  == Listing[da.obj]
           js == {j \in (IF da.ffdvalid THEN da.pos ELSE da.pos + 1) .. Len(L) : Returned(L[j])}
       IN IF js = {}
          THEN da' = [da EXCEPT !.ffdvalid = FALSE, !.pos = Len(L) + 1, !.ended = TRUE]
               /\ UNCHANGED listed
          ELSE da' = [da EXCEPT !.ffdvalid = FALSE, !.pos = Min(js)]
               /\ listed' = Append(listed, [n |-> L[Min(js)].n,
                              type |-> IF IsDir(L[Min(js)].attrs) THEN FOLDERNODE ELSE FILENODE])
    /\ UNCHANGED <<pathobj, replaced, fa, os, badclose>>

\* ~WinDirAccess: FindClose of a valid find handle
DeleteDA ==
    /\ da.live
    /\ IF da.hFind # NoH THEN Close(da.hFind) ELSE UNCHANGED <<os, badclose>>
    /\ da' = [da EXCEPT !.live = FALSE]
    /\ UNCHANGED <<pathobj, replaced, fa, listed>>

\* ~WinFileAccess: CloseHandle(hFile), or else FindClose(hFind)
DeleteFA ==
    /\ fa.live /\ fa.st \in {"open", "failed", "handed"}
    /\ CASE fa.hFile # NoH -> Close(fa.hFile)
       []   fa.hFind # NoH -> Close(fa.hFind)
       []   OTHER -> UNCHANGED <<os, badclose>>
    /\ fa' = [fa EXCEPT !.live = FALSE]
    /\ UNCHANGED <<pathobj, replaced, da, listed>>

\* another process renames or deletes the object and puts o there
Replace(o) ==
    /\ replaced < MaxReplace /\ o # pathobj
    /\ os["hf"] # pathobj
    /\ pathobj' = o /\ replaced' = replaced + 1
    /\ UNCHANGED <<fa, da, os, badclose, listed>>

\* the sync's first scan: its WinFileAccess is new
ScanInit ==
    /\ pathobj = Path0 /\ replaced = 0
    /\ fa = [NoFA EXCEPT !.live = TRUE, !.st = "new"] /\ da = NoDA
    /\ os = [h \in HandleIds |-> Closed] /\ badclose = FALSE /\ listed = <<>>

ScanStep ==
    \/ FOpenAttrs \/ FOpenCreate \/ FOpenFind \/ DOpen \/ DNext
    \/ DeleteDA \/ DeleteFA \/ \E o \in Replacements : Replace(o)

-----------------------------------------------------------------------------
(* Properties                                                              *)

\* Every open OS handle has exactly one owner among the live WinFileAccess
\* and WinDirAccess, no live object holds a closed handle, and no handle is
\* closed twice: whichever of fopen's failure paths was taken, however the
\* find handle moved in dopen, and in whichever order the two objects are
\* deleted.
HandleOwnership ==
    LET holders == << IF fa.live THEN fa.hFile ELSE NoH,
                      IF fa.live THEN fa.hFind ELSE NoH,
                      IF da.live THEN da.hFind ELSE NoH >>
    IN /\ ~badclose
       /\ \A h \in HandleIds :
             (os[h] # Closed) <=> Cardinality({i \in 1..3 : holders[i] = h}) = 1

\* the entries a scan of folder o should yield: every entry except the
\* folder's "." and ".." links and the entries not synced (reparse points,
\* temporary or offline files, files both hidden and system)
FlagSet(a) == {f \in {FILE_ATTRIBUTE_HIDDEN, FILE_ATTRIBUTE_SYSTEM, FILE_ATTRIBUTE_DIRECTORY,
                      FILE_ATTRIBUTE_TEMPORARY, FILE_ATTRIBUTE_REPARSE_POINT,
                      FILE_ATTRIBUTE_OFFLINE} : (a \div f) % 2 = 1}
Expected(o) ==
    LET ok(e) == /\ ~(FILE_ATTRIBUTE_DIRECTORY \in FlagSet(e.attrs) /\ e.n \in {<<".">>, <<".", ".">>})
                 /\ FlagSet(e.attrs) \cap {FILE_ATTRIBUTE_REPARSE_POINT, FILE_ATTRIBUTE_TEMPORARY,
                                           FILE_ATTRIBUTE_OFFLINE} = {}
                 /\ ~({FILE_ATTRIBUTE_HIDDEN, FILE_ATTRIBUTE_SYSTEM} \subseteq FlagSet(e.attrs))
        s == SelectSeq(Listing[o], ok)
    IN [i \in DOMAIN s |-> [n |-> s[i].n,
            type |-> IF FILE_ATTRIBUTE_DIRECTORY \in FlagSet(s[i].attrs) THEN FOLDERNODE ELSE FILENODE]]

\* When dnext has returned false, the scan has returned, in order and once
\* each, exactly the entries of the folder fopen identified (its fsid):
\* the handle kept open between CreateFileW and FindFirstFileW keeps the
\* folder from being replaced in between, whatever else replaces the path.
ScanExact == da.ended => listed = Expected(da.obj) /\ da.obj = fa.fsid

====
