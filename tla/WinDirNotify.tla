---------------------------- MODULE WinDirNotify ----------------------------
(***************************************************************************)
(* The Windows change notifier of a sync (WinDirNotify, win32/fs.cpp) and  *)
(* the kernel serving its ReadDirectoryChangesW. The kernel records the    *)
(* changes under the directory handle (osq, BufCap of them before it       *)
(* overflows), copies them into the user buffer of the outstanding read    *)
(* when it completes, and queues the completion routine, which runs on     *)
(* the client's thread when it next waits alertably. process() then flips  *)
(* the active buffer, re-arms the read on the other one and parses the     *)
(* completed one; the kernel may complete the new read into the other      *)
(* buffer at any moment of that parse, so parsing takes one step per entry.*)
(* Every ReadDirectoryChangesW call succeeds, fails with ERROR_NOTIFY_ENUM_ *)
(* DIR, or fails otherwise (RdcOutcomes).                                  *)
(***************************************************************************)
EXTENDS Naturals, Sequences, SequencesExt

CONSTANTS
    Changes,        \* the changes the filesystem makes, in order: [a, n]
    Ignore,         \* the local debris folder's path (DirNotify::ignore)
    Sep,            \* L'\\'
    BufCap,         \* changes a notification buffer holds
    RdcOutcomes,    \* outcomes ReadDirectoryChangesW may have
    NameSpace,      \* names on which the filter is checked
    Actions         \* FILE_ACTION_* values

\* FILE_ACTION_RENAMED_OLD_NAME
FILE_ACTION_RENAMED_OLD_NAME == "oldname"

NoBuf == 2

VARIABLES
    made,       \* changes the filesystem has made
    osq,        \* changes recorded by the kernel for the handle, not yet returned
    ovf,        \* the kernel's record overflowed since the last completion
    armed,      \* the buffer of the outstanding ReadDirectoryChangesW, or NoBuf
    buf,        \* notifybuf[0..1]: the changes the kernel copied into each
    apc,        \* the queued completion: "none", "data", "empty" (0 bytes), "aborted"
    active,     \* WinDirNotify::active
    parsing,    \* the buffer process() is parsing, or NoBuf
    pos,        \* the entry of it that ptr points at
    error,      \* DirNotify::error
    failed,     \* DirNotify::failed
    hdir,       \* hDirectory is open
    alive,      \* the WinDirNotify object exists
    delivered,  \* the notify(DIREVENTS, ...) calls, in order
    freeduse    \* history: a completion routine used a destroyed notifier

vars == <<made, osq, ovf, armed, buf, apc, active, parsing, pos, error,
          failed, hdir, alive, delivered, freeduse>>

-----------------------------------------------------------------------------
\* mutant: the check for the separator after the debris path is dropped
ReportedNoSep(fni) ==
    /\ fni.a # FILE_ACTION_RENAMED_OLD_NAME
    /\ \/ Len(fni.n) < Len(Ignore)
       \/ SubSeq(fni.n, 1, Len(Ignore)) # Ignore

\* process()'s filter: skip the old name of a rename, the debris folder
\* and anything under it
Reported(fni) ==
    /\ fni.a # FILE_ACTION_RENAMED_OLD_NAME
    /\ \/ Len(fni.n) < Len(Ignore)
       \/ SubSeq(fni.n, 1, Len(Ignore)) # Ignore
       \/ Len(fni.n) > Len(Ignore) /\ fni.n[Len(Ignore) + 1] # Sep

\* readchanges() arming buffer b with outcome o: its effect on armed,
\* failed and error
ReadChanges(o, b) ==
    [armed  |-> IF o = "ok" THEN b ELSE NoBuf,
     failed |-> IF o = "ok" THEN FALSE ELSE IF o = "fail" THEN TRUE ELSE failed,
     error  |-> error \/ o = "enumdir"]

\* the WinDirNotify constructor: CreateFileW on the path, then readchanges()
Init ==
    /\ made = 0 /\ osq = <<>> /\ ovf = FALSE
    /\ buf = [b \in {0, 1} |-> <<>>]
    /\ apc = "none" /\ active = 0 /\ parsing = NoBuf /\ pos = 1
    /\ alive = TRUE /\ delivered = <<>> /\ freeduse = FALSE
    /\ \/ /\ hdir = TRUE
          /\ \E o \in RdcOutcomes :
                LET rc == [armed |-> IF o = "ok" THEN 0 ELSE NoBuf,
                           failed |-> o = "fail", error |-> o = "enumdir"]
                IN armed = rc.armed /\ failed = rc.failed /\ error = rc.error
       \/ hdir = FALSE /\ failed = TRUE /\ armed = NoBuf /\ error = FALSE

-----------------------------------------------------------------------------
(* The kernel                                                              *)

\* a change under the directory: recorded while the handle is open, lost
\* with an overflow when the record is full
Change ==
    /\ made < Len(Changes)
    /\ made' = made + 1
    /\ IF hdir /\ ~ovf
       THEN IF Len(osq) = BufCap THEN osq' = <<>> /\ ovf' = TRUE
            ELSE osq' = Append(osq, made + 1) /\ UNCHANGED ovf
       ELSE UNCHANGED <<osq, ovf>>
    /\ UNCHANGED <<armed, buf, apc, active, parsing, pos, error, failed,
                   hdir, alive, delivered, freeduse>>

\* the outstanding read completes: the record is copied into its buffer,
\* or it completes with 0 bytes after an overflow; the routine is queued
Complete ==
    /\ hdir /\ armed # NoBuf /\ apc = "none"
    /\ osq # <<>> \/ ovf
    /\ IF ovf THEN apc' = "empty" /\ UNCHANGED buf
       ELSE apc' = "data" /\ buf' = [buf EXCEPT ![armed] = osq]
    /\ osq' = <<>> /\ ovf' = FALSE /\ armed' = NoBuf
    /\ UNCHANGED <<made, active, parsing, pos, error, failed, hdir, alive,
                   delivered, freeduse>>

-----------------------------------------------------------------------------
(* The client's thread                                                     *)

\* mutant: process() parses the buffer it has just re-armed
ProcessNoFlip(o) ==
    \/ /\ apc = "empty"
       /\ LET rc == ReadChanges(o, active)
          IN armed' = rc.armed /\ failed' = rc.failed /\ error' = TRUE
       /\ UNCHANGED <<active, parsing, pos>>
    \/ /\ apc = "data"
       /\ parsing' = active /\ pos' = 1
       /\ LET rc == ReadChanges(o, active)
          IN armed' = rc.armed /\ failed' = rc.failed /\ error' = rc.error
       /\ UNCHANGED active

\* mutant: process() re-arms the read but does not parse the completed buffer
ProcessNoParse(o) ==
    \/ /\ apc = "empty"
       /\ LET rc == ReadChanges(o, active)
          IN armed' = rc.armed /\ failed' = rc.failed /\ error' = TRUE
       /\ UNCHANGED <<active, parsing, pos>>
    \/ /\ apc = "data"
       /\ active' = 1 - active
       /\ LET rc == ReadChanges(o, 1 - active)
          IN armed' = rc.armed /\ failed' = rc.failed /\ error' = rc.error
       /\ UNCHANGED <<parsing, pos>>

\* process(dwBytes): 0 bytes re-reads and signals an error (a rescan);
\* otherwise ptr takes the active buffer, active flips, the read is
\* re-armed on the other buffer, and the entries are parsed
Process(o) ==
    \/ /\ apc = "empty"
       /\ LET rc == ReadChanges(o, active)
          IN armed' = rc.armed /\ failed' = rc.failed /\ error' = TRUE
       /\ UNCHANGED <<active, parsing, pos>>
    \/ /\ apc = "data"
       /\ parsing' = active /\ pos' = 1 /\ active' = 1 - active
       /\ LET rc == ReadChanges(o, 1 - active)
          IN armed' = rc.armed /\ failed' = rc.failed /\ error' = rc.error

\* the completion routine, run in an alertable wait (so never inside
\* process()): an aborted read is ignored; otherwise process() is called
\* on the WinDirNotify that lpOverlapped->hEvent points to
Completion ==
    /\ apc # "none" /\ parsing = NoBuf
    /\ apc' = "none"
    /\ \/ /\ apc = "aborted"
          /\ UNCHANGED <<armed, failed, error, active, parsing, pos, freeduse>>
       \/ /\ apc # "aborted" /\ ~alive
          /\ freeduse' = TRUE
          /\ UNCHANGED <<armed, failed, error, active, parsing, pos>>
       \/ /\ apc # "aborted" /\ alive
          /\ \E o \in RdcOutcomes : Process(o)
          /\ UNCHANGED freeduse
    /\ UNCHANGED <<made, osq, ovf, buf, hdir, alive, delivered>>

\* mutant: the loop stops after the first entry
ParseStopEarly ==
    /\ parsing # NoBuf
    /\ delivered' = IF Reported(Changes[buf[parsing][pos]])
                    THEN Append(delivered, buf[parsing][pos]) ELSE delivered
    /\ parsing' = NoBuf /\ pos' = 1
    /\ UNCHANGED <<made, osq, ovf, armed, buf, apc, active, error, failed,
                   hdir, alive, freeduse>>

\* one turn of process()'s loop: notify the entry unless filtered, then
\* follow NextEntryOffset, or stop at the last entry
ParseEntry ==
    /\ parsing # NoBuf /\ pos <= Len(buf[parsing])
    /\ delivered' = IF Reported(Changes[buf[parsing][pos]])
                    THEN Append(delivered, buf[parsing][pos]) ELSE delivered
    /\ IF pos = Len(buf[parsing])
       THEN parsing' = NoBuf /\ pos' = 1
       ELSE pos' = pos + 1 /\ UNCHANGED parsing
    /\ UNCHANGED <<made, osq, ovf, armed, buf, apc, active, error, failed,
                   hdir, alive, freeduse>>

\* ~WinDirNotify(): CloseHandle aborts the outstanding read, and the
\* kernel drops its record; a completion already queued stays queued
Destroy ==
    /\ alive /\ parsing = NoBuf
    /\ alive' = FALSE /\ hdir' = FALSE
    /\ armed' = NoBuf
    /\ apc' = IF armed # NoBuf THEN "aborted" ELSE apc
    /\ osq' = <<>>
    /\ UNCHANGED <<made, ovf, buf, active, parsing, pos, error, failed,
                   delivered, freeduse>>

\* the sync sees DirNotify::error, clears it and rescans
ClearError ==
    /\ alive /\ error /\ error' = FALSE
    /\ UNCHANGED <<made, osq, ovf, armed, buf, apc, active, parsing, pos,
                   failed, hdir, alive, delivered, freeduse>>

Next ==
    \/ Change \/ Complete \/ Completion \/ ParseEntry \/ Destroy \/ ClearError

Spec == Init /\ [][Next]_vars

-----------------------------------------------------------------------------
(* Properties                                                              *)

\* the notification stream the sync sees: the entries still to be parsed,
\* then a completed buffer whose routine is queued, then the kernel's record
StreamPending ==
    (IF parsing # NoBuf THEN SubSeq(buf[parsing], pos, Len(buf[parsing])) ELSE <<>>)
    \o (IF apc = "data" THEN buf[active] ELSE <<>>)
    \o osq

Stream == INSTANCE NotifyStream
    WITH pending <- StreamPending,
         error <- error \/ ovf \/ apc = "empty",
         off <- ~hdir,
         OLDNAME <- FILE_ACTION_RENAMED_OLD_NAME

\* The notifier implements the notification stream: whatever the order in
\* which the kernel completes reads into the two buffers, the completion
\* routine runs and process() parses, the sync is told of every change
\* in the order it happened and once, except a rename's old name and the
\* debris folder, and a change is lost only with DirNotify::error raised
\* (or the kernel's overflow pending) so the sync rescans.
StreamRefined == Stream!Spec

\* A change the kernel records while a read is armed reaches the sync: it
\* is eventually passed to notify() (or it is one the filter drops), or
\* DirNotify::error or failed is raised, or the notifier is destroyed. This
\* asks the completion routine, the re-arm on the other buffer and the
\* parse loop to keep the chain going through both buffers and overflows.
ChangesReachSync ==
    \A i \in 1..Len(Changes) :
        (i \in Range(osq) /\ armed # NoBuf)
            ~> (\/ i \in Range(delivered) \/ ~Stream!Reportable(Changes[i])
                \/ error \/ failed \/ ~alive)

\* Whenever process()'s loop is filtering entries, its byte comparison of
\* FileName against the debris path (length, prefix, then the separator
\* after it) agrees with the path-component definition of "is the debris
\* folder or inside it": for the entry ptr points at, and for every name
\* and action of the bounded name space it could have met instead.
IgnoreExact ==
    parsing # NoBuf =>
        \A fni \in {Changes[buf[parsing][pos]]} \cup [a : Actions, n : NameSpace] :
            Reported(fni) <=> Stream!Reportable(fni)

\* The kernel never copies a completed read into the buffer process() is
\* still parsing: the active buffer flips before the read is re-armed.
ParseNotOverwritten == parsing # NoBuf => armed # parsing

\* No completion routine runs after its WinDirNotify is destroyed: a read
\* that completed before ~WinDirNotify() is not left queued for it.
NoCompletionAfterDestroy == ~freeduse

====
