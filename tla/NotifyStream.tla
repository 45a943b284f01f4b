---------------------------- MODULE NotifyStream ----------------------------
(***************************************************************************)
(* What a filesystem change-notification subscription promises its sync   *)
(* (spec sections 5 and 6): the changes made under the synced folder are   *)
(* reported in the order they happened, each at most once, except the      *)
(* old name of a rename and anything inside the local debris folder; a     *)
(* change may be lost only together with an overflow signal, which the     *)
(* sync answers with a full rescan (it may start with one). A closed      *)
(* subscription records nothing new and may drop what it had not           *)
(* reported. Changes are the indices of the sequence Changes.              *)
(***************************************************************************)
EXTENDS Naturals, Sequences, SequencesExt

CONSTANTS
    Changes,        \* the changes the filesystem makes, in order: [a, n]
    Ignore,         \* the debris folder's path under the sync root
    Sep,            \* the path separator
    OLDNAME         \* FILE_ACTION_RENAMED_OLD_NAME

VARIABLES
    made,           \* changes made so far
    pending,        \* changes made and not yet reported or dropped
    delivered,      \* changes reported, in order
    error,          \* overflow signalled and not yet answered by a rescan
    off             \* the subscription is closed

vars == <<made, pending, delivered, error, off>>

\* a path as the sequence of its components
RECURSIVE Components(_)
Components(p) ==
    IF \A i \in DOMAIN p : p[i] # Sep THEN << p >>
    ELSE LET k == CHOOSE k \in DOMAIN p : p[k] = Sep /\ \A j \in 1..k-1 : p[j] # Sep
         IN << SubSeq(p, 1, k - 1) >> \o Components(SubSeq(p, k + 1, Len(p)))

\* a change is reported unless it is a rename's old name, or the debris
\* folder, or lies inside it
Reportable(c) ==
    /\ c.a # OLDNAME
    /\ ~IsPrefix(Components(Ignore), Components(c.n))

Init ==
    /\ made = 0
    /\ pending = <<>>
    /\ delivered = <<>>
    /\ error \in BOOLEAN
    /\ off \in BOOLEAN

\* the filesystem makes the next change; an open subscription records it
Change ==
    /\ made < Len(Changes)
    /\ made' = made + 1
    /\ pending' = IF off THEN pending ELSE Append(pending, made + 1)
    /\ UNCHANGED <<delivered, error, off>>

\* overflow: the latest changes (and perhaps one being made) are lost, and
\* this is signalled
Overflow ==
    /\ made' \in {made, made + 1} /\ made' <= Len(Changes)
    /\ \E k \in 0..Len(pending) : pending' = SubSeq(pending, 1, k)
    /\ error' = TRUE
    /\ UNCHANGED <<delivered, off>>

\* the oldest pending change is reported, or dropped if it is not reportable
Deliver ==
    /\ pending # <<>>
    /\ delivered' = IF Reportable(Changes[Head(pending)])
                    THEN Append(delivered, Head(pending)) ELSE delivered
    /\ pending' = Tail(pending)
    /\ UNCHANGED <<made, error, off>>

\* the sync answers the overflow signal with a rescan
Rescan ==
    /\ error /\ error' = FALSE
    /\ UNCHANGED <<made, pending, delivered, off>>

\* the subscription is closed; what it had not reported may be dropped
Close ==
    /\ off' = TRUE
    /\ \E k \in 0..Len(pending) : pending' = SubSeq(pending, 1, k)
    /\ UNCHANGED <<made, delivered, error>>

Next == Change \/ Overflow \/ Deliver \/ Rescan \/ Close

Spec == Init /\ [][Next]_vars

====
