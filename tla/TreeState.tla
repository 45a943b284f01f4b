----------------------------- MODULE TreeState ------------------------------
(***************************************************************************)
(* The sync tree state of LocalNodes (LocalNode::treestate, node.cpp) and  *)
(* the calls that drive it: a file's own state is set by the transfer      *)
(* code (prepare() sets SYNCING; completion and queueing set SYNCED and    *)
(* PENDING); treestate() then rolls the change up through the ancestors,   *)
(* each folder becoming SYNCING if a child is, else PENDING if a child is, *)
(* else SYNCED. setnameparent() and ~LocalNode() restructure the tree.     *)
(* ts is LocalNode::ts, dts the state last reported to the application.    *)
(***************************************************************************)
EXTENDS Naturals, FiniteSets

CONSTANTS
    Folders,        \* folder LocalNodes
    Files,          \* file LocalNodes
    Root,           \* the sync's root LocalNode
    Parent0,        \* initial LocalNode::parent of every LocalNode
    Bound,          \* LocalNodes that have a remote node (LocalNode::node)
    NoLocal         \* NULL LocalNode*

LNodes == Folders \cup Files

ASSUME Root \in Folders /\ Folders \cap Files = {}
ASSUME Parent0 \in [LNodes -> Folders \cup {NoLocal}]
ASSUME Bound \subseteq LNodes

\* treestate_t
NONE == "none"
SYNCED == "synced"
PENDING == "pending"
SYNCING == "syncing"
States == {NONE, SYNCED, PENDING, SYNCING}

VARIABLES
    parent,     \* LocalNode::parent
    alive,      \* LocalNodes not destroyed
    ts,         \* LocalNode::ts
    dts,        \* LocalNode::dts
    reshaped    \* history: a LocalNode has been moved or deleted

vars == <<parent, alive, ts, dts, reshaped>>

Children(p, par) == {c \in alive : par[c] = p}

RECURSIVE Subtree(_)
Subtree(l) == {l} \cup UNION {Subtree(c) : c \in Children(l, parent)}

-----------------------------------------------------------------------------
(* LocalNode::treestate(newts)                                             *)

\* mutant: the loop forgets to look for a syncing child
RollupNoSyncing(p, par, st) ==
    IF \E c \in Children(p, par) : st[c] = PENDING THEN PENDING ELSE SYNCED

\* the loop over the parent's children: SYNCING wins, then PENDING
Rollup(p, par, st) ==
    IF \E c \in Children(p, par) : st[c] = SYNCING THEN SYNCING
    ELSE IF \E c \in Children(p, par) : st[c] = PENDING THEN PENDING
    ELSE SYNCED

\* treestate(newts) on l over the tree par: set l's own state, update the
\* parent's state (to SYNCING at once, or by the loop over its children
\* when l's state changed), recurse on the parent with no new state, and
\* record the state reported; returns the new ts and dts
RECURSIVE TS(_, _, _, _, _)
TS(l, newts, par, st, dt) ==
    LET st1 == IF newts # NONE THEN [st EXCEPT ![l] = newts] ELSE st
        p   == par[l]
    IN IF p = NoLocal
       THEN [ts |-> st1, dts |-> [dt EXCEPT ![l] = st1[l]]]
       ELSE LET pts == IF st1[l] = SYNCING THEN SYNCING
                       ELSE IF newts # dt[l] /\ (st1[l] # SYNCED \/ st1[p] # SYNCED)
                       THEN Rollup(p, par, st1)
                       ELSE st1[p]
                r   == TS(p, NONE, par, [st1 EXCEPT ![p] = pts], dt)
            IN [ts |-> r.ts, dts |-> [r.dts EXCEPT ![l] = st1[l]]]

-----------------------------------------------------------------------------
TypeOK ==
    /\ parent \in [LNodes -> Folders \cup {NoLocal}]
    /\ alive \subseteq LNodes
    /\ ts \in [LNodes -> States]
    /\ dts \in [LNodes -> States]
    /\ reshaped \in BOOLEAN
    /\ \A l \in alive : parent[l] \in alive \cup {NoLocal}

Init ==
    /\ parent = Parent0
    /\ alive = LNodes
    /\ ts = [l \in LNodes |-> NONE]
    /\ dts = [l \in LNodes |-> NONE]
    /\ reshaped = FALSE

\* LocalNode::prepare(): an upload of the file starts
Prepare(l) ==
    /\ l \in alive \cap Files
    /\ LET r == TS(l, SYNCING, parent, ts, dts)
       IN ts' = r.ts /\ dts' = r.dts
    /\ UNCHANGED <<parent, alive, reshaped>>

\* the transfer code settles a file: treestate(SYNCED) when its transfer
\* completes, treestate(PENDING) while it waits to be sent
Settle(l, s) ==
    /\ l \in alive \cap Files
    /\ s \in {SYNCED, PENDING}
    /\ LET r == TS(l, s, parent, ts, dts)
       IN ts' = r.ts /\ dts' = r.dts
    /\ UNCHANGED <<parent, alive, reshaped>>

\* mutant: a move of a bound node issues no treestate(SYNCING)
MoveNoRename(l, np) ==
    LET old  == parent[l]
        par0 == [parent EXCEPT ![l] = NoLocal]
        par1 == [parent EXCEPT ![l] = np]
        r1   == TS(old, NONE, par0, ts, dts)
        r3   == TS(np, NONE, par1, r1.ts, r1.dts)
    IN /\ l \in alive \ {Root}
       /\ np \in alive \cap Folders
       /\ np # old
       /\ np \notin Subtree(l)
       /\ parent' = par1
       /\ ts' = r3.ts /\ dts' = r3.dts
       /\ UNCHANGED alive
       /\ reshaped' = TRUE

\* setnameparent(np, path) for a LocalNode moved to folder np: leave the old
\* parent's children, old parent->treestate(), relink, treestate(SYNCING)
\* when the node has a remote node (a rename is issued), np->treestate()
Move(l, np) ==
    LET old  == parent[l]
        par0 == [parent EXCEPT ![l] = NoLocal]
        par1 == [parent EXCEPT ![l] = np]
        r1   == TS(old, NONE, par0, ts, dts)
        r2   == IF l \in Bound THEN TS(l, SYNCING, par1, r1.ts, r1.dts) ELSE r1
        r3   == TS(np, NONE, par1, r2.ts, r2.dts)
    IN /\ l \in alive \ {Root}
       /\ np \in alive \cap Folders
       /\ np # old
       /\ np \notin Subtree(l)
       /\ parent' = par1
       /\ ts' = r3.ts /\ dts' = r3.dts
       /\ UNCHANGED alive
       /\ reshaped' = TRUE

\* mutant: the destructor forgets to delete the children
DeleteOnlySelf(l) ==
    /\ l \in alive \ {Root}
    /\ alive' = alive \ {l}
    /\ parent' = [parent EXCEPT ![l] = NoLocal]
    /\ UNCHANGED <<ts, dts>>
    /\ reshaped' = TRUE

\* ~LocalNode() of l and its subtree: setnameparent(NULL, NULL) only leaves
\* the parent's children
Delete(l) ==
    /\ l \in alive \ {Root}
    /\ alive' = alive \ Subtree(l)
    /\ parent' = [x \in LNodes |-> IF x \in Subtree(l) THEN NoLocal ELSE parent[x]]
    /\ UNCHANGED <<ts, dts>>
    /\ reshaped' = TRUE

\* file events on a tree that keeps its shape
NextStatic ==
    \E l \in LNodes : Prepare(l) \/ \E s \in States : Settle(l, s)

Next ==
    \/ NextStatic
    \/ \E l \in LNodes : Delete(l) \/ \E np \in Folders : Move(l, np)

Spec == Init /\ [][Next]_vars

-----------------------------------------------------------------------------
(* Properties                                                              *)

\* A folder shows SYNCING exactly when one of its children does: prepare()
\* pushes SYNCING up through every ancestor at once, and a transfer that
\* settles makes each ancestor recompute from its children, so no folder
\* keeps showing SYNCING after everything below it has settled, whatever
\* the order of the file events.
SyncingExact ==
    \A f \in alive \cap Folders :
        Children(f, parent) # {} =>
            (ts[f] = SYNCING <=> \E c \in Children(f, parent) : ts[c] = SYNCING)

\* SyncingExact holds in every state reached by file events alone: until
\* a LocalNode is moved or deleted, every order of upload starts,
\* completions and queueing leaves each folder's state exact.
SyncingExactUntilReshaped == ~reshaped => SyncingExact

\* No node that has a remote node shows SYNCING under a folder that does
\* not: treestate()'s shortcut sets a parent SYNCING whenever the child is,
\* at every level, setnameparent() issues treestate(SYNCING) after moving
\* a node that has one (a rename goes out), and a folder is recomputed from
\* all its children when one of them settles; this must survive moves of
\* syncing nodes and folders and ~LocalNode() removing part of a tree. A
\* node without a remote node gets no treestate(SYNCING) when it is moved,
\* so the claim cannot extend to it (README, finding 4); such a node is in
\* the run, so its moves interleave with those of the others.
SyncingUpwardBound ==
    \A l \in alive \cap Bound :
        ts[l] = SYNCING /\ parent[l] # NoLocal => ts[parent[l]] = SYNCING

====
