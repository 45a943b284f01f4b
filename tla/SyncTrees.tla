----------------------------- MODULE SyncTrees -----------------------------
(***************************************************************************)
(* The two trees of the sync core and the links between them:              *)
(*   - the remote Node tree (src/src/node.cpp, class Node): nodes arrive    *)
(*     from the service in any order and are linked to their parent at      *)
(*     once or after the batch (deferred linkage); they are moved by        *)
(*     setparent() and destroyed by ~Node();                                *)
(*   - the local LocalNode tree (class LocalNode): created by init(),       *)
(*     moved by setnameparent(), destroyed recursively by ~LocalNode(),     *)
(*     with the fsid index (setfsid) and the Node<->LocalNode back          *)
(*     pointers (setnode).                                                  *)
(* The sync GET transfers anchored on nodes (Node::syncget), the           *)
(* SyncDebris queue (todebris) and the rename requests a local move         *)
(* issues are kept as far as these operations touch them.                   *)
(***************************************************************************)
EXTENDS Naturals, Sequences, FiniteSets

CONSTANTS
    Handles,        \* remote node handles
    ServerParent,   \* parent handle each node record carries on delivery
    Files,          \* the handles that are file nodes
    SyncRootNode,   \* remote folder the sync is anchored on
    DebrisNode,     \* //bin/SyncDebris/yyyy-mm-dd folder
    LocalIds,       \* LocalNode objects (addresses; reused after delete)
    LFolders,       \* the LocalNode objects that are folders
    LocalRoot,      \* the sync's root LocalNode
    Fsids,          \* filesystem object identities
    NoNode,         \* NULL Node* and UNDEF handle
    NoLocal,        \* NULL LocalNode*
    NoFsid,         \* fsid field of a LocalNode that never had one
    MaxRenames      \* bound on rename requests in flight

ASSUME ServerParent \in [Handles -> Handles \cup {NoNode}]
ASSUME {SyncRootNode, DebrisNode} \subseteq Handles \ Files
ASSUME LocalRoot \in LFolders /\ LFolders \subseteq LocalIds
ASSUME MaxRenames \in Nat \ {0}

SyncStates == {"none", "initialscan", "active", "failed", "canceled"}

VARIABLES
    nodes,      \* client->nodes: handles with a live Node
    delivered,  \* handles whose record has been read (handles never return)
    srvparent,  \* history: the parent the service currently has for a node
    parent,     \* Node::parent
    children,   \* Node::children
    dp,         \* node_vector of nodes awaiting parent linkage
    reading,    \* a readnodes() batch is being ingested
    removed,    \* nodes marked removed by a deletion, awaiting purge
    syncget,    \* nodes with a live Node::syncget (sync download)
    localnode,  \* Node::localnode
    todebris,   \* client->todebris
    renames,    \* client->rename() requests in flight, in order
    lnodes,     \* live LocalNode objects
    lparent,    \* LocalNode::parent
    lnode,      \* LocalNode::node
    deleted,    \* LocalNode::deleted
    fsid,       \* LocalNode::fsid
    fsidvalid,  \* LocalNode::fsid_it != fsidnode.end()
    fsidnode,   \* client->fsidnode
    syncstate,  \* Sync::state
    written     \* nodes whose sync download has written its local file

remoteVars == <<nodes, delivered, srvparent, parent, children, dp, reading,
                removed, syncget, localnode, todebris, renames>>
localVars == <<lnodes, lparent, lnode, deleted, fsid, fsidvalid, fsidnode,
               syncstate, written>>
vars == <<remoteVars, localVars>>

-----------------------------------------------------------------------------
(* Tree helpers                                                            *)

\* the node and its ancestors, following Node::parent (the walk of
\* Node::isbelow and of setparent's "is the new location synced" loop)
RECURSIVE AncestorsOrSelf(_)
AncestorsOrSelf(h) ==
    IF h = NoNode THEN {} ELSE {h} \cup AncestorsOrSelf(parent[h])

\* proctree(): the node and everything reachable through children
RECURSIVE SubtreeOf(_)
SubtreeOf(h) == {h} \cup UNION {SubtreeOf(c) : c \in children[h]}

\* setparent's loop: some node on the way up has a LocalNode
Synced(p) == \E a \in AncestorsOrSelf(p) : localnode[a] # NoLocal

RECURSIVE LAncestorsOrSelf(_)
LAncestorsOrSelf(l) ==
    IF l = NoLocal THEN {} ELSE {l} \cup LAncestorsOrSelf(lparent[l])

LSubtreeOf(l) == {x \in lnodes : l \in LAncestorsOrSelf(x)}

Idle == ~reading /\ removed = {}

-----------------------------------------------------------------------------
TypeOK ==
    /\ nodes \subseteq delivered /\ delivered \subseteq Handles
    /\ srvparent \in [Handles -> Handles \cup {NoNode}]
    /\ parent \in [Handles -> Handles \cup {NoNode}]
    /\ children \in [Handles -> SUBSET Handles]
    /\ dp \subseteq nodes /\ removed \subseteq nodes
    /\ reading \in BOOLEAN
    /\ syncget \subseteq Files
    /\ localnode \in [Handles -> LocalIds \cup {NoLocal}]
    /\ todebris \subseteq Handles
    /\ renames \in Seq(Handles \X (Handles \cup {NoNode}))
    /\ lnodes \subseteq LocalIds
    /\ lparent \in [LocalIds -> LocalIds \cup {NoLocal}]
    /\ lnode \in [LocalIds -> Handles \cup {NoNode}]
    /\ deleted \in [LocalIds -> BOOLEAN]
    /\ fsid \in [LocalIds -> Fsids \cup {NoFsid}]
    /\ fsidvalid \in [LocalIds -> BOOLEAN]
    /\ fsidnode \in [Fsids -> LocalIds \cup {NoLocal}]
    /\ syncstate \in SyncStates
    /\ written \subseteq Files

Init ==
    /\ nodes = {} /\ delivered = {}
    /\ srvparent = ServerParent
    /\ parent = [h \in Handles |-> NoNode]
    /\ children = [h \in Handles |-> {}]
    /\ dp = {} /\ reading = FALSE /\ removed = {}
    /\ syncget = {}
    /\ localnode = [h \in Handles |-> NoLocal]
    /\ todebris = {} /\ renames = <<>>
    /\ lnodes = {}
    /\ lparent = [l \in LocalIds |-> NoLocal]
    /\ lnode = [l \in LocalIds |-> NoNode]
    /\ deleted = [l \in LocalIds |-> FALSE]
    /\ fsid = [l \in LocalIds |-> NoFsid]
    /\ fsidvalid = [l \in LocalIds |-> FALSE]
    /\ fsidnode = [f \in Fsids |-> NoLocal]
    /\ syncstate = "none"
    /\ written = {}

-----------------------------------------------------------------------------
(* Remote tree: Node constructor, setparent, ~Node                         *)

\* fault variant of setparent: the node is not erased from the old
\* parent's children list
SetParentKeepOld(h, p) ==
    \/ /\ p = parent[h]
       /\ UNCHANGED <<parent, children, syncget>>
    \/ /\ p # parent[h]
       /\ parent' = [parent EXCEPT ![h] = p]
       /\ children' = [children EXCEPT ![p] = @ \cup {h}]
       /\ UNCHANGED syncget

\* Node::setparent(p): relink the node under p; unless the node is the root
\* of a sync being moved, cancel the sync GETs of its subtree when no node
\* from p upwards has a LocalNode (the new location is not synced)
SetParent(h, p) ==
    \/ /\ p = parent[h]
       /\ UNCHANGED <<parent, children, syncget>>
    \/ /\ p # parent[h]
       /\ parent' = [parent EXCEPT ![h] = p]
       /\ children' = [x \in Handles |->
                         IF x = p THEN children[x] \cup {h}
                         ELSE IF x = parent[h] THEN children[x] \ {h}
                         ELSE children[x]]
       /\ syncget' =
            IF /\ localnode[h] = NoLocal \/ lparent[localnode[h]] # NoLocal
               /\ ~Synced(p)
            THEN syncget \ SubtreeOf(h)
            ELSE syncget

\* the service still has a record to send: one whose parent it has not
\* deleted (a deleted folder's subtree is never sent)
Deliverable(h) ==
    /\ h \in Handles \ delivered
    /\ srvparent[h] \notin delivered \ nodes

\* readnodes() starts ingesting a batch of node records
BeginRead ==
    /\ Idle
    /\ \E h \in Handles : Deliverable(h)
    /\ reading' = TRUE
    /\ UNCHANGED <<nodes, delivered, srvparent, parent, children, dp, removed,
                   syncget, localnode, todebris, renames, localVars>>

\* fault variant of Node::Node(): a node whose parent is unknown is not
\* queued for linkage after the batch
DeliverNoQueue(h) ==
    /\ reading
    /\ Deliverable(h)
    /\ nodes' = nodes \cup {h}
    /\ delivered' = delivered \cup {h}
    /\ \/ /\ srvparent[h] \in nodes
          /\ SetParent(h, srvparent[h])
       \/ /\ srvparent[h] \notin nodes
          /\ UNCHANGED <<parent, children, syncget>>
    /\ UNCHANGED <<dp, srvparent, reading, removed, localnode, todebris,
                   renames, localVars>>

\* Node::Node(): register the node; link it to its parent at once if the
\* parent is known, else queue it in dp for linkage after the batch
Deliver(h) ==
    /\ reading
    /\ Deliverable(h)
    /\ nodes' = nodes \cup {h}
    /\ delivered' = delivered \cup {h}
    /\ \/ /\ srvparent[h] \in nodes
          /\ SetParent(h, srvparent[h])
          /\ UNCHANGED dp
       \/ /\ srvparent[h] \notin nodes
          /\ dp' = dp \cup {h}
          /\ UNCHANGED <<parent, children, syncget>>
    /\ UNCHANGED <<srvparent, reading, removed, localnode, todebris, renames,
                   localVars>>

\* end of readnodes(): every node in dp whose parent has now arrived is
\* linked by setparent (fresh nodes: no GET to cancel); the service closes
\* a batch only when every parent it names is known or is no node at all
EndRead ==
    LET link == {d \in dp : srvparent[d] \in nodes}
    IN /\ reading
       /\ \A d \in dp : srvparent[d] \in nodes \cup {NoNode}
       /\ parent' = [x \in Handles |->
                       IF x \in link THEN srvparent[x] ELSE parent[x]]
       /\ children' = [x \in Handles |->
                         children[x] \cup {d \in link : srvparent[d] = x}]
       /\ dp' = {}
       /\ reading' = FALSE
       /\ UNCHANGED <<nodes, delivered, srvparent, removed, syncget,
                      localnode, todebris, renames, localVars>>

\* a move the service reports (another client, or sc_updatenode): setparent
MoveAllowed(h, p) ==
    /\ h \in nodes \ {DebrisNode} /\ p \in nodes \ Files
    /\ srvparent[h] # NoNode
    /\ p \notin SubtreeOf(h)

ServerMove(h, p) ==
    /\ Idle
    /\ MoveAllowed(h, p)
    /\ p # srvparent[h]
    /\ srvparent' = [srvparent EXCEPT ![h] = p]
    /\ SetParent(h, p)
    /\ UNCHANGED <<nodes, delivered, dp, reading, removed, localnode,
                   todebris, renames, localVars>>

\* the service executes the oldest rename request: the node is moved by
\* setparent, or the request is refused when the move is not possible
ApplyRename ==
    LET h == Head(renames)[1]
        p == Head(renames)[2]
    IN /\ Idle
       /\ renames # <<>>
       /\ renames' = Tail(renames)
       /\ \/ /\ MoveAllowed(h, p)
             /\ srvparent' = [srvparent EXCEPT ![h] = p]
             /\ SetParent(h, p)
          \/ /\ ~MoveAllowed(h, p)
             /\ UNCHANGED <<srvparent, parent, children, syncget>>
       /\ UNCHANGED <<nodes, delivered, dp, reading, removed, localnode,
                      todebris, localVars>>

\* deletion notification: the subtree is marked removed, then purged
ServerDelete(h) ==
    /\ Idle
    /\ h \in nodes \ {DebrisNode} /\ srvparent[h] # NoNode
    /\ removed' = SubtreeOf(h)
    /\ UNCHANGED <<nodes, delivered, srvparent, parent, children, dp, reading,
                   syncget, localnode, todebris, renames, localVars>>

\* fault variants of ~Node(): the purge mark is not cleared; the LocalNode
\* keeps its pointer to the destroyed node
DestroyKeepRemoved(h) ==
    /\ h \in removed
    /\ nodes' = nodes \ {h}
    /\ UNCHANGED <<removed, delivered, srvparent, parent, children, dp,
                   reading, syncget, localnode, todebris, renames, localVars>>

DestroyKeepLNode(h) ==
    /\ h \in removed
    /\ nodes' = nodes \ {h}
    /\ removed' = removed \ {h}
    /\ todebris' = todebris \ {h}
    /\ syncget' = syncget \ {h}
    /\ parent' = [x \in Handles |->
                    IF x = h \/ x \in children[h] THEN NoNode ELSE parent[x]]
    /\ children' = [x \in Handles |->
                      IF x = h THEN {}
                      ELSE IF x = parent[h] THEN children[x] \ {h}
                      ELSE children[x]]
    /\ localnode' = [localnode EXCEPT ![h] = NoLocal]
    /\ UNCHANGED <<delivered, srvparent, dp, reading, renames, localVars>>

\* Node::~Node(), for the removed nodes in whatever order they are purged:
\* leave todebris, leave the parent's children, orphan the children, mark
\* the LocalNode deleted and unbind it, abort the sync GET
Destroy(h) ==
    LET l == localnode[h]
    IN /\ h \in removed
       /\ nodes' = nodes \ {h}
       /\ removed' = removed \ {h}
       /\ todebris' = todebris \ {h}
       /\ syncget' = syncget \ {h}
       /\ parent' = [x \in Handles |->
                       IF x = h \/ x \in children[h] THEN NoNode ELSE parent[x]]
       /\ children' = [x \in Handles |->
                         IF x = h THEN {}
                         ELSE IF x = parent[h] THEN children[x] \ {h}
                         ELSE children[x]]
       /\ localnode' = [localnode EXCEPT ![h] = NoLocal]
       /\ IF l # NoLocal
          THEN /\ deleted' = [deleted EXCEPT ![l] = TRUE]
               /\ lnode' = [lnode EXCEPT ![l] = NoNode]
          ELSE UNCHANGED <<deleted, lnode>>
       /\ UNCHANGED <<delivered, srvparent, dp, reading, renames, lnodes,
                      lparent, fsid, fsidvalid, fsidnode, syncstate, written>>

-----------------------------------------------------------------------------
(* Local tree: LocalNode init, setnameparent, setfsid, setnode, ~LocalNode *)

Scanning == syncstate \in {"initialscan", "active"}

\* addsync(): the sync's root LocalNode is initialised without a parent
\* and bound to the remote folder the sync is anchored on
AddSync ==
    /\ Idle
    /\ syncstate = "none"
    /\ SyncRootNode \in nodes /\ localnode[SyncRootNode] = NoLocal
    /\ lnodes' = {LocalRoot}
    /\ lnode' = [lnode EXCEPT ![LocalRoot] = SyncRootNode]
    /\ localnode' = [localnode EXCEPT ![SyncRootNode] = LocalRoot]
    /\ syncstate' = "initialscan"
    /\ UNCHANGED <<nodes, delivered, srvparent, parent, children, dp, reading,
                   removed, syncget, todebris, renames, lparent, deleted, fsid,
                   fsidvalid, fsidnode, written>>

\* the initial full scan has completed
ScanDone ==
    /\ syncstate = "initialscan"
    /\ syncstate' = "active"
    /\ UNCHANGED <<remoteVars, lnodes, lparent, lnode, deleted, fsid,
                   fsidvalid, fsidnode, written>>

\* LocalNode::init() for a newly found entry under folder lp: no node, not
\* deleted, no valid fsid; setnameparent(lp, path) links it (a new node,
\* so no rename is issued)
LocalInit(l, lp) ==
    /\ Idle /\ Scanning
    /\ l \in LocalIds \ (lnodes \cup {LocalRoot})
    /\ lp \in lnodes \cap LFolders
    /\ lnodes' = lnodes \cup {l}
    /\ lparent' = [lparent EXCEPT ![l] = lp]
    /\ lnode' = [lnode EXCEPT ![l] = NoNode]
    /\ deleted' = [deleted EXCEPT ![l] = FALSE]
    /\ fsidvalid' = [fsidvalid EXCEPT ![l] = FALSE]
    /\ UNCHANGED <<remoteVars, fsid, fsidnode, syncstate, written>>

\* setnameparent(np, path) for an entry moved to folder np: relink it and,
\* if it has a node, ask the service to move the node under np's node
\* (the code asserts that np has one)
LocalMove(l, np) ==
    /\ Idle /\ Scanning
    /\ l \in lnodes \ {LocalRoot}
    /\ np \in (lnodes \cap LFolders) \ LSubtreeOf(l)
    /\ np # lparent[l]
    /\ Len(renames) < MaxRenames
    /\ lparent' = [lparent EXCEPT ![l] = np]
    /\ renames' = IF lnode[l] # NoNode
                  THEN Append(renames, <<lnode[l], lnode[np]>>)
                  ELSE renames
    /\ UNCHANGED <<nodes, delivered, srvparent, parent, children, dp, reading,
                   removed, syncget, localnode, todebris, lnodes, lnode,
                   deleted, fsid, fsidvalid, fsidnode, syncstate, written>>

\* fault variant of setfsid: the previous holder keeps its claim
SetFsidNoRevoke(l, f) ==
    /\ Idle /\ Scanning
    /\ l \in lnodes
    /\ ~(fsidvalid[l] /\ fsid[l] = f)
    /\ fsidnode' = [IF fsidvalid[l] THEN [fsidnode EXCEPT ![fsid[l]] = NoLocal]
                    ELSE fsidnode EXCEPT ![f] = l]
    /\ fsidvalid' = [fsidvalid EXCEPT ![l] = TRUE]
    /\ fsid' = [fsid EXCEPT ![l] = f]
    /\ UNCHANGED <<remoteVars, lnodes, lparent, lnode, deleted, syncstate,
                   written>>

\* LocalNode::setfsid(): keep an unchanged fsid; else drop the node's own
\* index entry, enter the new one and revoke the claim of a previous holder
SetFsid(l, f) ==
    /\ Idle /\ Scanning
    /\ l \in lnodes
    /\ ~(fsidvalid[l] /\ fsid[l] = f)
    /\ LET idx == IF fsidvalid[l]
                  THEN [fsidnode EXCEPT ![fsid[l]] = NoLocal]
                  ELSE fsidnode
           holder == idx[f]
       IN /\ fsidnode' = [idx EXCEPT ![f] = l]
          /\ fsidvalid' = IF holder # NoLocal
                          THEN [fsidvalid EXCEPT ![l] = TRUE, ![holder] = FALSE]
                          ELSE [fsidvalid EXCEPT ![l] = TRUE]
    /\ fsid' = [fsid EXCEPT ![l] = f]
    /\ UNCHANGED <<remoteVars, lnodes, lparent, lnode, deleted, syncstate, written>>

\* LocalNode::setnode(h), as syncdown/syncup call it for an entry whose
\* parent's node is h's parent and h has no LocalNode yet: release the
\* previous node's back pointer, clear deleted, bind both ways
SetNode(l, h) ==
    LET old == lnode[l]
    IN /\ Idle /\ Scanning
       /\ l \in lnodes \ {LocalRoot}
       /\ h \in nodes /\ localnode[h] = NoLocal
       /\ parent[h] # NoNode /\ parent[h] = lnode[lparent[l]]
       /\ (h \in Files) = (l \notin LFolders)
       /\ localnode' =
            IF old # NoNode /\ old # h /\ localnode[old] # NoLocal
            THEN [localnode EXCEPT ![old] = NoLocal, ![h] = l]
            ELSE [localnode EXCEPT ![h] = l]
       /\ deleted' = [deleted EXCEPT ![l] = FALSE]
       /\ lnode' = [lnode EXCEPT ![l] = h]
       /\ UNCHANGED <<nodes, delivered, srvparent, parent, children, dp,
                      reading, removed, syncget, todebris, renames, lnodes,
                      lparent, fsid, fsidvalid, fsidnode, syncstate, written>>

\* ~LocalNode() of every LocalNode in S (the destructor recurses into the
\* children): drop index entries, unlink, and for each bound node either
\* release it (sync failed or cancelled) or hand it to movetosyncdebris(),
\* which unbinds it and queues it in todebris
DestroyLocals(S, st) ==
    LET bound == {lnode[x] : x \in S} \ {NoNode}
    IN /\ lnodes' = lnodes \ S
       /\ lparent' = [x \in LocalIds |-> IF x \in S THEN NoLocal ELSE lparent[x]]
       /\ lnode' = [x \in LocalIds |-> IF x \in S THEN NoNode ELSE lnode[x]]
       /\ deleted' = [x \in LocalIds |-> IF x \in S THEN FALSE ELSE deleted[x]]
       /\ fsid' = [x \in LocalIds |-> IF x \in S THEN NoFsid ELSE fsid[x]]
       /\ fsidvalid' = [x \in LocalIds |-> IF x \in S THEN FALSE ELSE fsidvalid[x]]
       /\ fsidnode' = [f \in Fsids |->
                         IF \E x \in S : fsidvalid[x] /\ fsid[x] = f
                         THEN NoLocal ELSE fsidnode[f]]
       /\ localnode' = [h \in Handles |->
                          IF h \in bound THEN NoLocal ELSE localnode[h]]
       /\ todebris' = IF st \in {"failed", "canceled"}
                      THEN todebris
                      ELSE todebris \cup bound

\* the sync deletes the LocalNode of an entry that vanished locally (or
\* whose node was deleted remotely)
LocalDelete(l) ==
    /\ Idle /\ Scanning
    /\ l \in lnodes \ {LocalRoot}
    /\ DestroyLocals(LSubtreeOf(l), syncstate)
    /\ UNCHANGED <<nodes, delivered, srvparent, parent, children, dp, reading,
                   removed, syncget, renames, syncstate, written>>

-----------------------------------------------------------------------------
(* Sync GETs, SyncDebris and the sync's lifecycle                          *)

\* syncdown() recurses from the sync root only into folders whose node is
\* still a child of their parent folder's node ("properly linked")
RECURSIVE ProperlyLinked(_)
ProperlyLinked(l) ==
    /\ lnode[l] # NoNode
    /\ IF l = LocalRoot THEN TRUE
       ELSE /\ parent[lnode[l]] # NoNode
            /\ localnode[parent[lnode[l]]] = lparent[l]
            /\ ProperlyLinked(lparent[l])

\* syncdown() starts downloading a remote file that has no LocalNode and
\* lies in the node of a properly linked folder
SyncGetStart(h) ==
    /\ Idle /\ syncstate = "active"
    /\ h \in nodes \cap Files
    /\ h \notin syncget
    /\ localnode[h] = NoLocal
    /\ \E lp \in lnodes \cap LFolders :
          ProperlyLinked(lp) /\ h \in children[lnode[lp]]
    /\ syncget' = syncget \cup {h}
    /\ UNCHANGED <<nodes, delivered, srvparent, parent, children, dp, reading,
                   removed, localnode, todebris, renames, localVars>>

\* the download completes and writes the file into its local folder
SyncGetDone(h) ==
    /\ Idle
    /\ h \in syncget
    /\ syncget' = syncget \ {h}
    /\ written' = written \cup {h}
    /\ UNCHANGED <<nodes, delivered, srvparent, parent, children, dp, reading,
                   removed, localnode, todebris, renames, lnodes, lparent,
                   lnode, deleted, fsid, fsidvalid, fsidnode, syncstate>>

\* execmovetosyncdebris(): ask the service to move a queued node into the
\* dated SyncDebris folder
ExecDebris(h) ==
    /\ Idle
    /\ h \in todebris
    /\ Len(renames) < MaxRenames
    /\ todebris' = todebris \ {h}
    /\ renames' = Append(renames, <<h, DebrisNode>>)
    /\ UNCHANGED <<nodes, delivered, srvparent, parent, children, dp, reading,
                   removed, syncget, localnode, localVars>>

\* an unrecoverable filesystem error fails the sync
SyncFail ==
    /\ Idle /\ Scanning
    /\ syncstate' = "failed"
    /\ UNCHANGED <<remoteVars, lnodes, lparent, lnode, deleted, fsid,
                   fsidvalid, fsidnode, written>>

\* delsync(): the sync is cancelled, the GETs under its root node are
\* stopped, and the LocalNode tree is destroyed without moving anything to
\* SyncDebris (state < SYNC_INITIALSCAN)
SyncCancel ==
    /\ Idle
    /\ syncstate \in {"initialscan", "active", "failed"}
    /\ syncstate' = "canceled"
    /\ syncget' = IF lnode[LocalRoot] # NoNode
                  THEN syncget \ SubtreeOf(lnode[LocalRoot])
                  ELSE syncget
    /\ DestroyLocals(lnodes, "canceled")
    /\ UNCHANGED <<nodes, delivered, srvparent, parent, children, dp, reading,
                   removed, renames, written>>

-----------------------------------------------------------------------------
Next ==
    \/ BeginRead \/ EndRead
    \/ \E h \in Handles : Deliver(h) \/ ServerDelete(h) \/ Destroy(h)
    \/ \E h \in Handles, p \in Handles : ServerMove(h, p)
    \/ ApplyRename
    \/ AddSync \/ ScanDone \/ SyncFail \/ SyncCancel
    \/ \E l \in LocalIds :
          \/ LocalDelete(l)
          \/ \E lp \in LocalIds : LocalInit(l, lp) \/ LocalMove(l, lp)
          \/ \E f \in Fsids : SetFsid(l, f)
          \/ \E h \in Handles : SetNode(l, h)
    \/ \E h \in Handles : SyncGetStart(h) \/ SyncGetDone(h) \/ ExecDebris(h)

Spec == Init /\ [][Next]_vars

-----------------------------------------------------------------------------
(* Properties                                                              *)

\* Node::parent and Node::children describe the same tree, and neither
\* points at a destroyed Node, whatever order ~Node() purges a subtree in
\* (it orphans surviving children and leaves its parent's list).
ParentChildConsistent ==
    \A x \in nodes :
        /\ parent[x] \in nodes \cup {NoNode}
        /\ children[x] \subseteq nodes
        /\ \A c \in children[x] : parent[c] = x
        /\ parent[x] # NoNode => x \in children[parent[x]]

\* Whatever order the node records of a batch arrive in, once readnodes()
\* has finished and no purge is running, every node is linked exactly to
\* the parent the service has for it (and to none if that is not here).
LinkageMatchesServer ==
    Idle =>
        \A h \in nodes :
            parent[h] = IF srvparent[h] \in nodes THEN srvparent[h] ELSE NoNode

\* Node::localnode and LocalNode::node are mutual and never dangle: setnode,
\* ~Node and ~LocalNode each keep the other side's pointer in step.
BindingSymmetric ==
    /\ \A l \in lnodes :
          lnode[l] # NoNode => lnode[l] \in nodes /\ localnode[lnode[l]] = l
    /\ \A h \in nodes :
          localnode[h] # NoLocal => localnode[h] \in lnodes /\ lnode[localnode[h]] = h

\* The fsid index is exact: each entry names a live LocalNode that holds
\* that fsid with a valid claim, and each valid claim is the entry; so no
\* two LocalNodes claim one fsid, even after setfsid revoked a holder that
\* is later destroyed.
FsidIndexExact ==
    /\ \A f \in Fsids :
          fsidnode[f] # NoLocal =>
              /\ fsidnode[f] \in lnodes
              /\ fsidvalid[fsidnode[f]]
              /\ fsid[fsidnode[f]] = f
    /\ \A l \in lnodes : fsidvalid[l] => fsidnode[fsid[l]] = l

\* What the design promises for Node::setparent() and delsync(): a node
\* that leaves the subtree covered by the sync has its content fetch
\* cancelled, so a sync download only ever writes its file while the sync
\* exists and for a node still below the sync's root node.
DownloadsStayInSync ==
    [][\A h \in Files :
         SyncGetDone(h) =>
            /\ syncstate \in {"initialscan", "active", "failed"}
            /\ SyncRootNode \in AncestorsOrSelf(h)]_vars

\* setnameparent() asserts that the new parent of a moved entry has a node:
\* no rename request is ever issued with no target folder.
RenameTargetBound ==
    \A i \in 1..Len(renames) : renames[i][2] # NoNode

====
