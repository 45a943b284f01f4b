------------------------------ MODULE NodeKeys ------------------------------
(***************************************************************************)
(* Node keys, attributes and the client's fingerprint index (node.cpp).    *)
(* A node read back from the state cache (Node::unserialize, after the     *)
(* record has been decoded as NodeRecords models) gets its key at once and *)
(* is filed in client->fingerprints. A node delivered by the service       *)
(* carries a keystring and an encrypted attribute string: applykey()      *)
(* picks the key from the keystring (a personal key, or the first entry   *)
(* of a compound key that is for me or for a share whose key we hold),    *)
(* setkey() installs it, setattr() decrypts the attributes and            *)
(* setfingerprint() re-files the node. ~Node() removes it from the index. *)
(*                                                                         *)
(* The index is a std::multiset: it is a bag of <<node, fingerprint>>     *)
(* entries and Node::fingerprint_it is the entry of the node, End when it *)
(* has none. A fingerprint is the 'c' attribute when the attributes have  *)
(* one, else it is derived from the key and the client timestamp ("key"). *)
(* Modelled from the spec, as their code is not under src/: the delivery  *)
(* of nodes and of share keys, and the attribute updates that set a new   *)
(* attribute string and call setattr(). MegaClient::decryptkey is given   *)
(* by the entry (ok: whether it decrypts); the client is logged in.       *)
(***************************************************************************)
EXTENDS NodeRecords, BagsExt

CONSTANTS
    Me,             \* the logged-in user's handle (client->me)
    Cached,         \* the handle of the node in the state cache record
    ShareRoot,      \* a folder node that is the root of an inbound share
    FreshFile,      \* a file node the service delivers
    Keystrings,     \* keystrings the service may send for FreshFile
    AttrStrings,    \* attribute strings: "bad", "noc" or a 'c' value
    CVals,          \* values of the 'c' (fingerprint) attribute
    NoColon,        \* holder of a personal key (a keystring without ':')
    NoC, NoAttr, NoFp, End

KNodes == {Cached, ShareRoot, FreshFile}

VARIABLES
    knode,      \* the key and attribute state of each Node
    index       \* client->fingerprints

keyvars == <<knode, index>>
allvars == <<vars, keyvars>>

Absent == [alive |-> FALSE, born |-> FALSE, type |-> FILENODE, keystr |-> <<>>,
           key |-> FALSE, attrstr |-> NoAttr, c |-> NoC, attrsread |-> FALSE,
           fp |-> NoFp, it |-> End, sharekey |-> FALSE]

\* the fingerprint setfingerprint() gives a node with attributes c
FpOf(c) == IF c \in CVals THEN c ELSE "key"

\* mutant: the old entry is not erased before the node is re-filed
setfingerprintNoErase(n, nd, idx) ==
    IF nd.type = FILENODE /\ nd.key
    THEN [node |-> [nd EXCEPT !.fp = FpOf(nd.c), !.it = <<n, FpOf(nd.c)>>],
          index |-> BagAdd(idx, <<n, FpOf(nd.c)>>)]
    ELSE [node |-> nd, index |-> idx]

\* Node::setfingerprint: a file node with a key leaves the index, takes
\* its fingerprint from the 'c' attribute or its key, and is filed again
setfingerprint(n, nd, idx) ==
    IF nd.type = FILENODE /\ nd.key
    THEN LET idx1 == IF nd.it # End THEN BagRemove(idx, nd.it) ELSE idx
         IN [node |-> [nd EXCEPT !.fp = FpOf(nd.c), !.it = <<n, FpOf(nd.c)>>],
             index |-> BagAdd(idx1, <<n, FpOf(nd.c)>>)]
    ELSE [node |-> nd, index |-> idx]

\* Node::setattr: when there is an attribute string that decryptattr()
\* accepts (a key is set and the magic prefix matches), its attributes are
\* stored over the old ones (a 'c' stays unless replaced), the node is
\* re-filed and the string cleared; otherwise nothing changes
setattr(n, nd, idx) ==
    IF nd.attrstr # NoAttr /\ nd.key /\ nd.attrstr # "bad"
    THEN setfingerprint(n, [nd EXCEPT !.c = IF nd.attrstr \in CVals THEN nd.attrstr ELSE @,
                                      !.attrsread = TRUE, !.attrstr = NoAttr], idx)
    ELSE [node |-> nd, index |-> idx]

\* Node::setkey(newkey): install the key, then setattr()
setkey(n, nd, idx) == setattr(n, [nd EXCEPT !.key = TRUE], idx)

\* the entry of a compound key applykey() may use: one for me, or one for a
\* share node we have with its share key; entries for other users are skipped
Suitable(e) ==
    \/ e.holder = Me
    \/ /\ e.holder \in KNodes
       /\ knode[e.holder].alive /\ knode[e.holder].sharekey

\* the entry applykey() decrypts: the whole keystring when it has no ':',
\* else the first suitable entry; none when no entry is suitable
Chosen(ks) ==
    IF ks[1].holder = NoColon THEN {ks[1]}
    ELSE LET cand == {i \in DOMAIN ks : Suitable(ks[i])}
         IN IF cand = {} THEN {} ELSE {ks[Min(cand)]}

Apply(n, r) == knode' = [knode EXCEPT ![n] = r.node] /\ index' = r.index

KeysInit == knode = [n \in KNodes |-> Absent] /\ index = EmptyBag

-----------------------------------------------------------------------------
(* Operations, once the state cache has been read                          *)

\* Node::unserialize after a decoded record: new Node() registers it (even
\* when the record is rejected afterwards), setkey(k) for a file or folder
\* (no attribute string yet), attrs.unserialize, then setfingerprint()
LoadCached ==
    /\ loaded /\ obj \in NodeObjs /\ out.reg /\ ~knode[Cached].born
    /\ \E c \in CVals \cup {NoC} :
          LET nd == [Absent EXCEPT !.alive = TRUE, !.born = TRUE, !.type = out.node.type,
                                   !.key = out.node.type \in {FILENODE, FOLDERNODE},
                                   !.c = c, !.attrsread = TRUE]
          IN Apply(Cached, setfingerprint(Cached, nd, index))
    /\ UNCHANGED vars

\* the service delivers a node with its keystring and attribute string;
\* the Node constructor sets fingerprint_it to the end of the index
Deliver(n, t, ks, a) ==
    /\ loaded /\ ~knode[n].born
    /\ knode' = [knode EXCEPT ![n] = [Absent EXCEPT !.alive = TRUE, !.born = TRUE,
                                      !.type = t, !.keystr = ks, !.attrstr = a]]
    /\ UNCHANGED <<vars, index>>

\* Node::applykey: decryptkey() with the chosen entry succeeds, the
\* keystring is cleared and setkey() runs. When no entry is suitable, or
\* decryptkey() fails, nothing changes.
ApplyKey(n) ==
    /\ knode[n].alive /\ knode[n].keystr # <<>>
    /\ \E e \in Chosen(knode[n].keystr) : e.ok
    /\ Apply(n, setkey(n, [knode[n] EXCEPT !.keystr = <<>>], index))
    /\ UNCHANGED vars

\* an inbound share's key arrives for its root node
ShareKeyArrives ==
    /\ knode[ShareRoot].alive /\ ~knode[ShareRoot].sharekey
    /\ knode' = [knode EXCEPT ![ShareRoot].sharekey = TRUE]
    /\ UNCHANGED <<vars, index>>

\* the node's attributes are updated: a new attribute string, then setattr()
UpdateAttrs(n, a) ==
    /\ knode[n].alive
    /\ Apply(n, setattr(n, [knode[n] EXCEPT !.attrstr = a], index))
    /\ UNCHANGED vars

\* ~Node: a file node leaves the index; the share key is deleted
DeleteNode(n) ==
    /\ knode[n].alive
    /\ index' = IF knode[n].type = FILENODE /\ knode[n].it # End
                THEN BagRemove(index, knode[n].it) ELSE index
    /\ knode' = [knode EXCEPT ![n].alive = FALSE, ![n].sharekey = FALSE]
    /\ UNCHANGED vars

KeysNext ==
    \/ LoadCached \/ ShareKeyArrives
    \/ Deliver(ShareRoot, FOLDERNODE, << [holder |-> NoColon, ok |-> TRUE] >>, "noc")
    \/ \E ks \in Keystrings, a \in AttrStrings : Deliver(FreshFile, FILENODE, ks, a)
    \/ \E n \in KNodes : ApplyKey(n) \/ DeleteNode(n)
    \/ \E n \in KNodes, a \in AttrStrings : UpdateAttrs(n, a)

\* the state cache is written and read back, then the session goes on
SessionInit == Init /\ KeysInit

\* a step of the cache round trip
CacheStep == Next /\ UNCHANGED keyvars

KeysSpec == SessionInit /\ [][CacheStep \/ KeysNext]_allvars

-----------------------------------------------------------------------------
(* Properties                                                              *)

\* The fingerprint index holds exactly one entry for each live file node
\* whose key is set and whose attributes have been read, filed under the
\* fingerprint its current attributes give, and nothing else: however
\* cache loading, key application, attribute updates and node deletion
\* interleave, setfingerprint() erases the old entry before re-filing and
\* ~Node() erases the last one.
IndexExact ==
    index = SetToBag({<<n, FpOf(knode[n].c)>> :
                      n \in {m \in KNodes : /\ knode[m].alive /\ knode[m].type = FILENODE
                                            /\ knode[m].key /\ knode[m].attrsread}})

====
