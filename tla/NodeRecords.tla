----------------------------- MODULE NodeRecords -----------------------------
(***************************************************************************)
(* The state-cache records of Node and LocalNode (node.cpp): serialize()   *)
(* writes a record, the cache may hold it damaged (its tail cut off), and  *)
(* unserialize() reads it back on the next start. A record is a sequence  *)
(* of fields <<width in bytes, value>>; the decoders read at byte offsets, *)
(* so a read that crosses the end of the record is visible. A std::string *)
(* ends with a NUL that may be read; a read beyond it is a read past the  *)
(* end, whose value is undefined and is chosen nondeterministically.      *)
(*                                                                         *)
(* Not under src/ and modelled from the spec's record shapes (section 6): *)
(* the nodetype_t values and key lengths (types.h), AttrMap::unserialize   *)
(* (it is given no end and reads until its block ends) and Serialize64,   *)
(* the compact length-prefixed timestamp encoding. Shares are left out:   *)
(* every record has a share count of 0.                                   *)
(***************************************************************************)
EXTENDS Integers, Sequences, FiniteSets, SequencesExt

CONSTANTS
    NodeObjs,       \* Node objects that may be written
    LocalObjs,      \* LocalNode objects that may be written
    Handles,        \* node handles of the account (nodebyhandle finds them)
    Cuts,           \* how many bytes a damaged record has lost at its end
    AttrLen         \* length of a serialized attribute block

\* nodetype_t and key lengths (types.h)
FILENODE == 0
FOLDERNODE == 1
MAILNODE == 5
FILENODEKEYLENGTH == 32
FOLDERNODEKEYLENGTH == 16
NODEHANDLE == 6
USERHANDLE == 8

\* UNDEF, its low NODEHANDLE bytes as a LocalNode record stores them, and
\* the zero bytes Node::serialize writes for a node without a parent
UNDEF == "undef"
UNDEF6 == "ffffffffffff"
ZERO6 == "000000000000"

\* (uint32_t) of a 64-bit time <<hi, lo>> = hi * 2^32 + lo
Trunc32(t) == <<0, t[2]>>

-----------------------------------------------------------------------------
(* Byte-level access                                                       *)

Size(d) == FoldLeft(LAMBDA acc, f : acc + f[1], 0, d)

Offset(d, i) == Size(SubSeq(d, 1, i - 1))

\* a read of w bytes at p stays within the record and its terminating NUL
InBounds(d, p, w) == p + w <= Size(d) + 1

\* the value of the field at p (the terminating NUL reads as 0)
Val(d, p) ==
    IF p = Size(d) THEN 0
    ELSE LET i == CHOOSE i \in DOMAIN d : Offset(d, i) = p IN d[i][2]

\* a field of w bytes, none when w = 0
Field(w, v) == IF w = 0 THEN <<>> ELSE << <<w, v>> >>

\* a damaged record: its last c bytes are lost, and the field they cut
\* becomes a part of a field
Cut(d, c) ==
    LET k == Size(d) - c
        n == Cardinality({i \in DOMAIN d : Offset(d, i) + d[i][1] <= k})
        whole == SubSeq(d, 1, n)
    IN IF Size(whole) = k THEN whole
       ELSE Append(whole, <<k - Size(whole), "part", "part">>)

\* the field at p is the cut part of a field
IsPart(d, p) ==
    p < Size(d) /\ Len(d[CHOOSE i \in DOMAIN d : Offset(d, i) = p]) = 3

-----------------------------------------------------------------------------
(* Node::serialize                                                         *)

\* the record is refused for an undecrypted node or a key of the wrong length
NodeSerializable(n) ==
    /\ ~n.undecrypted
    /\ n.keylen = CASE n.type = FILENODE -> FILENODEKEYLENGTH
                  []   n.type = FOLDERNODE -> FOLDERNODEKEYLENGTH
                  []   OTHER -> 0

\* ll = (short)fileattrstring.size() + 1, stored as unsigned short
AttrStrLen(n) == (n.falen + 1) % 65536

\* mutant: the size is written for every type
SizeTagNoType(x) == x.size

\* s = type ? -type : size
SizeTag(x) == IF x.type = FILENODE THEN x.size ELSE -x.type

NodeEnc(n) ==
    << <<8, SizeTag(n)>>,
       <<NODEHANDLE, n.h>>,
       <<NODEHANDLE, IF n.parent = UNDEF THEN ZERO6 ELSE n.parent>>,
       <<USERHANDLE, n.owner>>,
       <<8, n.cts>>,
       <<8, n.ctime>> >>
    \o (IF n.keylen > 0 THEN << <<n.keylen, "key">> >> ELSE <<>>)
    \o (IF n.type = FILENODE
        THEN << <<2, AttrStrLen(n)>> >> \o Field(AttrStrLen(n), <<"fa", n.falen>>)
        ELSE <<>>)
    \o [i \in 1..8 |-> <<1, 0>>]
    \o << <<2, 0>>, <<AttrLen, n.attrs>> >>

-----------------------------------------------------------------------------
(* Node::unserialize                                                       *)

\* the type tag: a negative size down to -MAILNODE is a type
NodeTypeOf(s) == IF s < 0 /\ s >= -MAILNODE THEN -s ELSE FILENODE

\* mutant: a zero parent handle is kept as it is
ParentHandleRaw(v) == v

\* a zero parent handle means none
ParentHandle(v) == IF v = ZERO6 THEN UNDEF ELSE v

\* the loop over the 8 reserved length-prefixed fields: a field that does
\* not fit is not skipped, and the loop goes on at the same place
RECURSIVE SkipReserved(_, _, _)
SkipReserved(d, p, i) ==
    IF i = 0 THEN p
    ELSE IF p + Val(d, p) < Size(d)
         THEN SkipReserved(d, p + Val(d, p) + 1, i - 1)
         ELSE SkipReserved(d, p, i - 1)

\* AttrMap::unserialize on the block at p: it reads a whole block, or runs
\* past the end of the record
AttrsEnd(d, p) ==
    IF InBounds(d, p, AttrLen) /\ ~IsPart(d, p) THEN p + AttrLen ELSE Size(d) + 2

\* mutant: the end check accepts a pointer that went past the end
AtEndOrPast(d, p) == p >= Size(d)

\* ptr == end after the attribute block
AtEnd(d, p) == p = Size(d)

Rejected(reg, oob) == [ok |-> FALSE, reg |-> reg, oob |-> oob, node |-> <<>>]

\* every outcome of unserialize: NULL or a node, whether new Node() has
\* registered it in client->nodes, whether a read went past the end
UnserializeNode(d) ==
    IF Size(d) < 8 + 2 * NODEHANDLE + USERHANDLE + 2 * 8 + 2
    THEN {Rejected(FALSE, FALSE)}
    ELSE
    LET s  == Val(d, 0)
        t  == NodeTypeOf(s)
        p1 == 8 + 2 * NODEHANDLE + USERHANDLE + 2 * 8
        kl == CASE t = FILENODE -> FILENODEKEYLENGTH
              []   t = FOLDERNODE -> FOLDERNODEKEYLENGTH
              []   OTHER -> 0
        p2 == p1 + kl
        ll == IF t = FILENODE THEN Val(d, p2) ELSE 0
        p3 == IF t = FILENODE THEN p2 + 2 ELSE p2
        p4 == p3 + ll
        p5 == SkipReserved(d, p4, 8)
        sharesOk == InBounds(d, p5, 2)
        p6 == p5 + 2
        p7 == AttrsEnd(d, p6)
        node == [type |-> t, size |-> s, h |-> Val(d, 8),
                 parent |-> ParentHandle(Val(d, 8 + NODEHANDLE)),
                 owner |-> Val(d, 8 + 2 * NODEHANDLE),
                 cts |-> Trunc32(Val(d, p1 - 16)), ctime |-> Trunc32(Val(d, p1 - 8)),
                 keylen |-> kl,
                 fa |-> IF t = FILENODE /\ ll > 0 THEN Val(d, p3) ELSE <<"fa", 0>>,
                 attrs |-> IF p7 = p6 + AttrLen THEN Val(d, p6) ELSE "junk"]
    IN IF t \in {FILENODE, FOLDERNODE} /\ p1 + kl + 8 + 2 > Size(d)
       THEN {Rejected(FALSE, FALSE)}
       ELSE IF t = FILENODE /\ (p3 + ll > Size(d) \/ Val(d, p3 + ll) # 0)
       THEN {Rejected(FALSE, FALSE)}
       ELSE \* the share count read past the end has any value
            { IF shares # 0
              THEN Rejected(FALSE, ~sharesOk)
              ELSE [ok |-> AtEnd(d, p7), reg |-> TRUE,
                    oob |-> ~sharesOk \/ p7 > Size(d), node |-> node]
            : shares \in IF ~sharesOk THEN {0, 1}
                          \* a cut share count keeps its zero low byte
                          ELSE IF IsPart(d, p5) THEN {0} ELSE {Val(d, p5)} }

-----------------------------------------------------------------------------
(* LocalNode::serialize                                                    *)

\* the bytes Serialize64::serialize uses for v: a count, then v's bytes
RECURSIVE ByteCount(_)
ByteCount(v) == IF v = 0 THEN 0 ELSE 1 + ByteCount(v \div 256)

Serialize64Len(v) == 1 + ByteCount(v)

LocalEnc(l) ==
    << <<8, SizeTag(l)>>,
       <<8, l.fsid>>,
       <<4, l.dbid>>,
       <<NODEHANDLE, IF l.node = UNDEF THEN UNDEF6 ELSE l.node>>,
       <<2, l.namelen>> >>
    \o Field(l.namelen, <<"name", l.namelen>>)
    \o (IF l.type = FILENODE
        THEN << <<16, l.crc>>, <<Serialize64Len(l.mtime), l.mtime>> >>
        ELSE <<>>)

-----------------------------------------------------------------------------
(* LocalNode::unserialize                                                  *)

\* Serialize64::unserialize(p, len): reads its count byte at p, and yields
\* the value only if the whole encoding lies within len bytes
Serialize64Read(d, p, len) ==
    IF p < Size(d) /\ ~IsPart(d, p) /\ Serialize64Len(Val(d, p)) <= len
    THEN [ok |-> TRUE, oob |-> FALSE, v |-> Val(d, p)]
    ELSE [ok |-> FALSE, oob |-> ~InBounds(d, p, 1), v |-> 0]

\* nodebyhandle(h): the node of that handle, if any
NodeByHandle(h) == IF h \in Handles THEN h ELSE UNDEF

UnserializeLocal(d) ==
    IF Size(d) < 8 + 8 + 4 + NODEHANDLE + 2
    THEN [ok |-> FALSE, oob |-> FALSE, node |-> <<>>]
    ELSE
    LET s  == Val(d, 0)
        t  == IF s < 0 /\ s >= -FOLDERNODE THEN -s ELSE FILENODE
        ll == Val(d, 26)
        p1 == 28
        p2 == p1 + ll
        m  == Serialize64Read(d, p2 + 16, Size(d) - p2 - 16)
        node == [type |-> t, size |-> IF t = FILENODE THEN s ELSE 0,
                 fsid |-> Val(d, 8), dbid |-> Val(d, 16),
                 node |-> NodeByHandle(Val(d, 20)),
                 name |-> IF ll > 0 THEN Val(d, p1) ELSE <<"name", 0>>,
                 \* memcpy(l->crc, ptr, sizeof l->crc) for every type
                 crc |-> IF t = FILENODE THEN Val(d, p2) ELSE "junk",
                 mtime |-> m.v]
    IN IF p2 > Size(d)
       THEN [ok |-> FALSE, oob |-> FALSE, node |-> <<>>]
       ELSE IF t = FILENODE /\ p2 + 16 > Size(d) + 1
       THEN [ok |-> FALSE, oob |-> FALSE, node |-> <<>>]
       ELSE IF t = FILENODE /\ ~m.ok
       THEN [ok |-> FALSE, oob |-> m.oob, node |-> <<>>]
       ELSE [ok |-> TRUE, oob |-> ~InBounds(d, p2, 16), node |-> node]

-----------------------------------------------------------------------------
(* A record's life in the state cache                                      *)

VARIABLES
    obj,        \* the Node or LocalNode written
    stored,     \* "no", "refused" (serialize() returned false), "yes"
    rec,        \* the record as the cache holds it
    cut,        \* bytes the record has lost (0: intact)
    loaded,     \* unserialize() has read the record back
    out         \* its outcome

vars == <<obj, stored, rec, cut, loaded, out>>

NoOut == [ok |-> FALSE, reg |-> FALSE, oob |-> FALSE, node |-> <<>>]

Init ==
    /\ obj \in NodeObjs \cup LocalObjs
    /\ stored = "no"
    /\ rec = <<>>
    /\ cut = 0
    /\ loaded = FALSE
    /\ out = NoOut

\* Node::serialize(d): refused for an undecrypted node or a bad key
SaveNode ==
    /\ obj \in NodeObjs /\ stored = "no"
    /\ IF NodeSerializable(obj)
       THEN stored' = "yes" /\ rec' = NodeEnc(obj)
       ELSE stored' = "refused" /\ UNCHANGED rec
    /\ UNCHANGED <<obj, cut, loaded, out>>

\* LocalNode::serialize(d)
SaveLocal ==
    /\ obj \in LocalObjs /\ stored = "no"
    /\ stored' = "yes" /\ rec' = LocalEnc(obj)
    /\ UNCHANGED <<obj, cut, loaded, out>>

\* the cache holds a record that lost its last c bytes
Damage(c) ==
    /\ stored = "yes" /\ ~loaded /\ cut = 0
    /\ c <= Size(rec)
    /\ rec' = Cut(rec, c) /\ cut' = c
    /\ UNCHANGED <<obj, stored, loaded, out>>

\* Node::unserialize(client, d, dp)
LoadNode ==
    /\ obj \in NodeObjs /\ stored = "yes" /\ ~loaded
    /\ \E r \in UnserializeNode(rec) : out' = r
    /\ loaded' = TRUE
    /\ UNCHANGED <<obj, stored, rec, cut>>

\* LocalNode::unserialize(sync, d): new LocalNode only once every check passed
LoadLocal ==
    /\ obj \in LocalObjs /\ stored = "yes" /\ ~loaded
    /\ LET r == UnserializeLocal(rec)
       IN out' = [ok |-> r.ok, reg |-> r.ok, oob |-> r.oob, node |-> r.node]
    /\ loaded' = TRUE
    /\ UNCHANGED <<obj, stored, rec, cut>>

Next ==
    \/ SaveNode \/ SaveLocal \/ LoadNode \/ LoadLocal
    \/ \E c \in Cuts : Damage(c)

Spec == Init /\ [][Next]_vars

-----------------------------------------------------------------------------
(* Properties                                                              *)

\* An intact record of a node with a resolved key reads back as that node:
\* Node::unserialize returns it with the type, handle, parent (none when
\* serialize() wrote a zero parent handle), owner, timestamps, key length,
\* file-attribute string, size of a file and attribute block that
\* Node::serialize wrote, walking the optional key and string fields and
\* the reserved length-prefixed fields at their right offsets.
NodeRoundTrip ==
    loaded /\ obj \in NodeObjs /\ cut = 0 =>
        /\ out.ok
        /\ \A f \in {"type", "h", "parent", "owner", "cts", "ctime", "keylen", "attrs"} :
               out.node[f] = obj[f]
        /\ obj.type = FILENODE =>
               out.node.size = obj.size /\ out.node.fa = <<"fa", obj.falen>>

\* An intact LocalNode record reads back as the LocalNode written: its
\* type (from the negative size tag), fsid, parent dbid, bound node
\* (none when UNDEF was written), local name, and for a file its size,
\* crc and Serialize64 mtime.
LocalNodeRoundTrip ==
    loaded /\ obj \in LocalObjs /\ cut = 0 =>
        /\ out.ok
        /\ \A f \in {"type", "fsid", "dbid", "node"} : out.node[f] = obj[f]
        /\ out.node.name = <<"name", obj.namelen>>
        /\ obj.type = FILENODE =>
               out.node.size = obj.size /\ out.node.crc = obj.crc
               /\ out.node.mtime = obj.mtime

\* A record that lost bytes at its end is never read back as a node: the
\* length checks and Node::unserialize's final ptr == end, and
\* LocalNode::unserialize's name, fingerprint and mtime checks, turn every
\* torn record into NULL.
DamagedRejected == loaded /\ cut > 0 => ~out.ok

\* Reading a record, intact or torn, never reads beyond its end (the
\* std::string's terminating NUL included): every read of both
\* unserialize() functions is guarded by a length check.
NoReadPastEnd == loaded => ~out.oob

====
