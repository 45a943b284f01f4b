------------------------------ MODULE FaFetch -------------------------------
(***************************************************************************)
(* One file attribute fetch channel (src/src/fileattributefetch.cpp).      *)
(* dispatch() posts the handles of all pending fetches of the channel's    *)
(* cluster. The response is (handle.8 / pos.4)* followed by the attribute  *)
(* data; pos is the offset of the fetch's data, and the first pos is the   *)
(* start of the data (bod). The response arrives in pieces. parse() runs   *)
(* over what has arrived (final = FALSE) and once more after the request   *)
(* has completed (final = TRUE). Each complete attribute is decrypted in   *)
(* place, handed to fa_complete() and its fetch record erased.             *)
(*                                                                         *)
(* Byte offsets are kept exactly (header size 12, cipher block 16); the    *)
(* bytes themselves are abstracted to which fetch they belong to.          *)
(***************************************************************************)
EXTENDS Naturals, Sequences, FiniteSets

CONSTANTS
    Fetches,        \* file attribute handles the application may request
    FetchOrder,     \* order of client->fafs (a map sorted by handle)
    AttrLen,        \* length of each fetch's encrypted attribute data
    MaxNetFails,    \* bound on failed HTTP requests of the channel
    NoFetch         \* a handle no fetch record has

ASSUME FetchOrder \in Seq(Fetches) /\ Len(FetchOrder) = Cardinality(Fetches)
ASSUME AttrLen \in [Fetches -> {16 * k : k \in 1..4}]
ASSUME MaxNetFails \in Nat
ASSUME NoFetch \notin Fetches

HeaderSize == 12    \* sizeof(FaPos): 8-byte handle, 4-byte position
BlockSize == 16     \* SymmCipher::BLOCKSIZE

ReqStates == {"ready", "inflight", "success"}

VARIABLES
    requested,  \* fetches the application has asked for (history)
    fafs,       \* client->fafs: fetch records still pending
    dispatched, \* the records whose dispatched flag is set
    alive,      \* fetches whose node still exists (nodebyhandle succeeds)
    status,     \* req.status of the channel's HTTP request
    order,      \* the handles the request posted, in order
    received,   \* req.in.size(): bytes of the response received so far
    completed,  \* FileAttributeFetchChannel::completed
    delivered,  \* fa_complete() calls made: [h, pos, len]
    oob,        \* parse() has read a header beyond the received bytes
    netfails    \* failed requests so far

vars == <<requested, fafs, dispatched, alive, status, order, received,
          completed, delivered, oob, netfails>>

-----------------------------------------------------------------------------
(* The response the service sends for the posted handles                   *)

Bod == HeaderSize * Len(order)

RECURSIVE DataBefore(_)
\* bytes of attribute data that precede the i-th posted fetch's data
DataBefore(i) == IF i <= 1 THEN 0 ELSE DataBefore(i - 1) + AttrLen[order[i - 1]]

\* the pos field of the i-th header
PosOf(i) == Bod + DataBefore(i)

ResponseLen == PosOf(Len(order) + 1)

\* a header starting at byte offset c lies wholly in the received bytes
HeaderIn(c, r) == c + HeaderSize <= r

\* uint32_t subtraction, as in "bod - sizeof(FaPos)": below zero it wraps
\* to a - b + 2^32, which exceeds every offset of a response; TLC's
\* integers stop at 2^31 - 1, which exceeds them just as well
USub(a, b) == IF a >= b THEN a - b ELSE 2147483647

-----------------------------------------------------------------------------
(* parse()                                                                  *)

\* the handle field of the i-th header; past the headers the bytes are
\* attribute data, which names no pending fetch
HandleAt(i) == IF i \in 1..Len(order) THEN order[i] ELSE NoFetch

\* the pos field of the i-th header (past the headers: data, read as the
\* end of the response)
PosAt(i) == IF i \in 1..Len(order) + 1 THEN PosOf(i) ELSE ResponseLen

\* fault variant of the loop: the final pass also stops one header short
RECURSIVE ParseLoopShort(_, _, _, _, _, _)
ParseLoopShort(final, r, c, F, del, bad) ==
    LET i     == c \div HeaderSize + 1
        falen == IF final THEN r ELSE PosAt(i + 1)
        h     == HandleAt(i)
        len   == falen - PosAt(i)
        stop(f, F2, del2) ==
            [c |-> c, fafs |-> F2, del |-> del2, fail |-> f, oob |-> bad]
    IN IF ~(c < USub(Bod, HeaderSize) /\ r >= falen) THEN stop(FALSE, F, del)
       ELSE IF h \notin F THEN stop(TRUE, F, del)
       ELSE IF h \notin alive
       THEN ParseLoopShort(final, r, c + HeaderSize, F, del, bad)
       ELSE IF len % BlockSize # 0 THEN stop(TRUE, F, del)
       ELSE ParseLoopShort(final, r, c + HeaderSize, F \ {h},
                           del \cup {[h |-> h, pos |-> PosAt(i), len |-> len]},
                           bad)

\* the while loop of parse(), from offset c with records F, over r received
\* bytes: the loop condition reads the next header's pos unless final,
\* the body reads the current header; returns where it stopped, what it
\* did, and whether a read went past the received bytes
RECURSIVE ParseLoop(_, _, _, _, _, _)
ParseLoop(final, r, c, F, del, bad) ==
    LET i     == c \div HeaderSize + 1
        bound == IF final THEN Bod ELSE USub(Bod, HeaderSize)
        falen == IF final THEN r ELSE PosAt(i + 1)
        badc  == bad \/ (~final /\ ~HeaderIn(c + HeaderSize, r))
        badb  == badc \/ ~HeaderIn(c, r)
        stop(f, F2, del2, b) ==
            [c |-> c, fafs |-> F2, del |-> del2, fail |-> f, oob |-> b]
    IN IF ~(c < bound) THEN stop(FALSE, F, del, bad)
       ELSE IF ~(r >= falen) THEN stop(FALSE, F, del, badc)
       ELSE LET h   == HandleAt(i)
                len == falen - PosAt(i)
            IN IF h \notin F THEN stop(TRUE, F, del, badb)
               ELSE IF h \notin alive
               THEN ParseLoop(final, r, c + HeaderSize, F, del, badb)
               ELSE IF len % BlockSize # 0 THEN stop(TRUE, F, del, badb)
               ELSE ParseLoop(final, r, c + HeaderSize, F \ {h},
                              del \cup {[h |-> h, pos |-> PosAt(i), len |-> len]},
                              badb)

\* fault variant of parse(): the check that bod bytes have arrived is missing
ParseNoBodCheck(final) ==
    IF received < HeaderSize
    THEN [c |-> completed, fafs |-> fafs, del |-> {}, fail |-> final,
          oob |-> FALSE]
    ELSE LET res == ParseLoop(final, received, completed, fafs, {}, FALSE)
         IN [res EXCEPT !.fail = @ \/ (final /\ ~@ /\ res.c # Bod)]

\* parse(client, fac, final): the length checks before the loop, the loop,
\* and the final check that every header was consumed
Parse(final) ==
    IF received < HeaderSize \/ received < Bod
    THEN [c |-> completed, fafs |-> fafs, del |-> {}, fail |-> final,
          oob |-> FALSE]
    ELSE LET res == ParseLoop(final, received, completed, fafs, {}, FALSE)
         IN [res EXCEPT !.fail = @ \/ (final /\ ~@ /\ res.c # Bod)]

\* the channel's result is applied: fetches erased, fa_complete() calls,
\* and on failure faf_failed(): every record of the cluster is reset to
\* undispatched and the request is abandoned
ApplyParse(res, nextStatus) ==
    /\ completed' = res.c
    /\ fafs' = res.fafs
    /\ delivered' = delivered \cup res.del
    /\ oob' = (oob \/ res.oob)
    /\ IF res.fail
       THEN /\ dispatched' = {}
            /\ status' = "ready"
       ELSE /\ dispatched' = dispatched \cap res.fafs
            /\ status' = nextStatus

-----------------------------------------------------------------------------
TypeOK ==
    /\ requested \subseteq Fetches
    /\ fafs \subseteq requested /\ dispatched \subseteq fafs
    /\ alive \subseteq Fetches
    /\ status \in ReqStates
    /\ order \in Seq(Fetches)
    /\ received \in 0..ResponseLen
    /\ completed \in Nat
    /\ delivered \subseteq [h : Fetches, pos : Nat, len : Nat]
    /\ oob \in BOOLEAN
    /\ netfails \in 0..MaxNetFails

Init ==
    /\ requested = {} /\ fafs = {} /\ dispatched = {}
    /\ alive = Fetches
    /\ status = "ready" /\ order = <<>>
    /\ received = 0 /\ completed = 0
    /\ delivered = {} /\ oob = FALSE
    /\ netfails = 0

\* the application asks for a file attribute (MegaClient::getfa)
Request(h) ==
    /\ h \notin requested /\ h \in alive
    /\ requested' = requested \cup {h}
    /\ fafs' = fafs \cup {h}
    /\ UNCHANGED <<dispatched, alive, status, order, received, completed,
                   delivered, oob, netfails>>

\* fault variant of dispatch(): req.in is not cleared for the new request
DispatchKeepIn ==
    /\ status = "ready"
    /\ fafs \ dispatched # {}
    /\ order' = SelectSeq(FetchOrder, LAMBDA h : h \in fafs)
    /\ dispatched' = fafs
    /\ completed' = 0
    /\ status' = "inflight"
    /\ UNCHANGED <<requested, fafs, alive, received, delivered, oob, netfails>>

\* FileAttributeFetchChannel::dispatch(): when the channel is free and a
\* record is not dispatched yet, post every record of the cluster
Dispatch ==
    /\ status = "ready"
    /\ fafs \ dispatched # {}
    /\ order' = SelectSeq(FetchOrder, LAMBDA h : h \in fafs)
    /\ dispatched' = fafs
    /\ completed' = 0
    /\ received' = 0
    /\ status' = "inflight"
    /\ UNCHANGED <<requested, fafs, alive, delivered, oob, netfails>>

\* HttpReq::put(): another piece of the response arrives
Receive ==
    /\ status = "inflight"
    /\ \E r \in (received + 1)..ResponseLen : received' = r
    /\ UNCHANGED <<requested, fafs, dispatched, alive, status, order,
                   completed, delivered, oob, netfails>>

\* CurlHttpIO::doio(): the transfer is done; success needs status 200 and
\* the announced content length
Done ==
    /\ status = "inflight"
    /\ received = ResponseLen
    /\ status' = "success"
    /\ UNCHANGED <<requested, fafs, dispatched, alive, order, received,
                   completed, delivered, oob, netfails>>

\* the request fails (connection error or short response): faf_failed()
NetFail ==
    /\ status = "inflight"
    /\ netfails < MaxNetFails
    /\ netfails' = netfails + 1
    /\ status' = "ready"
    /\ dispatched' = {}
    /\ UNCHANGED <<requested, fafs, alive, order, received, completed,
                   delivered, oob>>

\* the client loop calls parse() on an in-flight request with new data
ParseSome ==
    /\ status = "inflight"
    /\ ApplyParse(Parse(FALSE), "inflight")
    /\ UNCHANGED <<requested, alive, order, received, netfails>>

\* the client loop calls parse(final) on the completed request and frees
\* the channel
ParseFinal ==
    /\ status = "success"
    /\ ApplyParse(Parse(TRUE), "ready")
    /\ UNCHANGED <<requested, alive, order, received, netfails>>

\* the application drops a pending fetch record
AppCancel(h) ==
    /\ h \in fafs
    /\ fafs' = fafs \ {h}
    /\ dispatched' = dispatched \ {h}
    /\ UNCHANGED <<requested, alive, status, order, received, completed,
                   delivered, oob, netfails>>

\* the node of a fetch is deleted
NodeGone(h) ==
    /\ h \in alive
    /\ alive' = alive \ {h}
    /\ UNCHANGED <<requested, fafs, dispatched, status, order, received,
                   completed, delivered, oob, netfails>>

Next ==
    \/ Dispatch \/ Receive \/ Done \/ NetFail \/ ParseSome \/ ParseFinal
    \/ \E h \in Fetches : Request(h) \/ AppCancel(h) \/ NodeGone(h)

Spec == Init /\ [][Next]_vars

\* The client loop runs dispatch(), doio() and parse() whenever they have
\* work; the service, once a request is posted, eventually sends the rest
\* of the response (a bounded number of requests may fail instead).
FairSpec ==
    /\ Spec
    /\ WF_vars(Dispatch) /\ WF_vars(Receive) /\ WF_vars(Done)
    /\ WF_vars(ParseSome) /\ WF_vars(ParseFinal)

-----------------------------------------------------------------------------
(* Properties                                                              *)

\* parse() never reads a header, or the next header's pos, beyond the bytes
\* received so far, however the response is split into pieces: the checks
\* against sizeof(FaPos) and bod, and the lookahead bound bod - 12 of the
\* incremental pass, keep every read inside req.in.
HeadersInReceived == ~oob

\* Every attribute handed to fa_complete() (and decrypted in place) is
\* exactly that fetch's data: it starts at the fetch's pos and runs to the
\* next header's pos, in the incremental and in the final pass.
DeliveredExact ==
    \A d \in delivered : d.len = AttrLen[d.h]

\* Every pending fetch whose node still exists is eventually answered and
\* its record erased, even when the application drops other fetches of
\* the channel (which fails the whole channel) or requests fail.
FetchesResolve ==
    \A h \in Fetches : (h \in fafs) ~> (h \notin fafs \/ h \notin alive)

====
