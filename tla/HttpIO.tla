------------------------------- MODULE HttpIO --------------------------------
(***************************************************************************)
(* The cURL transport (CurlHttpIO, posix/net.cpp) and the HttpReq objects  *)
(* it serves (http.h). A request is posted with a fresh easy handle; cURL  *)
(* delivers the response headers (check_header), the body (write_data)     *)
(* and a completion message that doio() turns into the request's status   *)
(* before cleaning the handle up; cancel() removes and cleans up the      *)
(* handle of a request still recorded in httpiohandle.                    *)
(*                                                                         *)
(* HttpReq::post and HttpReq::disconnect are not under src/; they are     *)
(* modelled from the transport contract (spec section 6) and the comment  *)
(* on HttpReq::httpio: post records the HttpIO in httpio and resets the   *)
(* per-response length, disconnect cancels while httpio is set.           *)
(***************************************************************************)
EXTENDS Integers, Sequences, SequencesExt

CONSTANTS
    Reqs,           \* HttpReq objects
    Handles,        \* easy handles curl_easy_init can return; bounds the posts
    Null,           \* NULL httpiohandle
    BodyLen,        \* decoded length of every response body
    CLen,           \* its Content-Length when the service compresses it
    InitMayFail     \* whether curl_easy_init may return NULL

ASSUME Null \notin Handles /\ BodyLen \in Nat \ {0} /\ CLen \in Nat /\ CLen # BodyLen

\* reqstatus_t
READY == "ready"
INFLIGHT == "inflight"
SUCCESS == "success"
FAILURE == "failure"

\* the life of an easy handle inside cURL
HStates == {"unused", "active", "done", "cleaned"}

\* the length header lines of a response, in the order the service sends
\* them: a plain body has Content-Length only; a compressed one (cURL
\* decodes it, CURLOPT_ENCODING "") has its compressed length as
\* Content-Length and the decoded length as Original-Content-Length
CL == "Content-Length"
OCL == "Original-Content-Length"
HeaderLists ==
    { << <<CL, BodyLen>> >>,
      << <<CL, CLen>>, <<OCL, BodyLen>> >>,
      << <<OCL, BodyLen>>, <<CL, CLen>> >> }

Codes == {0, 200, 500}

VARIABLES
    status,         \* HttpReq::status
    httpstatus,     \* HttpReq::httpstatus
    in,             \* HttpReq::in.size()
    contentlength,  \* HttpReq::contentlength
    httpiohandle,   \* HttpReq::httpiohandle
    httpio,         \* HttpReq::httpio # NULL
    hstate,         \* each easy handle's life
    owner,          \* CURLOPT_PRIVATE of each easy handle
    hdrs,           \* the response headers of the handle have been delivered
    code,           \* the HTTP status the service sent on the handle
    touched,        \* history: handles passed to cURL after curl_easy_cleanup
    success,        \* HttpIO::success
    initfailed      \* history: some curl_easy_init has returned NULL

vars == <<status, httpstatus, in, contentlength, httpiohandle, httpio,
          hstate, owner, hdrs, code, touched, success, initfailed>>

TypeOK ==
    /\ status \in [Reqs -> {READY, INFLIGHT, SUCCESS, FAILURE}]
    /\ httpstatus \in [Reqs -> Codes]
    /\ in \in [Reqs -> 0..BodyLen]
    /\ contentlength \in [Reqs -> {-1, CLen, BodyLen}]
    /\ httpiohandle \in [Reqs -> Handles \cup {Null}]
    /\ httpio \in [Reqs -> BOOLEAN]
    /\ hstate \in [Handles -> HStates]
    /\ owner \in [Handles -> Reqs \cup {Null}]
    /\ hdrs \in [Handles -> BOOLEAN]
    /\ code \in [Handles -> Codes]
    /\ touched \subseteq Handles
    /\ success \in BOOLEAN
    /\ initfailed \in BOOLEAN
    /\ \A h \in Handles : hstate[h] \in {"active", "done"} => owner[h] \in Reqs

Init ==
    /\ status = [q \in Reqs |-> READY]
    /\ httpstatus = [q \in Reqs |-> 0]
    /\ in = [q \in Reqs |-> 0]
    /\ contentlength = [q \in Reqs |-> -1]
    /\ httpiohandle = [q \in Reqs |-> Null]
    /\ httpio = [q \in Reqs |-> FALSE]
    /\ hstate = [h \in Handles |-> "unused"]
    /\ owner = [h \in Handles |-> Null]
    /\ hdrs = [h \in Handles |-> FALSE]
    /\ code = [h \in Handles |-> 0]
    /\ touched = {}
    /\ success = FALSE
    /\ initfailed = FALSE

-----------------------------------------------------------------------------
(* Posting                                                                 *)

\* mutant: the easy handle is added without CURLOPT_PRIVATE
PostNoPrivate(q) ==
    /\ status[q] # INFLIGHT
    /\ httpio' = [httpio EXCEPT ![q] = TRUE]
    /\ contentlength' = [contentlength EXCEPT ![q] = -1]
    /\ in' = [in EXCEPT ![q] = 0]
    /\ \E h \in Handles :
         /\ hstate[h] = "unused"
         /\ hstate' = [hstate EXCEPT ![h] = "active"]
         /\ status' = [status EXCEPT ![q] = INFLIGHT]
         /\ httpiohandle' = [httpiohandle EXCEPT ![q] = h]
    /\ UNCHANGED <<owner, httpstatus, hdrs, code, touched, success, initfailed>>

\* HttpReq::post then CurlHttpIO::post: in.clear(), and either a new easy
\* handle added to the multi handle (INFLIGHT, httpiohandle set) or, when
\* curl_easy_init fails, FAILURE with httpiohandle left as it was
Post(q) ==
    /\ status[q] # INFLIGHT
    /\ httpio' = [httpio EXCEPT ![q] = TRUE]
    /\ contentlength' = [contentlength EXCEPT ![q] = -1]
    /\ in' = [in EXCEPT ![q] = 0]
    /\ \/ \E h \in Handles :
            /\ hstate[h] = "unused"
            /\ hstate' = [hstate EXCEPT ![h] = "active"]
            /\ owner' = [owner EXCEPT ![h] = q]
            /\ status' = [status EXCEPT ![q] = INFLIGHT]
            /\ httpiohandle' = [httpiohandle EXCEPT ![q] = h]
            /\ UNCHANGED initfailed
       \/ /\ InitMayFail
          /\ status' = [status EXCEPT ![q] = FAILURE]
          /\ initfailed' = TRUE
          /\ UNCHANGED <<hstate, owner, httpiohandle>>
    /\ UNCHANGED <<httpstatus, hdrs, code, touched, success>>

-----------------------------------------------------------------------------
(* cURL delivering a response (curl_multi_perform)                        *)

\* mutant: every Content-Length header overrides the length already set
CheckHeaderAlways(cl, line) == line[2]

\* check_header on one header line: Content-Length is taken only if no
\* length is set yet; Original-Content-Length always overrides
CheckHeader(cl, line) ==
    IF line[1] = CL THEN (IF cl < 0 THEN line[2] ELSE cl) ELSE line[2]

\* the status line and the header lines of the response reach check_header
\* in the order they were sent
Headers(h, hl, c) ==
    LET q == owner[h]
    IN /\ hstate[h] = "active"
       /\ ~hdrs[h]
       /\ hdrs' = [hdrs EXCEPT ![h] = TRUE]
       /\ code' = [code EXCEPT ![h] = c]
       /\ contentlength' = [contentlength EXCEPT ![q] = FoldLeft(CheckHeader, @, hl)]
       /\ UNCHANGED <<status, httpstatus, in, httpiohandle, httpio, hstate,
                      owner, touched, success, initfailed>>

\* write_data: a piece of the decoded body is appended to req->in
Data(h) ==
    LET q == owner[h]
    IN /\ hstate[h] = "active"
       /\ hdrs[h]
       /\ in[q] < BodyLen
       /\ in' = [in EXCEPT ![q] = @ + 1]
       /\ UNCHANGED <<status, httpstatus, contentlength, httpiohandle, httpio,
                      hstate, owner, hdrs, code, touched, success, initfailed>>

\* the transfer ends, completely or with the connection dropped; cURL
\* queues a CURLMSG_DONE message for the handle
Finish(h) ==
    /\ hstate[h] = "active"
    /\ hstate' = [hstate EXCEPT ![h] = "done"]
    /\ UNCHANGED <<status, httpstatus, in, contentlength, httpiohandle, httpio,
                   owner, hdrs, code, touched, success, initfailed>>

-----------------------------------------------------------------------------
(* The client's loop                                                       *)

\* the request's status once doio has read its message
Outcome(q, h) ==
    IF code[h] = 200 /\ contentlength[q] = in[q] THEN SUCCESS ELSE FAILURE

\* mutant: doio leaves req->httpio set
DoioKeepHttpio ==
    LET D == {h \in Handles : hstate[h] = "done"}
        Q == {owner[h] : h \in D}
    IN /\ D # {}
       /\ httpstatus' = [q \in Reqs |-> IF q \in Q
                            THEN code[CHOOSE h \in D : owner[h] = q] ELSE httpstatus[q]]
       /\ status' = [q \in Reqs |-> IF q \in Q
                        THEN Outcome(q, CHOOSE h \in D : owner[h] = q) ELSE status[q]]
       /\ hstate' = [h \in Handles |-> IF h \in D THEN "cleaned" ELSE hstate[h]]
       /\ success' = TRUE
       /\ UNCHANGED <<in, contentlength, httpiohandle, httpio, owner, hdrs, code, touched, initfailed>>

\* CurlHttpIO::doio: every queued CURLMSG_DONE clears req->httpio, takes
\* the response code, sets SUCCESS exactly when it is 200 and the length
\* matches, sets HttpIO::success, then removes and cleans up the easy
\* handle; req->httpiohandle keeps the freed handle
Doio ==
    LET D == {h \in Handles : hstate[h] = "done"}
        Q == {owner[h] : h \in D}
    IN /\ D # {}
       /\ httpio' = [q \in Reqs |-> IF q \in Q THEN FALSE ELSE httpio[q]]
       /\ httpstatus' = [q \in Reqs |-> IF q \in Q
                            THEN code[CHOOSE h \in D : owner[h] = q] ELSE httpstatus[q]]
       /\ status' = [q \in Reqs |-> IF q \in Q
                        THEN Outcome(q, CHOOSE h \in D : owner[h] = q) ELSE status[q]]
       /\ hstate' = [h \in Handles |-> IF h \in D THEN "cleaned" ELSE hstate[h]]
       /\ success' = TRUE
       /\ UNCHANGED <<in, contentlength, httpiohandle, owner, hdrs, code, touched, initfailed>>

\* HttpReq::disconnect: while httpio is set, CurlHttpIO::cancel removes and
\* cleans up the recorded easy handle, sets httpstatus 0 and FAILURE and
\* clears httpiohandle; httpio is then cleared
Disconnect(q) ==
    LET h == httpiohandle[q]
    IN /\ httpio[q]
       /\ httpio' = [httpio EXCEPT ![q] = FALSE]
       /\ IF h # Null
          THEN /\ hstate' = [hstate EXCEPT ![h] = "cleaned"]
               /\ touched' = IF hstate[h] = "cleaned" THEN touched \cup {h} ELSE touched
               /\ httpstatus' = [httpstatus EXCEPT ![q] = 0]
               /\ status' = [status EXCEPT ![q] = FAILURE]
               /\ httpiohandle' = [httpiohandle EXCEPT ![q] = Null]
          ELSE UNCHANGED <<hstate, touched, httpstatus, status, httpiohandle>>
       /\ UNCHANGED <<in, contentlength, owner, hdrs, code, success, initfailed>>

Next ==
    \/ \E q \in Reqs : Post(q) \/ Disconnect(q)
    \/ \E h \in Handles :
          \/ \E hl \in HeaderLists, c \in Codes \ {0} : Headers(h, hl, c)
          \/ Data(h)
          \/ Finish(h)
    \/ Doio

Spec == Init /\ [][Next]_vars

-----------------------------------------------------------------------------
(* Properties                                                              *)

\* No easy handle is passed to cURL after curl_easy_cleanup: doio frees the
\* handle of a finished request but leaves it in req->httpiohandle, so only
\* the cleared req->httpio keeps a later disconnect from cancelling it a
\* second time, whatever order posts, completions and disconnects of
\* several requests come in.
NoUseAfterCleanup == touched = {}

\* NoUseAfterCleanup holds as long as every curl_easy_init has succeeded.
NoUseAfterCleanupUnlessInitFailed == ~initfailed => NoUseAfterCleanup

\* doio reports SUCCESS exactly for a response whose status was 200 and
\* whose decoded body arrived whole, whether the service sent the body
\* plain or compressed and in whichever order the two length headers came
\* in, and even when the connection dropped before the end.
\* the message cURL queued for request q when doio runs
DoneHandle(q) == {h \in Handles : owner[h] = q /\ hstate[h] = "done"}

ResultExact ==
    [][Doio => \A q \in Reqs :
                 DoneHandle(q) # {} =>
                    (status'[q] = SUCCESS <=>
                       \E h \in DoneHandle(q) : code[h] = 200 /\ in[q] = BodyLen)]_vars

====
