----------------------------- MODULE ClientLoop -----------------------------
(***************************************************************************)
(* The client's event loop on POSIX: the cURL transport (HttpIO) composed  *)
(* with the event waiter (PosixWaiter). All of the client runs on one      *)
(* thread (spec section 5) that alternates between two phases:             *)
(*   exec   - the application posts and disconnects requests, and doio()   *)
(*            runs curl_multi_perform (the response callbacks of HttpIO,   *)
(*            on the sockets that have input) and reads cURL's messages;   *)
(*   select - MegaClient::wait() has reset the waiter, had the transport   *)
(*            add its sockets (CurlHttpIO::addevents) and blocks in        *)
(*            PosixWaiter::wait() until a socket is ready or maxds passes. *)
(* Every easy handle in transfer has a socket, numbered by the OS as the   *)
(* lowest descriptor not in use. The network makes input ready on a        *)
(* socket at any time; curl_multi_perform consumes all input there is.     *)
(* MegaClient::wait() is not under src/: the timeouts it schedules are     *)
(* MaxdsChoices, and it calls init, addevents and wait in that order.      *)
(***************************************************************************)
EXTENDS HttpIO, PosixWaiter, FiniteSets

CONSTANTS
    MaxdsChoices    \* the timeouts MegaClient::wait() may pass, NEVER included

VARIABLES
    phase,          \* "exec" or "select"
    sock,           \* the socket descriptor of each easy handle, -1 before it has one
    ready           \* easy handles whose socket has input not yet read by cURL

loopvars == <<phase, sock, ready>>
waitervars == <<fds, maxfd, maxds>>
allvars == <<vars, waitervars, loopvars>>

\* descriptors 0-2 are the standard streams
Fds == 3 .. 2 + Cardinality(Handles)

Transferring == {h \in Handles : hstate[h] = "active"}
OpenFds == {sock[h] : h \in Transferring}
ReadyFds == {sock[h] : h \in ready}

\* curl_multi_fdset: the sockets of the transfers are added to the sets;
\* its max_fd is the highest of them, -1 when there is none
CurlFdset(w) == [w EXCEPT !.fds = @ \cup OpenFds]
CurlMaxfd == IF OpenFds = {} THEN -1 ELSE Max(OpenFds)

\* mutant: addevents does not raise the waiter's maxfd
addeventsNoBump(w) == CurlFdset(w)

\* CurlHttpIO::addevents: curl_multi_fdset into the waiter's sets, then
\* bumpmaxfd with cURL's max_fd
addevents(w) == bumpmaxfd(CurlFdset(w), CurlMaxfd)

LoopTypeOK ==
    /\ phase \in {"exec", "select"}
    /\ sock \in [Handles -> Fds \cup {-1}]
    /\ ready \subseteq Transferring
    /\ fds \subseteq Fds /\ maxfd \in Fds \cup {-1} /\ maxds \in MaxdsChoices

LoopInit ==
    /\ Init
    /\ fds = {} /\ maxfd = -1 /\ maxds = NEVER
    /\ phase = "exec" /\ sock = [h \in Handles |-> -1] /\ ready = {}

-----------------------------------------------------------------------------
(* The exec phase                                                          *)

\* the sockets after a step of cURL: a transfer that starts takes the
\* lowest free descriptor, one that ends closes its socket
Sockets ==
    [h \in Handles |->
        IF hstate'[h] # "active" THEN -1
        ELSE IF hstate[h] = "active" THEN sock[h] ELSE Min(Fds \ OpenFds)]

\* the application posts a request
LoopPost(q) ==
    /\ phase = "exec"
    /\ Post(q)
    /\ sock' = Sockets
    /\ UNCHANGED <<phase, ready, waitervars>>

\* the application disconnects a request; a cancelled transfer's socket
\* is closed with its input
LoopDisconnect(q) ==
    /\ phase = "exec"
    /\ Disconnect(q)
    /\ ready' = {h \in ready : hstate'[h] = "active"}
    /\ sock' = Sockets
    /\ UNCHANGED <<phase, waitervars>>

\* curl_multi_perform reads the input on a socket and calls HttpIO's
\* callbacks, or ends the transfer
Perform(h) ==
    /\ phase = "exec" /\ h \in ready
    /\ \/ \E hl \in HeaderLists, c \in Codes \ {0} : Headers(h, hl, c)
       \/ Data(h)
       \/ Finish(h)
    /\ ready' = ready \ {h}
    /\ sock' = Sockets
    /\ UNCHANGED <<phase, waitervars>>

\* doio() reads cURL's messages
LoopDoio ==
    /\ phase = "exec"
    /\ Doio
    /\ UNCHANGED <<loopvars, waitervars>>

\* MegaClient::wait(), once curl_multi_perform has read all input:
\* waiter->init(maxds), httpio->addevents(waiter), then waiter->wait()
Sleep ==
    /\ phase = "exec" /\ ready = {}
    /\ \E ds \in MaxdsChoices :
          LET w == addevents(init(WaiterState, ds))
          IN fds' = w.fds /\ maxfd' = w.maxfd /\ maxds' = w.maxds
    /\ phase' = "select"
    /\ UNCHANGED <<vars, sock, ready>>

-----------------------------------------------------------------------------
(* The select phase, and the network                                       *)

\* select() returns: a selected socket is ready, or the timeout passed
Wake ==
    /\ phase = "select"
    /\ returns(WaiterState, ReadyFds)
    /\ fds' = wait(WaiterState, ReadyFds).fds
    /\ phase' = "exec"
    /\ UNCHANGED <<vars, maxfd, maxds, sock, ready>>

\* the service sends the next part of a response, or the connection drops
Send(h) ==
    /\ hstate[h] = "active" /\ h \notin ready
    /\ ready' = ready \cup {h}
    /\ UNCHANGED <<vars, waitervars, phase, sock>>

LoopNext ==
    \/ \E q \in Reqs : LoopPost(q) \/ LoopDisconnect(q)
    \/ \E h \in Handles : Send(h) \/ Perform(h)
    \/ LoopDoio \/ Sleep \/ Wake

\* the loop thread runs (it is not starved: it goes to sleep, wakes when
\* select() returns, and cURL reads input it has); the network, the
\* service and the application act when they will
LoopSpec ==
    /\ LoopInit /\ [][LoopNext]_allvars
    /\ WF_allvars(Sleep) /\ WF_allvars(Wake)
    /\ \A h \in Handles : WF_allvars(Perform(h))

-----------------------------------------------------------------------------
(* Properties                                                              *)

\* While the loop sleeps in select(), the descriptors select() watches are
\* exactly the sockets of the transfers in progress: init() clears what a
\* previous turn added, addevents() adds every current socket and raises
\* maxfd over it, and nfds = maxfd + 1 covers the highest, however
\* transfers start, end and reuse descriptor numbers between turns.
SelectWatchesTransfers == phase = "select" => selected(WaiterState) = OpenFds

\* Input that reaches a transfer's socket is eventually read by cURL: the
\* loop never sleeps for good in select() while a socket it should watch
\* has input, even when no timeout is scheduled.
InputEventuallyRead == \A h \in Handles : h \in ready ~> h \notin ready

====
