---------------------------- MODULE PosixWaiter ----------------------------
(***************************************************************************)
(* The POSIX event waiter (PosixWaiter, posix/waiter.cpp). Each turn of    *)
(* the client's loop resets it (init), lets every I/O layer add the file   *)
(* descriptors it waits on and raise maxfd (addevents, bumpmaxfd), and     *)
(* blocks in select() until one of the first maxfd + 1 descriptors is      *)
(* ready or maxds deciseconds have passed (wait). The three fd_sets are    *)
(* kept as one set of descriptors: which of read, write or exception a     *)
(* descriptor waits for does not change when select() returns. A waiter   *)
(* is a record [fds, maxfd, maxds], so its operations compose within one   *)
(* step of the loop.                                                       *)
(***************************************************************************)
EXTENDS Integers

CONSTANTS
    NEVER           \* ~0: no timeout scheduled

VARIABLES
    fds,            \* rfds | wfds | efds
    maxfd,          \* PosixWaiter::maxfd
    maxds           \* Waiter::maxds

\* the waiter's fields as a record
WaiterState == [fds |-> fds, maxfd |-> maxfd, maxds |-> maxds]

\* mutant: init() leaves the fd_sets of the previous turn in place
initNoZero(w, ds) == [w EXCEPT !.maxfd = -1, !.maxds = ds]

\* PosixWaiter::init(ds): Waiter::init records the timeout, maxfd = -1,
\* and FD_ZERO on the three sets
init(w, ds) == [fds |-> {}, maxfd |-> -1, maxds |-> ds]

\* PosixWaiter::bumpmaxfd(fd): raise maxfd to fd
bumpmaxfd(w, fd) == [w EXCEPT !.maxfd = IF fd > @ THEN fd ELSE @]

\* mutant: select() passes maxfd instead of maxfd + 1
selectedNoPlusOne(w) == {f \in w.fds : f < w.maxfd}

\* the descriptors PosixWaiter::select() hands to ::select(): those in the
\* sets below nfds = maxfd + 1
selected(w) == {f \in w.fds : f < w.maxfd + 1}

\* select()'s timeout: a timeval of maxds deciseconds when maxds + 1 is
\* not 0, otherwise NULL (block until a descriptor is ready)
timed(w) == w.maxds # NEVER

\* PosixWaiter::wait() can return: select() returns once a selected
\* descriptor is ready or the timeout has passed
returns(w, readyfds) == selected(w) \cap readyfds # {} \/ timed(w)

\* the waiter after PosixWaiter::wait(): ::select() leaves in the sets the
\* selected descriptors that are ready, none when it timed out; wait()
\* returns NEEDEXEC either way
wait(w, readyfds) == [w EXCEPT !.fds = selected(w) \cap readyfds]

====
