---------------------------- MODULE MC_ClientLoop ----------------------------
(* ClientLoop with two requests and two easy handles: two transfers with  *)
(* sockets at once, or one request posted again after its completion; the *)
(* loop sleeps with a timeout or with none.                                *)
EXTENDS ClientLoop

CONSTANTS q1, q2, h1, h2
=============================================================================
