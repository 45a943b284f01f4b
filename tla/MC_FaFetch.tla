----------------------------- MODULE MC_FaFetch -----------------------------
(* FaFetch with two fetches of one cluster: a1 with a 16-byte attribute,   *)
(* a2 with a 32-byte one; the response is 24 header bytes and 48 data      *)
(* bytes, split into pieces at any byte.                                   *)
EXTENDS FaFetch, TLC

CONSTANTS a1, a2

MCFetchOrder == <<a1, a2>>
MCAttrLen == (a1 :> 16) @@ (a2 :> 32)
=============================================================================
