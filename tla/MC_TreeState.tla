---------------------------- MODULE MC_TreeState ----------------------------
(* TreeState on a three-level tree: root r holds folder a and file z; a    *)
(* holds file x and folder b, which holds file y.                          *)
EXTENDS TreeState, TLC

CONSTANTS r, a, b, x, y, z

MCParent0 == (r :> NoLocal) @@ (a :> r) @@ (b :> a) @@ (x :> a) @@ (y :> b) @@ (z :> r)
=============================================================================
