--------------------------- MODULE MC_SyncTrees ----------------------------
(* SyncTrees with a small account: the files root R holds the synced       *)
(* folder A (with a file F), a folder B outside the sync, and the          *)
(* SyncDebris folder D; three LocalNode objects (root l0, folder l1, file  *)
(* l2) and two fsids.                                                      *)
EXTENDS SyncTrees

CONSTANTS R, A, F, B, D, l0, l1, l2, f1, f2

MCServerParent == [h \in Handles |->
                     CASE h = R -> NoNode
                       [] h = F -> A
                       [] OTHER -> R]
=============================================================================
