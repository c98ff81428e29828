----------------------------- MODULE MCRootNode -----------------------------
(***************************************************************************)
(* A small instance of RootNode.  t0 is the tree of defaults, t1 and t2    *)
(* differ in what the user set.  d1b is a hand-formatted document that     *)
(* reads as t1 but is not what toJson writes; darr is a document whose     *)
(* root is an array.  t1q is t1 with a quarantined key at the root that an *)
(* option hides, so that it is saved as d1 and read back as t1.            *)
(***************************************************************************)
EXTENDS RootNode, TLC

CONSTANTS d0, d1, d1b, d2, darr, t0, t1, t2, t1q

MCDocs      == {d0, d1, d1b, d2, darr}
MCRejected  == {darr}
MCTrees     == {t0, t1, t2, t1q}
MCParse     == d0 :> t0 @@ d1 :> t1 @@ d1b :> t1 @@ d2 :> t2
MCStrip     == t0 :> t0 @@ t1 :> t1 @@ t2 :> t2 @@ t1q :> t1
MCSerialise == t0 :> d0 @@ t1 :> d1 @@ t2 :> d2 @@ t1q :> d1
=============================================================================
