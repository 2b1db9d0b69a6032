------------------------------ MODULE MCPathOpen ------------------------------
(* Three openers, one of them with the Shared policy, two directories that
   may be missing, and a file that is removed once. *)
EXTENDS PathOpen

CONSTANTS o1, o2, o3
=============================================================================
