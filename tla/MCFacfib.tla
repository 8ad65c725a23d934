------------------------------ MODULE MCFacfib -------------------------------
(* Numbers on both sides of each base case, and enough above to recurse.   *)
EXTENDS Facfib

AskedNumbers == -1..6
=============================================================================
