------------------------------ MODULE MCOnroad ------------------------------
(* A panda that is pulled once; the ignition goes on, off and on again.       *)
EXTENDS Onroad
=============================================================================
