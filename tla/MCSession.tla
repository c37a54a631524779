------------------------------ MODULE MCSession ------------------------------
(* The calls of the instances are model values, which the .cfg files list.    *)
EXTENDS Session
=============================================================================
