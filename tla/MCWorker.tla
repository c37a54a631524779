------------------------------ MODULE MCWorker ------------------------------
(* Two workers, of which one exchanges envelopes with the page: everything    *)
(* that Dispose has to wait for.                                              *)
EXTENDS Worker, TLC

CONSTANTS k1, k2
MCPostBound == (k1 :> 2) @@ (k2 :> 0)
=============================================================================
