---------------------------- MODULE MCSessionParts ----------------------------
(***************************************************************************)
(* The parts of a session that run side by side: its calls, one of each    *)
(* kind, on the locks of the session; two workers, of which one exchanges  *)
(* envelopes with the page, so everything that Dispose has to wait for;    *)
(* and the DevTools, with two connections.  The parts share no state that  *)
(* these modules have, so that a behaviour explores one of them, which     *)
(* "part" names; the others stay as they begin.                            *)
(***************************************************************************)
EXTENDS MCSession, MCWorker, CDPServer

VARIABLE part

Parts == {"calls", "workers", "devtools"}
partVars == <<part, vars, workerVars, cdpVars>>

PartsInit == part \in Parts /\ Init /\ WorkerInit /\ CdpInit

PartsNext ==
  /\ UNCHANGED part
  /\ \/ part = "calls" /\ Next /\ UNCHANGED <<workerVars, cdpVars>>
     \/ part = "workers" /\ WorkerNext /\ UNCHANGED <<vars, cdpVars>>
     \/ part = "devtools" /\ CdpNext /\ UNCHANGED <<vars, workerVars>>

\* Where a part has not begun nothing of its fairness is enabled.
PartsSpec == PartsInit /\ [][PartsNext]_partVars /\ GoFairness /\ WorkerFairness

-----------------------------------------------------------------------------
\* The second connection is there to get in the way of the first.
MCMaxFrames == [w1 |-> 2, w2 |-> 1]
=============================================================================
